---------------------------- MODULE RegisterCache ----------------------------
(***************************************************************************)
(* The register cache of the AArch64 code generator                        *)
(* (src/vm/jit/aarch64/RegisterCache.cpp) and the way CodeGenerator.cpp    *)
(* uses it for each kind of guest instruction.                             *)
(*                                                                         *)
(* The cache lives while a block is generated, the code it emits runs      *)
(* later.  Code of a block is straight-line, so both are followed at once: *)
(* a step of the generator is also the execution of what it emits, and a   *)
(* conditional exit ends the block on one branch and goes on generating on *)
(* the other, with what the generator believes unchanged.                  *)
(*                                                                         *)
(* guest is what the instruction set says the registers are; host and      *)
(* register_state are what the emitted code makes of them.                 *)
(***************************************************************************)
EXTENDS Integers, FiniteSets

CONSTANTS
    Regs,             \* guest registers other than x0
    Zero,             \* x0, which is also "no register"
    Slots,            \* host registers of the cache, cache_size of them
    NoSlot,           \* invalid_id
    Values, ZeroValue,
    Op,               \* the result of an instruction, a function of operands
    MaxInstructions   \* the length of a block

ASSUME RegsAssumption ==
    Zero \notin Regs /\ NoSlot \notin Slots /\ IsFiniteSet(Slots)
ASSUME ValuesAssumption ==
    ZeroValue \in Values /\ Op \in [Values \X Values -> Values]
ASSUME LengthAssumption == MaxInstructions \in Nat

Slot == [reg: Regs \union {Zero}, locked: BOOLEAN, dirty: BOOLEAN,
         last_use: 0 .. MaxInstructions]
EmptySlot == [reg |-> Zero, locked |-> FALSE, dirty |-> FALSE, last_use |-> 0]

Operands == Regs \union {Zero}
\* rd of an instruction that is only generated for rd # x0 is in Regs.
Instructions ==
    [kind: {"immediate"}, rs1: {Zero}, rs2: {Zero}, rd: Regs] \union
    [kind: {"unary", "load"}, rs1: Operands, rs2: {Zero}, rd: Regs] \union
    [kind: {"binary"}, rs1: Operands, rs2: Operands, rd: Regs] \union
    [kind: {"store", "branch"}, rs1: Operands, rs2: Operands, rd: {Zero}]
        \union
    [kind: {"jal"}, rs1: {Zero}, rs2: {Zero}, rd: Operands] \union
    [kind: {"jalr"}, rs1: Operands, rs2: {Zero}, rd: Operands] \union
    [kind: {"nothing", "stop"}, rs1: {Zero}, rs2: {Zero}, rd: {Zero}]

VARIABLES
    slots, register_to_slot, free_slots, program_counter,  \* RegisterCache
    phase, instruction,   \* where generate_instruction is
    snapshot,             \* of the pending exits of this instruction
    target,               \* jalr: the operand that holds the target, see Link
    a_reg,                \* the scratch register of that name
    host,                 \* the values of the cache's host registers
    register_state,       \* the values of the guest registers in memory
    guest, jump           \* by the instruction set: registers, jalr target

cache == <<slots, register_to_slot, free_slots, program_counter>>
emitted == <<target, a_reg, host, register_state>>
vars == <<cache, phase, instruction, snapshot, emitted, guest, jump>>

EmptySnapshot == [s \in Slots |-> Zero]
NoInstruction == [kind |-> "nothing", rs1 |-> Zero, rs2 |-> Zero, rd |-> Zero]

NewCache ==
    /\ slots' = [s \in Slots |-> EmptySlot]
    /\ register_to_slot' = [r \in Regs |-> NoSlot]
    /\ free_slots' = Slots
    /\ program_counter' = 0

Init ==
    /\ slots = [s \in Slots |-> EmptySlot]
    /\ register_to_slot = [r \in Regs |-> NoSlot]
    /\ free_slots = Slots
    /\ program_counter = 0
    /\ phase = "fetch"
    /\ instruction = NoInstruction
    /\ snapshot = EmptySnapshot
    /\ target = Zero /\ a_reg = ZeroValue
    /\ host = [s \in Slots |-> ZeroValue]
    /\ register_state = [r \in Regs |-> ZeroValue]
    /\ guest = register_state /\ jump = ZeroValue

\* An operand as the emitted code sees it, and as the instruction set does.
HostValue(r) == IF r = Zero THEN ZeroValue ELSE host[register_to_slot[r]]
GuestValue(r) == IF r = Zero THEN ZeroValue ELSE guest[r]

(***************************************************************************)
(* lock_registers: the registers that are cached are locked; for the rest, *)
(* when too few slots are free, the least recently used unlocked slots are *)
(* evicted, a dirty one to memory; then each missing register takes a free *)
(* slot and is loaded, unless it is only written.                          *)
(***************************************************************************)
Evictable(registers) ==
    {s \in Slots : /\ ~slots[s].locked /\ slots[s].reg # Zero
                   /\ slots[s].reg \notin registers}

Missing(registers) == {r \in registers : register_to_slot[r] = NoSlot}

\* One register per slot, each in a slot that is free or being freed.
Placement(into, available) ==
    /\ \A r \in DOMAIN into : into[r] \in available
    /\ \A r, q \in DOMAIN into : into[r] = into[q] => r = q
PlacedIn(into, s) == CHOOSE r \in DOMAIN into : into[r] = s

LeastRecentlyUsed(victims, among) ==
    \A v \in victims, s \in among \ victims :
        slots[v].last_use <= slots[s].last_use

\* Mutants of Replace: the evicted register keeps its slot in
\* register_to_slot; the slot is freed after that entry was reset.
ReplaceStale(reads, registers, victims, into) ==
    /\ slots' = [s \in Slots |->
          IF \E r \in DOMAIN into : into[r] = s
          THEN [reg |-> PlacedIn(into, s), locked |-> TRUE, dirty |-> FALSE,
                last_use |-> program_counter]
          ELSE IF s \in victims THEN EmptySlot
          ELSE IF slots[s].reg \in registers
          THEN [slots[s] EXCEPT !.locked = TRUE, !.last_use = program_counter]
          ELSE slots[s]]
    /\ register_to_slot' = [r \in Regs |->
          IF r \in DOMAIN into THEN into[r]
          ELSE register_to_slot[r]]
    /\ free_slots' = (free_slots \union victims)
                        \ {into[r] : r \in DOMAIN into}
    /\ register_state' = [r \in Regs |->
          IF /\ register_to_slot[r] \in victims
             /\ slots[register_to_slot[r]].dirty
          THEN host[register_to_slot[r]]
          ELSE register_state[r]]
    /\ host' = [s \in Slots |->
          IF \E r \in DOMAIN into : into[r] = s /\ r \in reads
          THEN register_state[PlacedIn(into, s)]
          ELSE host[s]]
ReplaceSwapped(reads, registers, victims, into) ==
    /\ slots' = [s \in Slots |->
          IF \E r \in DOMAIN into : into[r] = s
          THEN [reg |-> PlacedIn(into, s), locked |-> TRUE, dirty |-> FALSE,
                last_use |-> program_counter]
          ELSE IF s \in victims THEN EmptySlot
          ELSE IF slots[s].reg \in registers
          THEN [slots[s] EXCEPT !.locked = TRUE, !.last_use = program_counter]
          ELSE slots[s]]
    /\ register_to_slot' = [r \in Regs |->
          IF r \in DOMAIN into THEN into[r]
          ELSE IF register_to_slot[r] \in victims THEN NoSlot
          ELSE register_to_slot[r]]
    /\ free_slots' = (free_slots \union {NoSlot : s \in victims})
                        \ {into[r] : r \in DOMAIN into}
    /\ register_state' = [r \in Regs |->
          IF /\ register_to_slot[r] \in victims
             /\ slots[register_to_slot[r]].dirty
          THEN host[register_to_slot[r]]
          ELSE register_state[r]]
    /\ host' = [s \in Slots |->
          IF \E r \in DOMAIN into : into[r] = s /\ r \in reads
          THEN register_state[PlacedIn(into, s)]
          ELSE host[s]]

\* What evicting the victims and locking the registers changes and emits.
Replace(reads, registers, victims, into) ==
    /\ slots' = [s \in Slots |->
          IF \E r \in DOMAIN into : into[r] = s
          THEN [reg |-> PlacedIn(into, s), locked |-> TRUE, dirty |-> FALSE,
                last_use |-> program_counter]
          ELSE IF s \in victims THEN EmptySlot
          ELSE IF slots[s].reg \in registers
          THEN [slots[s] EXCEPT !.locked = TRUE, !.last_use = program_counter]
          ELSE slots[s]]
    /\ register_to_slot' = [r \in Regs |->
          IF r \in DOMAIN into THEN into[r]
          ELSE IF register_to_slot[r] \in victims THEN NoSlot
          ELSE register_to_slot[r]]
    /\ free_slots' = (free_slots \union victims)
                        \ {into[r] : r \in DOMAIN into}
    /\ register_state' = [r \in Regs |->
          IF /\ register_to_slot[r] \in victims
             /\ slots[register_to_slot[r]].dirty
          THEN host[register_to_slot[r]]
          ELSE register_state[r]]
    /\ host' = [s \in Slots |->
          IF \E r \in DOMAIN into : into[r] = s /\ r \in reads
          THEN register_state[PlacedIn(into, s)]
          ELSE host[s]]

Short(registers) ==
    Cardinality(Missing(registers)) - Cardinality(free_slots)

LockRegisters(reads, writes) ==
    LET registers == (reads \union writes) \ {Zero} IN
    \E victims \in SUBSET Evictable(registers),
       into \in [Missing(registers) -> Slots] :
      /\ Cardinality(victims)
           = IF Short(registers) > 0 THEN Short(registers) ELSE 0
      /\ LeastRecentlyUsed(victims, Evictable(registers))
      /\ Placement(into, free_slots \union victims)
      /\ Replace(reads, registers, victims, into)

\* The verify of free_cache_slots.
CannotLock(reads, writes) ==
    LET registers == (reads \union writes) \ {Zero} IN
    Short(registers) > Cardinality(Evictable(registers))

\* Mutants of Unlocked: a written register is not marked dirty; the sources
\* stay locked.
UnlockedClean(registers, dirty) ==
    [s \in Slots |->
        IF slots[s].reg \in registers \ {Zero}
        THEN [slots[s] EXCEPT !.locked = FALSE] ELSE slots[s]]
UnlockedWritten(registers, dirty) ==
    [s \in Slots |->
        IF slots[s].reg \in dirty \ {Zero}
        THEN [slots[s] EXCEPT !.locked = FALSE, !.dirty = TRUE] ELSE slots[s]]

\* unlock_register of every operand; the destination is made dirty.
Unlocked(registers, dirty) ==
    [s \in Slots |->
        IF slots[s].reg \in registers \ {Zero}
        THEN [slots[s] EXCEPT !.locked = FALSE,
                              !.dirty = @ \/ slots[s].reg \in dirty]
        ELSE slots[s]]

\* Mutant of TakeSnapshot: the operands of the instruction are left out.
TakeUnlockedSnapshot ==
    [s \in Slots |-> IF slots[s].dirty /\ ~slots[s].locked
                     THEN slots[s].reg ELSE Zero]

\* take_state_snapshot, and flush_registers, which emits stores and changes
\* nothing in the cache.
TakeSnapshot ==
    [s \in Slots |-> IF slots[s].dirty THEN slots[s].reg ELSE Zero]
Flush(snap) ==
    register_state' = [r \in Regs |->
        IF \E s \in Slots : snap[s] = r
        THEN host[CHOOSE s \in Slots : snap[s] = r]
        ELSE register_state[r]]

(***************************************************************************)
(* generate_instruction.                                                   *)
(***************************************************************************)
\* The first lock_registers call of an instruction.
FirstReads(i) == {i.rs1, i.rs2}
FirstWrites(i) == IF i.kind = "jalr" THEN {} ELSE {i.rd}

Lock(i) ==
    /\ phase = "fetch"
    /\ i.kind # "stop" => program_counter < MaxInstructions
    /\ instruction' = i
    /\ phase' = CASE i.kind \in {"load", "store"} -> "check"
                  [] i.kind = "jalr" -> "link"
                  [] i.kind = "stop" -> "leave"
                  [] OTHER -> "execute"
    /\ LockRegisters(FirstReads(i), FirstWrites(i))
    /\ UNCHANGED <<program_counter, snapshot, target, a_reg, guest, jump>>

\* generate_validate_memory_access: the fault leaves through a pending exit,
\* generated after the block from a snapshot taken here.
Check ==
    /\ phase = "check" /\ phase' = "checked"
    /\ snapshot' = TakeSnapshot
    /\ UNCHANGED <<cache, instruction, emitted, guest, jump>>

Fault ==
    /\ phase = "checked" /\ phase' = "exited"
    /\ Flush(snapshot)
    /\ UNCHANGED <<cache, instruction, snapshot, target, a_reg, host, guest,
                   jump>>

\* The destination is computed and unlocked dirty, the sources unlocked.
WriteBack(i, result, expected) ==
    /\ host' = IF i.rd = Zero THEN host
               ELSE [host EXCEPT ![register_to_slot[i.rd]] = result]
    /\ guest' = IF i.rd = Zero THEN guest
                ELSE [guest EXCEPT ![i.rd] = expected]
    /\ slots' = Unlocked({i.rs1, i.rs2, i.rd}, {i.rd})

Complete(i) ==
    /\ phase' = "finish"
    /\ UNCHANGED <<register_to_slot, free_slots, program_counter, instruction,
                   snapshot, target, a_reg, register_state, jump>>

Compute ==
    /\ phase = "execute" /\ instruction.kind \in {"unary", "binary"}
    /\ WriteBack(instruction,
                 Op[HostValue(instruction.rs1), HostValue(instruction.rs2)],
                 Op[GuestValue(instruction.rs1), GuestValue(instruction.rs2)])
    /\ Complete(instruction)

\* lui, auipc and a load: the value does not come from a register.
Bring ==
    /\ \/ phase = "execute" /\ instruction.kind \in {"immediate", "nothing"}
       \/ phase = "checked"
    /\ \E v \in Values : WriteBack(instruction, v, v)
    /\ Complete(instruction)

\* A conditional branch: the flush is emitted on the taken path only.
BranchTaken ==
    /\ phase = "execute" /\ instruction.kind = "branch"
    /\ phase' = "exited"
    /\ Flush(TakeSnapshot)
    /\ UNCHANGED <<cache, instruction, snapshot, target, a_reg, host, guest,
                   jump>>

BranchNotTaken ==
    /\ phase = "execute" /\ instruction.kind = "branch"
    /\ WriteBack(instruction, ZeroValue, ZeroValue)
    /\ Complete(instruction)

\* jal writes the return address, and leaves the block.
JumpAndLink ==
    /\ phase = "execute" /\ instruction.kind = "jal"
    /\ \E v \in Values : WriteBack(instruction, v, v)
    /\ phase' = "leave"
    /\ UNCHANGED <<register_to_slot, free_slots, program_counter, instruction,
                   snapshot, target, a_reg, register_state, jump>>

(***************************************************************************)
(* jalr locks rs1, forms the target (in place when the offset is 0, else   *)
(* in a_reg), and only then locks rd, which may be the same register: the  *)
(* target is moved out of its way.                                         *)
(***************************************************************************)
Offset ==
    /\ phase = "link" /\ phase' = "relock"
    /\ \/ /\ instruction.rs1 # Zero
          /\ target' = instruction.rs1 /\ UNCHANGED a_reg
       \/ target' = Zero /\ a_reg' = HostValue(instruction.rs1)
    /\ jump' = GuestValue(instruction.rs1)
    /\ UNCHANGED <<cache, instruction, snapshot, host, register_state, guest>>

Relock ==
    /\ phase = "relock" /\ phase' = "linked"
    /\ LockRegisters({}, {instruction.rd})
    /\ UNCHANGED <<program_counter, instruction, snapshot, target, a_reg,
                   guest, jump>>

\* Mutant of Link: the target is left where the return address goes.
LinkInPlace ==
    /\ phase = "linked" /\ phase' = "leave"
    /\ \E v \in Values : WriteBack(instruction, v, v)
    /\ UNCHANGED <<register_to_slot, free_slots, program_counter, instruction,
                   snapshot, target, a_reg, register_state, jump>>

Link ==
    /\ phase = "linked" /\ phase' = "leave"
    /\ IF target # Zero /\ target = instruction.rd
         THEN target' = Zero /\ a_reg' = HostValue(target)
         ELSE UNCHANGED <<target, a_reg>>
    /\ \E v \in Values : WriteBack(instruction, v, v)
    /\ UNCHANGED <<register_to_slot, free_slots, program_counter, instruction,
                   snapshot, register_state, jump>>

\* generate_exit and the unconditional branches.
Leave ==
    /\ phase = "leave" /\ phase' = "exited"
    /\ Flush(TakeSnapshot)
    /\ UNCHANGED <<cache, instruction, snapshot, target, a_reg, host, guest,
                   jump>>

FinishInstruction ==
    /\ phase = "finish" /\ phase' = "fetch"
    /\ \A s \in Slots : ~slots[s].locked
    /\ instruction' = NoInstruction /\ snapshot' = EmptySnapshot
    /\ program_counter' = program_counter + 1
    /\ UNCHANGED <<slots, register_to_slot, free_slots, emitted, guest, jump>>

(***************************************************************************)
(* Between two blocks: the interpreter steps or the embedder sets a        *)
(* register, and the next block is generated with a new cache.             *)
(***************************************************************************)
Interpret ==
    /\ phase = "exited"
    /\ \E r \in Regs, v \in Values :
         /\ register_state' = [register_state EXCEPT ![r] = v]
         /\ guest' = [guest EXCEPT ![r] = v]
    /\ UNCHANGED <<cache, phase, instruction, snapshot, target, a_reg, host,
                   jump>>

NextBlock ==
    /\ phase = "exited" /\ phase' = "fetch"
    /\ NewCache
    /\ instruction' = NoInstruction /\ snapshot' = EmptySnapshot
    /\ target' = Zero /\ a_reg' = ZeroValue /\ jump' = ZeroValue
    /\ UNCHANGED <<host, register_state, guest>>

Next ==
    \/ \E i \in Instructions : Lock(i)
    \/ Check \/ Fault \/ Compute \/ Bring \/ BranchTaken
    \/ BranchNotTaken \/ JumpAndLink \/ Offset \/ Relock \/ Link
    \/ Leave \/ FinishInstruction \/ Interpret \/ NextBlock

Spec == Init /\ [][Next]_vars
-----------------------------------------------------------------------------
Phases == {"fetch", "check", "checked", "execute", "link", "relock", "linked",
           "leave", "finish", "exited"}

TypeOK ==
    /\ slots \in [Slots -> Slot]
    /\ register_to_slot \in [Regs -> Slots \union {NoSlot}]
    /\ free_slots \in SUBSET Slots
    /\ program_counter \in 0 .. MaxInstructions
    /\ phase \in Phases /\ instruction \in Instructions
    /\ snapshot \in [Slots -> Operands]
    /\ target \in Operands /\ a_reg \in Values /\ jump \in Values
    /\ host \in [Slots -> Values]
    /\ register_state \in [Regs -> Values] /\ guest \in [Regs -> Values]

(***************************************************************************)
(* On every way out of a block, from whatever depth and whether it is the  *)
(* path the generator went on from or not, the guest's registers are all   *)
(* in memory: the VM, the interpreter and the next block see the state the *)
(* instruction set defines.                                                *)
(***************************************************************************)
ExitsAreCoherent == phase = "exited" => register_state = guest

(***************************************************************************)
(* Code that uses a register as a source finds the guest's value in its    *)
(* host register, after any evictions, reloads and earlier writes; the     *)
(* target of a jalr survives the write of its link register.               *)
(***************************************************************************)
SourcesAreCurrent ==
    /\ phase \in {"check", "checked", "execute", "link"} =>
          \A r \in {instruction.rs1, instruction.rs2} :
              HostValue(r) = GuestValue(r)
    /\ phase = "leave" /\ instruction.kind = "jalr" =>
          (IF target = Zero THEN a_reg ELSE HostValue(target)) = jump

(***************************************************************************)
(* slots, register_to_slot and free_slots describe one and the same cache: *)
(* no register has two slots, no slot is both free and used.               *)
(***************************************************************************)
OneCache ==
    /\ \A r \in Regs, s \in Slots :
          register_to_slot[r] = s <=> slots[s].reg = r
    /\ free_slots = {s \in Slots : slots[s].reg = Zero}

(***************************************************************************)
(* The verify()s of the cache never fail: an instruction never needs more  *)
(* slots than it can evict, and leaves none locked.                        *)
(***************************************************************************)
VerifiesHold ==
    /\ phase = "fetch" =>
          \A i \in Instructions : ~CannotLock(FirstReads(i), FirstWrites(i))
    /\ phase = "relock" => ~CannotLock({}, {instruction.rd})
    /\ phase \in {"finish", "leave"} => \A s \in Slots : ~slots[s].locked

(***************************************************************************)
(* Code with a register cache executes the guest's instructions: at every  *)
(* step of every block the register file that can be read off the cache (a *)
(* dirty register in its slot, any other in memory; in memory all of them  *)
(* when the block is left) is what GuestRegisters has.  An eviction, a     *)
(* reload, a lock or a flush changes none of the guest's registers, an     *)
(* instruction computes, compares, stores and jumps with the values that   *)
(* its sources had when it began, and changes its destination only.  None  *)
(* of guest and jump is used for it.                                       *)
(***************************************************************************)
Registers ==
    [r \in Regs |->
        IF /\ phase # "exited" /\ register_to_slot[r] # NoSlot
           /\ slots[register_to_slot[r]].dirty
        THEN host[register_to_slot[r]] ELSE register_state[r]]

\* What the emitted code of the instruction reads its operands from.
OperandValues ==
    CASE phase \in {"fetch", "finish"} -> <<>>
      [] /\ instruction.kind = "jalr"
         /\ phase \in {"relock", "linked", "leave", "exited"} ->
            <<IF target = Zero THEN a_reg ELSE HostValue(target), ZeroValue>>
      [] OTHER -> <<HostValue(instruction.rs1), HostValue(instruction.rs2)>>

Progress ==
    CASE phase \in {"fetch", "finish"} -> "next"
      [] phase = "leave" /\ instruction.kind # "stop" -> "leaving"
      [] phase = "exited" -> "left"
      [] OTHER -> "begun"

Executing == IF phase \in {"fetch", "finish"} THEN NoInstruction
             ELSE instruction

Guest == INSTANCE GuestRegisters WITH
    registers <- Registers, instruction <- Executing,
    operands <- OperandValues, at <- Progress
ImplementsGuestRegisters == Guest!Spec
=============================================================================
