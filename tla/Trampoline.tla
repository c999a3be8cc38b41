----------------------------- MODULE Trampoline -----------------------------
(***************************************************************************)
(* The way from the emulator into translated code and back: the code that  *)
(* generate_trampoline writes for each host (src/vm/jit/aarch64 and x64,   *)
(* Trampoline.cpp), run by a host of registers and a stack, and the        *)
(* TrampolineBlock through which Executor::run hands a Vm's state over and *)
(* gets the exit.  Several Vms may share one CodeBuffer.                   *)
(*                                                                         *)
(* The code before the call is one step, and so is the code after it: it   *)
(* has no branches, and only the thread that runs it sees its state.       *)
(*                                                                         *)
(* A register is its number.  A value is a pair: <<"caller", r>> is what   *)
(* the caller has in r, <<"guest", 0>> what translated code leaves behind, *)
(* <<"memory_size", v>> what Vm v has for that field.                      *)
(***************************************************************************)
EXTENDS Integers, Sequences, SequencesExt

CONSTANTS
    Vms,          \* numbers
    MemorySizes,  \* of their memories
    Pcs,          \* of the blocks that are translated
    Reasons       \* why a block is left

ASSUME VmsAssumption == Vms # {} /\ Vms \subseteq Nat /\ MemorySizes # {}

-----------------------------------------------------------------------------
(***************************************************************************)
(* The three hosts: who passes the argument and saves what (Abi.cpp,       *)
(* CreateExecutor.cpp), and what translated code keeps in which register   *)
(* (Registers.hpp).  An x64 host has its return address on the stack; what *)
(* it has to save is its ABI's own list, what it saves is the program's.   *)
(***************************************************************************)
X30 == 30
Cache == <<11, 12, 13, 14, 15, 16, 17, 19, 20, 21, 22, 23, 24, 25, 26, 27, 28>>
ContextA64 == <<<<0, "register_state">>, <<1, "memory_base">>, <<2, "permissions_base">>,
                <<3, "memory_size">>, <<4, "block_base">>, <<5, "max_executable_pc">>,
                <<6, "code_base">>>>
Scratch == <<7, 8, 9, 10>>   \* base_pc, a_reg, b_reg, c_reg
AArch64 == [
    name |-> "aarch64", argument |-> 0, callee_saved |-> 19 .. 28,
    context |-> ContextA64, trampoline_block |-> 8,
    exit_reason |-> 0, exit_pc |-> 1, clobbers |-> (0 .. 17) \union (19 .. 28)]

\* rax, rcx, rdx, rbx, rsp, rbp, rsi, rdi and r8 to r15.
ContextX64 == <<<<6, "register_state">>, <<7, "memory_base">>, <<8, "permissions_base">>,
                <<9, "code_base">>, <<10, "block_base">>>>
X64(name, saved, callee_saved, argument) == [
    name |-> name, argument |-> argument, callee_saved |-> callee_saved,
    saved |-> saved, context |-> ContextX64, trampoline_block |-> 11,
    exit_reason |-> 0, exit_pc |-> 3, clobbers |-> {0, 1, 2, 3, 6, 7, 8, 9, 10, 11}]
SystemV == X64("systemv", <<3, 5, 12, 13, 14, 15>>, {3, 5} \union 12 .. 15, 7)
Windows == X64("windows", <<3, 5, 7, 6, 12, 13, 14, 15>>,
               {3, 5, 6, 7} \union 12 .. 15, 1)
Hosts == {AArch64, SystemV, Windows}
OnX64(h) == h.name # "aarch64"
Registers == (0 .. 30) \ {18, 29}

-----------------------------------------------------------------------------
(***************************************************************************)
(* The code, and what it does to a machine [registers, stack, block].  A   *)
(* block is reached through a pointer, and what is not one leads nowhere.  *)
(***************************************************************************)
Garbage == <<"guest", 0>>
Instruction(op, regs, field) == [op |-> op, regs |-> regs, field |-> field]
Mov(to, from) == Instruction("mov", <<to, from>>, "")
Push(group) == Instruction("push", group, "")
Pop(group) == Instruction("pop", group, "")
Load(r, from, field) == Instruction("load", <<r, from>>, field)
Store(r, to, field) == Instruction("store", <<r, to>>, field)

Values(m, regs) == [i \in DOMAIN regs |-> m.registers[regs[i]]]
Position(regs, r) == CHOOSE n \in DOMAIN regs : regs[n] = r
IsBlock(value) == value[1] = "block"
Step(m, i) ==
    LET first == i.regs[1]
        pointer == m.registers[i.regs[2]]
    IN CASE i.op = "mov" -> [m EXCEPT !.registers[first] = pointer]
         [] i.op = "push" -> [m EXCEPT !.stack = Values(m, i.regs) \o @]
         [] i.op = "pop" ->
              [m EXCEPT !.registers = [r \in DOMAIN @ |->
                           IF r \in ToSet(i.regs) THEN m.stack[Position(i.regs, r)] ELSE @[r]],
                        !.stack = SubSeq(@, Len(i.regs) + 1, Len(@))]
         [] i.op = "load" ->
              [m EXCEPT !.registers[first] =
                           IF IsBlock(pointer) THEN m.block[i.field] ELSE Garbage]
         [] i.op = "store" ->
              [m EXCEPT !.block[i.field] =
                           IF IsBlock(pointer) THEN m.registers[first] ELSE @]
Execute(m, code) ==
    LET after[n \in 0 .. Len(code)] == IF n = 0 THEN m ELSE Step(after[n - 1], code[n])
    IN  after[Len(code)]

\* RegisterSaver::add_always_one: two by two, X30 fills a pair that has one.
AddAlways(pairs, r) ==
    IF \E p \in ToSet(pairs) : r \in ToSet(p) THEN pairs
    ELSE IF pairs # <<>> /\ Last(pairs)[2] = X30
           THEN [pairs EXCEPT ![Len(pairs)][2] = r]
           ELSE Append(pairs, <<r, X30>>)
\* add_one asks first, but for what is always added.
Add(pairs, added) ==
    IF added.always \/ added.register \in AArch64.callee_saved
      THEN AddAlways(pairs, added.register) ELSE pairs

Always(r) == <<[register |-> r, always |-> TRUE]>>
CalleeSaved(regs) == [i \in DOMAIN regs |-> [register |-> regs[i], always |-> FALSE]]
ContextRegisters(h) == [i \in DOMAIN h.context |-> h.context[i][1]]
Added == Always(X30)
    \o CalleeSaved(ContextRegisters(AArch64) \o Scratch
                     \o <<AArch64.exit_reason, AArch64.exit_pc>>)
    \o Always(AArch64.trampoline_block) \o CalleeSaved(Cache)
PairsOf(added) ==
    LET pairs[n \in 0 .. Len(added)] ==
            IF n = 0 THEN <<>> ELSE Add(pairs[n - 1], added[n])
    IN  pairs[Len(added)]
Pairs == PairsOf(Added)
Singles(regs) == [i \in DOMAIN regs |-> <<regs[i]>>]

Saves(groups) == [i \in DOMAIN groups |-> Push(groups[i])]

\* Mutant of Restores: in the order in which they were saved.
RestoresInOrder(groups) == [i \in DOMAIN groups |-> Pop(groups[i])]

Restores(groups) == LET last == Reverse(groups) IN [i \in DOMAIN last |-> Pop(last[i])]

Loads(h) == [i \in DOMAIN h.context |->
                Load(h.context[i][1], h.trampoline_block, h.context[i][2])]

\* Mutant of Stores: the wrong way round.
StoresSwapped(h) == <<Store(h.exit_pc, h.trampoline_block, "exit_reason"),
                      Store(h.exit_reason, h.trampoline_block, "exit_pc")>>

Stores(h) == <<Store(h.exit_reason, h.trampoline_block, "exit_reason"),
               Store(h.exit_pc, h.trampoline_block, "exit_pc")>>

TakeArgument(h) == <<Mov(h.trampoline_block, h.argument)>>

\* An x64 host keeps the block on the stack, twice when that aligns it.
NeedsExtraPush(h) == (Len(h.saved) + 1) % 16 = 0
Kept(h) == [i \in 1 .. (IF NeedsExtraPush(h) THEN 2 ELSE 1) |-> <<h.trampoline_block>>]

Prologue(h) ==
    IF OnX64(h) THEN Saves(Singles(h.saved)) \o TakeArgument(h) \o Loads(h) \o Saves(Kept(h))
    ELSE TakeArgument(h) \o Saves(Pairs) \o Loads(h)
Epilogue(h) ==
    IF OnX64(h) THEN Restores(Kept(h)) \o Stores(h) \o Restores(Singles(h.saved))
    ELSE Restores(Pairs) \o Stores(h)

-----------------------------------------------------------------------------
VARIABLES
    host,           \* one of Hosts
    memory_size,    \* of each Vm
    machine,        \* what Step works on
    place,          \* "outside", "guest", "returned": at the trampoline's ret
    vm, entry,      \* on whose behalf, and which block runs
    baked,          \* the memory size in the x64 code of each block, or 0
    left            \* the exit that the translated code left with

trampoline_vars == <<host, memory_size, machine, place, vm, entry, baked, left>>

Caller(r) == <<"caller", r>>
ReturnAddress == Caller(X30)
ReturnToTrampoline == <<"trampoline", 0>>
NoExit == <<"none", 0>>
Idle == [registers |-> [r \in Registers |-> Caller(r)], stack |-> <<>>, block |-> <<>>]

TrampolineInit ==
    /\ host \in Hosts /\ memory_size \in [Vms -> MemorySizes]
    /\ machine = Idle /\ place = "outside"
    /\ vm = 0 /\ entry = 0
    /\ baked = [p \in Pcs |-> 0] /\ left = <<NoExit, NoExit>>

\* The TrampolineBlock of Executor::run, and the call of the trampoline.
Fields(h) == {h.context[i][2] : i \in DOMAIN h.context}
Block(v) == [f \in Fields(host) \union {"exit_reason", "exit_pc"} |->
                IF f \in Fields(host) THEN <<f, v>> ELSE NoExit]
Called(v) == [
    registers |-> [Idle.registers EXCEPT ![host.argument] = <<"block", v>>],
    stack |-> IF OnX64(host) THEN <<ReturnAddress>> ELSE <<>>,
    block |-> Block(v)]

\* Calling the code through the block's entrypoint.
Branched(m) ==
    IF OnX64(host) THEN [m EXCEPT !.stack = <<ReturnToTrampoline>> \o @]
    ELSE [m EXCEPT !.registers[X30] = ReturnToTrampoline]

\* generate_code is for the Vm that comes first.
Enter(v, p) ==
    /\ place = "outside" /\ place' = "guest"
    /\ vm' = v /\ entry' = p
    /\ baked' = [baked EXCEPT ![p] = IF @ = 0 THEN memory_size[v] ELSE @]
    /\ machine' = Branched(Execute(Called(v), Prologue(host)))
    /\ UNCHANGED <<host, memory_size, left>>

\* Translated code uses every register it is given, and returns with an exit.
Exited(m, exit) == [m EXCEPT
    !.registers = [r \in Registers |->
        CASE r = host.exit_reason -> exit[1]
          [] r = host.exit_pc -> exit[2]
          [] OTHER -> IF r \in host.clobbers THEN Garbage ELSE @[r]],
    !.stack = IF OnX64(host) THEN Tail(@) ELSE @]
Guest(reason, p) ==
    /\ place = "guest" /\ place' = "returned"
    /\ left' = <<<<reason, 0>>, <<"pc", p>>>>
    /\ machine' = Execute(Exited(machine, left'), Epilogue(host))
    /\ UNCHANGED <<host, memory_size, vm, entry, baked>>

Return ==
    /\ place = "returned" /\ place' = "outside"
    /\ machine' = Idle /\ vm' = 0 /\ entry' = 0 /\ left' = <<NoExit, NoExit>>
    /\ UNCHANGED <<host, memory_size, baked>>

TrampolineNext ==
    \/ \E v \in Vms, p \in Pcs : Enter(v, p)
    \/ \E reason \in Reasons, p \in Pcs : Guest(reason, p)
    \/ Return
TrampolineSpec == TrampolineInit /\ [][TrampolineNext]_trampoline_vars
-----------------------------------------------------------------------------
Places == {"outside", "guest", "returned"}
TrampolineTypeOK ==
    /\ host \in Hosts /\ memory_size \in [Vms -> MemorySizes]
    /\ place \in Places /\ vm \in Vms \union {0} /\ entry \in Pcs \union {0}
    /\ baked \in [Pcs -> MemorySizes \union {0}]
    /\ DOMAIN machine.registers = Registers

(***************************************************************************)
(* The caller of a trampoline gets back what the host's ABI promises: the  *)
(* callee-saved registers, its return address and its stack, whatever      *)
(* translated code did to the registers.  "Keep the stack 16 byte          *)
(* aligned": it is, at the call; on x64 with a word for the return         *)
(* address.                                                                *)
(***************************************************************************)
AbiIsKept ==
    /\ place = "returned" =>
         /\ \A r \in host.callee_saved : machine.registers[r] = Caller(r)
         /\ IF OnX64(host) THEN machine.stack = <<ReturnAddress>>
            ELSE machine.stack = <<>> /\ machine.registers[X30] = ReturnAddress
    /\ place = "guest" =>
         Len(machine.stack) % 2 = (IF OnX64(host) THEN 1 ELSE 0)

(***************************************************************************)
(* Translated code runs with the context of the Vm that has called, and    *)
(* this Vm's Executor gets the exit it left with.  What an access is       *)
(* compared with is the size of the caller's own memory; except on x64,    *)
(* where it is part of the code: Vms that share a CodeBuffer need memories *)
(* of one size.                                                            *)
(***************************************************************************)
OfOneSize == \A v, w \in Vms : memory_size[v] = memory_size[w]
Bound == IF OnX64(host) THEN baked[entry] ELSE memory_size[machine.registers[3][2]]
GuestRunsForItsCaller ==
    /\ place = "guest" =>
         /\ \A i \in DOMAIN host.context :
               machine.registers[host.context[i][1]] = <<host.context[i][2], vm>>
         /\ (OnX64(host) => OfOneSize) => Bound = memory_size[vm]
    /\ place = "returned" =>
         machine.block["exit_reason"] = left[1] /\ machine.block["exit_pc"] = left[2]
=============================================================================
