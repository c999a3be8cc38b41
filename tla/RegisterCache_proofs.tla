------------------------ MODULE RegisterCache_proofs ------------------------
(***************************************************************************)
(* Theorems about RegisterCache for any registers, any number of slots and *)
(* any operation.  The inductive invariant says of every guest register    *)
(* where its value is: in memory when it is not cached or the slot is      *)
(* clean, in its host register when the slot is dirty, and in its host     *)
(* register always but while it is only about to be written.               *)
(***************************************************************************)
EXTENDS RegisterCache, TLAPS, FiniteSetTheorems

\* rd holds a slot that its instruction has yet to fill.
Pending(r) ==
    phase \in {"check", "checked", "execute", "linked"} /\ r = instruction.rd

Cached(r) == register_to_slot[r] # NoSlot

\* Where the value of r is.
CoherentAt(r) ==
    /\ ~Cached(r) => register_state[r] = guest[r]
    /\ Cached(r) =>
        /\ slots[register_to_slot[r]].dirty
              => host[register_to_slot[r]] = guest[r]
        /\ ~slots[register_to_slot[r]].dirty
              => register_state[r] = guest[r]
        /\ ~Pending(r) => host[register_to_slot[r]] = guest[r]

CoherentInv == phase # "exited" => \A r \in Regs : CoherentAt(r)

\* Sources are locked and current; a destination has a slot.
OperandInv ==
    /\ phase \in {"check", "checked", "execute", "link"} =>
         \A r \in {instruction.rs1, instruction.rs2} \ {Zero} :
            /\ Cached(r) /\ slots[register_to_slot[r]].locked
            /\ host[register_to_slot[r]] = guest[r]
    /\ phase \in {"check", "checked", "execute", "linked"} =>
         (instruction.rd # Zero => Cached(instruction.rd))

\* The target of a jalr, in place or in the scratch register.
JumpInv ==
    phase \in {"relock", "linked", "leave"} /\ instruction.kind = "jalr" =>
        /\ target = Zero => a_reg = jump
        /\ target # Zero =>
              /\ Cached(target) /\ host[register_to_slot[target]] = jump
              /\ phase # "leave" => slots[register_to_slot[target]].locked

PhaseInv ==
    /\ phase = "checked" => snapshot = TakeSnapshot
    /\ phase \in {"check", "checked"} => instruction.kind \in {"load", "store"}
    /\ phase \in {"link", "relock", "linked"} => instruction.kind = "jalr"
    /\ phase \notin {"fetch", "leave", "exited"} =>
          program_counter < MaxInstructions

IInv == /\ TypeOK /\ OneCache /\ CoherentInv /\ OperandInv /\ JumpInv
        /\ PhaseInv /\ ExitsAreCoherent
-----------------------------------------------------------------------------
\* The register of an occupied slot is found again by PlacedIn.
LEMMA PlacedInUnique ==
    ASSUME NEW into, NEW r \in DOMAIN into,
           \A p, q \in DOMAIN into : into[p] = into[q] => p = q
    PROVE  PlacedIn(into, into[r]) = r
BY DEF PlacedIn

\* What lock_registers does to one register.
Effect(reads, registers, victims, into, r) ==
    /\ r \in registers /\ ~Cached(r) =>
         /\ register_to_slot'[r] = into[r]
         /\ into[r] \in Slots
         /\ slots'[into[r]].reg = r
         /\ slots'[into[r]].locked /\ ~slots'[into[r]].dirty
         /\ register_state'[r] = register_state[r]
         /\ r \in reads => host'[into[r]] = register_state[r]
    /\ r \notin registers /\ ~Cached(r) =>
         /\ register_to_slot'[r] = NoSlot
         /\ register_state'[r] = register_state[r]
    /\ Cached(r) /\ register_to_slot[r] \in victims =>
         /\ register_to_slot'[r] = NoSlot
         /\ r \notin registers /\ ~slots[register_to_slot[r]].locked
         /\ register_state'[r] =
              IF slots[register_to_slot[r]].dirty
              THEN host[register_to_slot[r]] ELSE register_state[r]
    /\ Cached(r) /\ register_to_slot[r] \notin victims =>
         /\ register_to_slot'[r] = register_to_slot[r]
         /\ slots'[register_to_slot[r]].reg = r
         /\ slots'[register_to_slot[r]].dirty
              = slots[register_to_slot[r]].dirty
         /\ slots'[register_to_slot[r]].locked
              = (r \in registers \/ slots[register_to_slot[r]].locked)
         /\ host'[register_to_slot[r]] = host[register_to_slot[r]]
         /\ register_state'[r] = register_state[r]

LEMMA ReplaceEffect ==
    ASSUME TypeOK, OneCache,
           NEW reads, NEW registers \in SUBSET Regs,
           NEW victims \in SUBSET Evictable(registers),
           NEW into \in [Missing(registers) -> Slots],
           Placement(into, free_slots \union victims),
           Replace(reads, registers, victims, into),
           NEW r \in Regs
    PROVE  Effect(reads, registers, victims, into, r)
<1> USE RegsAssumption DEF Effect
<1>1. /\ DOMAIN into = Missing(registers)
      /\ \A p, q \in DOMAIN into : into[p] = into[q] => p = q
      /\ \A p \in DOMAIN into : into[p] \in free_slots \union victims
      /\ \A p \in DOMAIN into : into[p] \in Slots
  BY DEF Placement
<1>2. victims \subseteq Slots
  BY DEF Evictable
<1>3. CASE r \in registers /\ ~Cached(r)
  <2>1. r \in DOMAIN into /\ into[r] \in Slots /\ PlacedIn(into, into[r]) = r
    BY <1>1, <1>3, PlacedInUnique DEF Missing, Cached
  <2>2. register_to_slot'[r] = into[r]
    BY <2>1 DEF Replace
  <2>3. slots'[into[r]] = [reg |-> r, locked |-> TRUE, dirty |-> FALSE,
                           last_use |-> program_counter]
    BY <2>1 DEF Replace
  <2>4. register_state'[r] = register_state[r]
    BY <1>2, <1>3 DEF Replace, Cached
  <2>5. r \in reads => host'[into[r]] = register_state[r]
    BY <2>1 DEF Replace
  <2> QED BY <1>3, <2>1, <2>2, <2>3, <2>4, <2>5
<1>4. CASE r \notin registers /\ ~Cached(r)
  <2>1. r \notin DOMAIN into /\ register_to_slot[r] \notin victims
    BY <1>1, <1>2, <1>4 DEF Missing, Cached
  <2> QED BY <1>4, <2>1 DEF Replace, Cached
<1>5. CASE Cached(r) /\ register_to_slot[r] \in victims
  <2>1. r \notin DOMAIN into
    BY <1>1, <1>5 DEF Missing, Cached
  <2>2. slots[register_to_slot[r]].reg = r
    BY <1>5, <1>2 DEF OneCache
  <2>3. r \notin registers /\ ~slots[register_to_slot[r]].locked
    BY <1>5, <2>2 DEF Evictable
  <2> QED BY <1>5, <2>1, <2>3 DEF Replace
<1>6. CASE Cached(r) /\ register_to_slot[r] \notin victims
  <2> DEFINE s == register_to_slot[r]
  <2>1. s \in Slots /\ r \notin DOMAIN into
    BY <1>1, <1>6 DEF Missing, Cached, TypeOK
  <2>2. slots[s].reg = r /\ s \notin free_slots
    BY <2>1 DEF OneCache
  <2>3. \A p \in DOMAIN into : into[p] # s
    BY <1>1, <1>6, <2>2
  <2>4. /\ register_to_slot'[r] = s /\ host'[s] = host[s]
        /\ register_state'[r] = register_state[r]
    BY <1>6, <2>1, <2>3 DEF Replace
  <2>5. slots'[s] = IF r \in registers
                    THEN [slots[s] EXCEPT !.locked = TRUE,
                                          !.last_use = program_counter]
                    ELSE slots[s]
    BY <1>6, <2>1, <2>2, <2>3 DEF Replace
  <2>6. slots[s] \in Slot
    BY <2>1 DEF TypeOK
  <2> QED BY <1>6, <2>1, <2>2, <2>4, <2>5, <2>6 DEF Slot
<1> QED BY <1>3, <1>4, <1>5, <1>6

\* It leaves one cache, and keeps every type.
LEMMA ReplaceKeeps ==
    ASSUME TypeOK, OneCache,
           NEW reads, NEW registers \in SUBSET Regs,
           NEW victims \in SUBSET Evictable(registers),
           NEW into \in [Missing(registers) -> Slots],
           Placement(into, free_slots \union victims),
           Replace(reads, registers, victims, into)
    PROVE  /\ OneCache'
           /\ slots' \in [Slots -> Slot]
           /\ register_to_slot' \in [Regs -> Slots \union {NoSlot}]
           /\ free_slots' \in SUBSET Slots
           /\ host' \in [Slots -> Values]
           /\ register_state' \in [Regs -> Values]
<1> USE RegsAssumption
<1>1. /\ DOMAIN into = Missing(registers) /\ Missing(registers) \subseteq Regs
      /\ \A p, q \in DOMAIN into : into[p] = into[q] => p = q
      /\ \A p \in DOMAIN into : into[p] \in free_slots \union victims
      /\ \A p \in DOMAIN into : into[p] \in Slots
      /\ \A p \in DOMAIN into : PlacedIn(into, into[p]) = p
  BY PlacedInUnique DEF Placement, Missing
<1>2. victims \subseteq Slots
  BY DEF Evictable
<1>3. /\ slots' = [s \in Slots |->
          IF \E r \in DOMAIN into : into[r] = s
          THEN [reg |-> PlacedIn(into, s), locked |-> TRUE, dirty |-> FALSE,
                last_use |-> program_counter]
          ELSE IF s \in victims THEN EmptySlot
          ELSE IF slots[s].reg \in registers
          THEN [slots[s] EXCEPT !.locked = TRUE, !.last_use = program_counter]
          ELSE slots[s]]
  BY DEF Replace
<1>4. slots' \in [Slots -> Slot]
  <2> SUFFICES ASSUME NEW s \in Slots PROVE slots'[s] \in Slot
    BY <1>3
  <2>1. slots[s] \in Slot /\ program_counter \in 0 .. MaxInstructions
    BY DEF TypeOK
  <2>2. EmptySlot \in Slot
    BY LengthAssumption DEF EmptySlot, Slot
  <2>3. CASE \E r \in DOMAIN into : into[r] = s
    BY <1>1, <1>3, <2>1, <2>3, ZenonT(40) DEF Slot
  <2>4. CASE ~\E r \in DOMAIN into : into[r] = s
    BY <1>3, <2>1, <2>2, <2>4 DEF Slot
  <2> QED BY <2>3, <2>4
<1>5. register_to_slot' \in [Regs -> Slots \union {NoSlot}]
  BY <1>1 DEF Replace, TypeOK
<1>6. free_slots' \in SUBSET Slots
  BY <1>2 DEF Replace, TypeOK
<1>7. register_state' \in [Regs -> Values]
  BY <1>2 DEF Replace, TypeOK
<1>8. host' \in [Slots -> Values]
  BY <1>1 DEF Replace, TypeOK
<1>9. ASSUME NEW r \in Regs, NEW s \in Slots
      PROVE  register_to_slot'[r] = s <=> slots'[s].reg = r
  <2>1. CASE \E p \in DOMAIN into : into[p] = s
    <3>1. PICK p \in DOMAIN into : into[p] = s
      BY <2>1
    <3>2. slots'[s].reg = p /\ p \in Regs
      BY <1>1, <1>3, <3>1
    <3>3. CASE r = p
      BY <3>1, <3>2, <3>3 DEF Replace
    <3>4. CASE r # p /\ r \in DOMAIN into
      BY <1>1, <3>1, <3>2, <3>4 DEF Replace
    <3>5. CASE r # p /\ r \notin DOMAIN into
      <4>1. register_to_slot[r] = s => s \in victims
        BY <1>1, <3>1 DEF OneCache
      <4> QED BY <3>2, <3>5, <4>1 DEF Replace
    <3> QED BY <3>3, <3>4, <3>5
  <2>2. CASE (~\E p \in DOMAIN into : into[p] = s) /\ s \in victims
    <3>1. slots'[s].reg = Zero
      BY <1>3, <2>2 DEF EmptySlot
    <3> QED BY <2>2, <3>1 DEF Replace
  <2>3. CASE (~\E p \in DOMAIN into : into[p] = s) /\ s \notin victims
    <3>1. slots'[s].reg = slots[s].reg
      BY <1>3, <2>3 DEF TypeOK, Slot
    <3>2. register_to_slot[r] = s <=> slots[s].reg = r
      BY DEF OneCache
    <3>3. r \in DOMAIN into => register_to_slot[r] = NoSlot
      BY <1>1 DEF Missing
    <3>4. CASE r \in DOMAIN into
      BY <2>3, <3>1, <3>2, <3>3, <3>4 DEF Replace
    <3>5. CASE r \notin DOMAIN into
      BY <2>3, <3>1, <3>2, <3>5 DEF Replace
    <3> QED BY <3>4, <3>5
  <2> QED BY <2>1, <2>2, <2>3
<1>10. ASSUME NEW s \in Slots
       PROVE  s \in free_slots' <=> slots'[s].reg = Zero
  <2>1. s \in free_slots <=> slots[s].reg = Zero
    BY DEF OneCache
  <2>2. CASE \E p \in DOMAIN into : into[p] = s
    <3>1. PICK p \in DOMAIN into : into[p] = s
      BY <2>2
    <3>2. slots'[s].reg = p /\ p \in Regs
      BY <1>1, <1>3, <3>1
    <3>3. s \notin free_slots'
      BY <3>1 DEF Replace
    <3> QED BY <3>2, <3>3
  <2>3. CASE (~\E p \in DOMAIN into : into[p] = s) /\ s \in victims
    <3>1. slots'[s].reg = Zero
      BY <1>3, <2>3 DEF EmptySlot
    <3>2. s \in free_slots'
      BY <2>3 DEF Replace
    <3> QED BY <3>1, <3>2
  <2>4. CASE (~\E p \in DOMAIN into : into[p] = s) /\ s \notin victims
    <3>1. slots'[s].reg = slots[s].reg
      BY <1>3, <2>4 DEF TypeOK, Slot
    <3> QED BY <2>1, <2>4, <3>1 DEF Replace
  <2> QED BY <2>2, <2>3, <2>4
<1>11. OneCache'
  <2>1. free_slots' = {s \in Slots : slots'[s].reg = Zero}
    BY <1>6, <1>10
  <2> QED BY <1>9, <2>1 DEF OneCache
<1> QED BY <1>4, <1>5, <1>6, <1>7, <1>8, <1>11

\* The values it leaves: those of a cache in which no register is pending,
\* but for the registers that are only going to be written.
LEMMA LockEffect ==
    ASSUME TypeOK, OneCache,
           \A q \in Regs : CoherentAt(q) /\ ~Pending(q),
           NEW reads, NEW writes,
           (reads \union writes) \ {Zero} \subseteq Regs,
           LockRegisters(reads, writes), guest' = guest,
           NEW r \in Regs
    PROVE  /\ ~Cached(r)' => register_state'[r] = guest[r]
           /\ Cached(r)' =>
                /\ slots'[register_to_slot'[r]].dirty
                      => host'[register_to_slot'[r]] = guest[r]
                /\ ~slots'[register_to_slot'[r]].dirty
                      => register_state'[r] = guest[r]
                /\ (r \notin writes \/ r \in reads)
                      => host'[register_to_slot'[r]] = guest[r]
           /\ r \in reads \union writes =>
                Cached(r)' /\ slots'[register_to_slot'[r]].locked
           /\ Cached(r) /\ slots[register_to_slot[r]].locked =>
                /\ Cached(r)' /\ slots'[register_to_slot'[r]].locked
                /\ host'[register_to_slot'[r]] = host[register_to_slot[r]]
<1> DEFINE registers == (reads \union writes) \ {Zero}
<1> USE RegsAssumption
<1>1. PICK victims \in SUBSET Evictable(registers),
           into \in [Missing(registers) -> Slots] :
        /\ Placement(into, free_slots \union victims)
        /\ Replace(reads, registers, victims, into)
  BY DEF LockRegisters
<1>2. r # Zero /\ NoSlot \notin Slots /\ (r \in registers <=> r \in reads \union writes)
  OBVIOUS
<1>3. CoherentAt(r) /\ (Cached(r) => host[register_to_slot[r]] = guest[r])
  BY DEF CoherentAt
<1>4. Cached(r) => register_to_slot[r] \in Slots
  BY DEF Cached, TypeOK
<1>e. Effect(reads, registers, victims, into, r)
  BY <1>1, ReplaceEffect
<1> HIDE DEF registers
<1>5. CASE ~Cached(r) /\ r \in registers
  BY <1>e, <1>2, <1>3, <1>5 DEF Effect, CoherentAt, Cached
<1>6. CASE ~Cached(r) /\ r \notin registers
  BY <1>e, <1>2, <1>3, <1>6 DEF Effect, CoherentAt, Cached
<1>7. CASE Cached(r) /\ register_to_slot[r] \in victims
  BY <1>e, <1>2, <1>3, <1>7 DEF Effect, CoherentAt, Cached
<1>8. CASE Cached(r) /\ register_to_slot[r] \notin victims
  BY <1>e, <1>2, <1>3, <1>4, <1>8 DEF Effect, CoherentAt, Cached
<1> QED BY <1>5, <1>6, <1>7, <1>8

LEMMA LockTypes ==
    ASSUME TypeOK, OneCache, NEW reads, NEW writes,
           (reads \union writes) \ {Zero} \subseteq Regs,
           LockRegisters(reads, writes)
    PROVE  /\ OneCache'
           /\ slots' \in [Slots -> Slot]
           /\ register_to_slot' \in [Regs -> Slots \union {NoSlot}]
           /\ free_slots' \in SUBSET Slots
           /\ host' \in [Slots -> Values]
           /\ register_state' \in [Regs -> Values]
<1> DEFINE registers == (reads \union writes) \ {Zero}
<1>1. PICK victims \in SUBSET Evictable(registers),
           into \in [Missing(registers) -> Slots] :
        /\ Placement(into, free_slots \union victims)
        /\ Replace(reads, registers, victims, into)
  BY DEF LockRegisters
<1> QED BY <1>1, ReplaceKeeps

LEMMA InstructionParts ==
    ASSUME NEW i \in Instructions
    PROVE  i.rs1 \in Operands /\ i.rs2 \in Operands /\ i.rd \in Operands
BY DEF Instructions, Operands

LEMMA LockKeeps ==
    ASSUME IInv, NEW i \in Instructions, Lock(i)
    PROVE  IInv'
<1> USE RegsAssumption DEF IInv
<1>1. /\ i.rs1 \in Operands /\ i.rs2 \in Operands /\ i.rd \in Operands
      /\ (FirstReads(i) \union FirstWrites(i)) \ {Zero} \subseteq Regs
  BY InstructionParts DEF Operands, FirstReads, FirstWrites
<1>2. /\ phase = "fetch" /\ guest' = guest /\ instruction' = i
      /\ LockRegisters(FirstReads(i), FirstWrites(i))
      /\ UNCHANGED <<program_counter, snapshot, target, a_reg, guest, jump>>
  BY DEF Lock
<1>3. phase' \in {"check", "link", "leave", "execute"}
      /\ (phase' = "check" => i.kind \in {"load", "store"})
      /\ (phase' = "link" <=> i.kind = "jalr")
      /\ (phase' # "leave" => program_counter < MaxInstructions)
      /\ (phase' = "leave" <=> i.kind = "stop")
  BY DEF Lock, Instructions
<1>4. \A q \in Regs : CoherentAt(q) /\ ~Pending(q)
  BY <1>2 DEF CoherentInv, Pending
<1>5. TypeOK'
  BY <1>1, <1>2, <1>3, LockTypes DEF TypeOK, Phases
<1>6. OneCache'
  BY <1>1, <1>2, LockTypes
<1>7. \A r \in Regs : CoherentAt(r)'
  <2> SUFFICES ASSUME NEW r \in Regs PROVE CoherentAt(r)'
    OBVIOUS
  <2>1. ~Pending(r)' => r \notin FirstWrites(i) \/ r \in FirstReads(i)
    <3>1. CASE phase' = "leave"
      <4>1. i.rd = Zero
        BY <1>3, <3>1 DEF Instructions
      <4> QED BY <4>1 DEF FirstWrites
    <3>2. CASE phase' # "leave"
      BY <1>2, <1>3, <3>2 DEF Pending, FirstWrites
    <3> QED BY <3>1, <3>2
  <2> QED BY <1>1, <1>2, <1>4, <2>1, LockEffect DEF CoherentAt
<1>8. CoherentInv'
  BY <1>7 DEF CoherentInv
<1>9. OperandInv'
  <2>1. \A r \in {i.rs1, i.rs2} \ {Zero} :
          /\ Cached(r)' /\ slots'[register_to_slot'[r]].locked
          /\ host'[register_to_slot'[r]] = guest[r]
    BY <1>1, <1>2, <1>4, LockEffect DEF FirstReads, Operands
  <2>2. (i.kind # "jalr" /\ i.rd # Zero) => Cached(i.rd)'
    BY <1>1, <1>2, <1>4, LockEffect DEF FirstWrites, Operands
  <2>3. phase' \in {"check", "execute"} => i.kind # "jalr"
    BY <1>3
  <2> QED BY <1>2, <1>3, <2>1, <2>2, <2>3 DEF OperandInv, Cached
<1>10. JumpInv' /\ PhaseInv' /\ ExitsAreCoherent'
  BY <1>2, <1>3 DEF JumpInv, PhaseInv, ExitsAreCoherent
<1> QED BY <1>5, <1>6, <1>8, <1>9, <1>10

-----------------------------------------------------------------------------
\* A flush of a coherent cache makes memory the guest's registers.
LEMMA FlushEffect ==
    ASSUME TypeOK, OneCache, \A q \in Regs : CoherentAt(q),
           Flush(TakeSnapshot)
    PROVE  register_state' = guest
<1> USE RegsAssumption
<1>1. ASSUME NEW r \in Regs
      PROVE  register_state'[r] = guest[r]
  <2> DEFINE s == register_to_slot[r]
  <2>1. \A q \in Slots : TakeSnapshot[q] = r <=> (slots[q].dirty /\ q = s)
    BY DEF TakeSnapshot, OneCache
  <2>2. register_state'[r] = IF \E q \in Slots : TakeSnapshot[q] = r
                             THEN host[CHOOSE q \in Slots : TakeSnapshot[q] = r]
                             ELSE register_state[r]
    BY DEF Flush
  <2>3. CASE s \in Slots /\ slots[s].dirty
    <3>1. (CHOOSE q \in Slots : TakeSnapshot[q] = r) = s
      BY <2>1, <2>3
    <3>2. Cached(r)
      BY <2>3 DEF Cached
    <3> QED BY <2>1, <2>2, <2>3, <3>1, <3>2 DEF CoherentAt
  <2>4. CASE ~(s \in Slots /\ slots[s].dirty)
    <3>1. register_state'[r] = register_state[r]
      BY <2>1, <2>2, <2>4
    <3>2. Cached(r) => s \in Slots
      BY DEF Cached, TypeOK
    <3> QED BY <2>4, <3>1, <3>2 DEF CoherentAt
  <2> QED BY <2>3, <2>4
<1>2. register_state' = [r \in Regs |-> register_state'[r]]
  BY DEF Flush
<1>3. guest = [r \in Regs |-> guest[r]]
  BY DEF TypeOK
<1> QED BY <1>1, <1>2, <1>3

\* Writing a destination that has a slot makes it current and dirty.
LEMMA WriteBackEffect ==
    ASSUME TypeOK, OneCache, NEW i \in Instructions, NEW v \in Values,
           \A q \in Regs : CoherentAt(q) /\ (Pending(q) => q = i.rd),
           i.rd # Zero => Cached(i.rd),
           WriteBack(i, v, v),
           UNCHANGED <<register_to_slot, free_slots, register_state>>
    PROVE  /\ OneCache'
           /\ slots' \in [Slots -> Slot]
           /\ host' \in [Slots -> Values] /\ guest' \in [Regs -> Values]
           /\ \A r \in Regs :
                /\ ~Cached(r) => register_state[r] = guest'[r]
                /\ Cached(r) =>
                     /\ host'[register_to_slot[r]] = guest'[r]
                     /\ ~slots'[register_to_slot[r]].dirty
                           => register_state[r] = guest'[r]
<1> USE RegsAssumption
<1>1. /\ host' = IF i.rd = Zero THEN host
                 ELSE [host EXCEPT ![register_to_slot[i.rd]] = v]
      /\ guest' = IF i.rd = Zero THEN guest ELSE [guest EXCEPT ![i.rd] = v]
      /\ slots' = Unlocked({i.rs1, i.rs2, i.rd}, {i.rd})
  BY DEF WriteBack
<1>2. i.rd = Zero \/ i.rd \in Regs
  BY InstructionParts DEF Operands
<1>3. host' \in [Slots -> Values] /\ guest' \in [Regs -> Values]
  BY <1>1, <1>2 DEF TypeOK
<1>4. \A s \in Slots :
        /\ slots'[s] \in Slot /\ slots'[s].reg = slots[s].reg
        /\ slots'[s].dirty <=>
             (slots[s].dirty \/ (i.rd # Zero /\ slots[s].reg = i.rd))
  <2> SUFFICES ASSUME NEW s \in Slots
               PROVE  /\ slots'[s] \in Slot /\ slots'[s].reg = slots[s].reg
                      /\ slots'[s].dirty <=>
                          (slots[s].dirty
                             \/ (i.rd # Zero /\ slots[s].reg = i.rd))
    OBVIOUS
  <2>1. slots[s] \in Slot
    BY DEF TypeOK
  <2>2. slots'[s] =
          IF slots[s].reg \in {i.rs1, i.rs2, i.rd} \ {Zero}
          THEN [slots[s] EXCEPT !.locked = FALSE,
                                !.dirty = @ \/ slots[s].reg \in {i.rd}]
          ELSE slots[s]
    BY <1>1 DEF Unlocked
  <2> QED BY <2>1, <2>2 DEF Slot
<1>5. slots' \in [Slots -> Slot]
  BY <1>1, <1>4 DEF Unlocked
<1>6. OneCache'
  BY <1>4 DEF OneCache
<1>7. ASSUME NEW r \in Regs
      PROVE  /\ ~Cached(r) => register_state[r] = guest'[r]
             /\ Cached(r) =>
                  /\ host'[register_to_slot[r]] = guest'[r]
                  /\ ~slots'[register_to_slot[r]].dirty
                        => register_state[r] = guest'[r]
  <2>1. Cached(r) => /\ register_to_slot[r] \in Slots
                     /\ slots[register_to_slot[r]].reg = r
    BY DEF Cached, TypeOK, OneCache
  <2>2. CASE r = i.rd
    <3>1. Cached(r) /\ host'[register_to_slot[r]] = v /\ guest'[r] = v
      BY <1>1, <1>2, <2>1, <2>2 DEF TypeOK
    <3> QED BY <3>1, <2>1, <2>2, <1>4
  <2>3. CASE r # i.rd
    <3>1. guest'[r] = guest[r] /\ CoherentAt(r) /\ ~Pending(r)
      BY <1>1, <2>3 DEF TypeOK
    <3>2. Cached(r) => host'[register_to_slot[r]] = host[register_to_slot[r]]
      <4>1. Cached(r) /\ i.rd # Zero =>
              register_to_slot[r] # register_to_slot[i.rd]
        BY <1>2, <2>1, <2>3 DEF OneCache
      <4> QED BY <1>1, <2>1, <4>1 DEF TypeOK
    <3>3. Cached(r) /\ ~slots'[register_to_slot[r]].dirty
            => ~slots[register_to_slot[r]].dirty
      BY <2>1, <1>4
    <3> QED BY <3>1, <3>2, <3>3 DEF CoherentAt
  <2> QED BY <2>2, <2>3
<1> QED BY <1>3, <1>5, <1>6, <1>7

\* The steps that leave the block: everything is in memory.
LEMMA ExitKeeps ==
    ASSUME IInv, Fault \/ BranchTaken \/ Leave
    PROVE  IInv'
<1> USE DEF IInv
<1>1. /\ phase \in {"checked", "execute", "leave"} /\ phase' = "exited"
      /\ Flush(TakeSnapshot)
      /\ UNCHANGED <<cache, instruction, snapshot, target, a_reg, host, guest,
                     jump>>
  BY DEF Fault, BranchTaken, Leave, PhaseInv
<1>2. register_state' = guest
  BY <1>1, FlushEffect DEF CoherentInv
<1>3. TypeOK'
  BY <1>1, <1>2 DEF TypeOK, Phases, cache
<1> QED BY <1>1, <1>2, <1>3 DEF OneCache, CoherentInv, OperandInv, JumpInv,
           PhaseInv, ExitsAreCoherent, cache

LEMMA CheckKeeps ==
    ASSUME IInv, Check
    PROVE  IInv'
<1> USE DEF IInv, Check, cache, emitted
<1>1. \A s \in Slots : TakeSnapshot[s] \in Operands
  BY DEF TakeSnapshot, TypeOK, Slot, Operands
<1>2. TypeOK'
  BY <1>1 DEF TypeOK, Phases, TakeSnapshot
<1>3. OneCache' BY DEF OneCache
<1>4. CoherentInv' BY DEF CoherentInv, CoherentAt, Pending, Cached
<1>5. OperandInv' BY DEF OperandInv, Cached
<1>6. JumpInv' /\ PhaseInv' /\ ExitsAreCoherent'
  BY DEF JumpInv, PhaseInv, ExitsAreCoherent, TakeSnapshot
<1> QED BY <1>2, <1>3, <1>4, <1>5, <1>6

\* The steps that write a destination and go on with the block.
LEMMA CompleteKeeps ==
    ASSUME IInv, NEW v \in Values,
           phase \in {"execute", "checked"},
           WriteBack(instruction, v, v), Complete(instruction)
    PROVE  IInv'
<1> USE DEF IInv
<1>1. /\ phase' = "finish"
      /\ UNCHANGED <<register_to_slot, free_slots, program_counter,
                     instruction, snapshot, target, a_reg, register_state,
                     jump>>
  BY DEF Complete
<1>2. /\ instruction \in Instructions
      /\ \A q \in Regs : CoherentAt(q) /\ (Pending(q) => q = instruction.rd)
      /\ instruction.rd # Zero => Cached(instruction.rd)
  BY DEF CoherentInv, Pending, OperandInv, TypeOK
<1>3. /\ OneCache'
      /\ slots' \in [Slots -> Slot]
      /\ host' \in [Slots -> Values] /\ guest' \in [Regs -> Values]
      /\ \A r \in Regs :
           /\ ~Cached(r) => register_state[r] = guest'[r]
           /\ Cached(r) =>
                /\ host'[register_to_slot[r]] = guest'[r]
                /\ ~slots'[register_to_slot[r]].dirty
                      => register_state[r] = guest'[r]
  BY <1>1, <1>2, WriteBackEffect
<1>4. TypeOK'
  BY <1>1, <1>3 DEF TypeOK, Phases
<1>5. CoherentInv'
  BY <1>1, <1>3 DEF CoherentInv, CoherentAt, Cached
<1>6. OperandInv' /\ JumpInv' /\ ExitsAreCoherent'
  BY <1>1 DEF OperandInv, JumpInv, ExitsAreCoherent
<1>7. PhaseInv'
  BY <1>1 DEF PhaseInv
<1> QED BY <1>3, <1>4, <1>5, <1>6, <1>7

LEMMA ComputeKeeps ==
    ASSUME IInv, Compute \/ Bring \/ BranchNotTaken
    PROVE  IInv'
<1>1. CASE Compute
  <2> DEFINE v == Op[GuestValue(instruction.rs1), GuestValue(instruction.rs2)]
  <2>1. /\ instruction.rs1 \in Operands /\ instruction.rs2 \in Operands
    BY InstructionParts DEF IInv, TypeOK
  <2>2. /\ HostValue(instruction.rs1) = GuestValue(instruction.rs1)
        /\ HostValue(instruction.rs2) = GuestValue(instruction.rs2)
    BY <1>1 DEF Compute, IInv, OperandInv, HostValue, GuestValue
  <2>3. /\ GuestValue(instruction.rs1) \in Values
        /\ GuestValue(instruction.rs2) \in Values
    BY <2>1, ValuesAssumption DEF GuestValue, Operands, IInv, TypeOK
  <2>4. v \in Values
    BY <2>3, ValuesAssumption
  <2>5. WriteBack(instruction, v, v) /\ Complete(instruction)
    BY <1>1, <2>2 DEF Compute
  <2> HIDE DEF v
  <2> QED BY <1>1, <2>4, <2>5, CompleteKeeps DEF Compute
<1>2. CASE Bring
  BY <1>2, CompleteKeeps DEF Bring
<1>3. CASE BranchNotTaken
  BY <1>3, CompleteKeeps, ValuesAssumption DEF BranchNotTaken
<1> QED BY <1>1, <1>2, <1>3

LEMMA JumpAndLinkKeeps ==
    ASSUME IInv, JumpAndLink
    PROVE  IInv'
<1> USE DEF IInv
<1>1. PICK v \in Values : WriteBack(instruction, v, v)
  BY DEF JumpAndLink
<1>2. /\ phase = "execute" /\ instruction.kind = "jal" /\ phase' = "leave"
      /\ UNCHANGED <<register_to_slot, free_slots, program_counter,
                     instruction, snapshot, target, a_reg, register_state,
                     jump>>
  BY DEF JumpAndLink
<1>3. /\ instruction \in Instructions
      /\ \A q \in Regs : CoherentAt(q) /\ (Pending(q) => q = instruction.rd)
      /\ instruction.rd # Zero => Cached(instruction.rd)
  BY <1>2 DEF CoherentInv, Pending, OperandInv, TypeOK
<1>4. /\ OneCache'
      /\ slots' \in [Slots -> Slot]
      /\ host' \in [Slots -> Values] /\ guest' \in [Regs -> Values]
      /\ \A r \in Regs :
           /\ ~Cached(r) => register_state[r] = guest'[r]
           /\ Cached(r) =>
                /\ host'[register_to_slot[r]] = guest'[r]
                /\ ~slots'[register_to_slot[r]].dirty
                      => register_state[r] = guest'[r]
  BY <1>1, <1>2, <1>3, WriteBackEffect
<1>5. TypeOK'
  BY <1>2, <1>4 DEF TypeOK, Phases
<1>6. CoherentInv'
  BY <1>2, <1>4 DEF CoherentInv, CoherentAt, Cached
<1>7. OperandInv' /\ JumpInv' /\ ExitsAreCoherent' /\ PhaseInv'
  BY <1>2 DEF OperandInv, JumpInv, ExitsAreCoherent, PhaseInv
<1> QED BY <1>4, <1>5, <1>6, <1>7

LEMMA OffsetKeeps ==
    ASSUME IInv, Offset
    PROVE  IInv'
<1> USE DEF IInv, Offset, cache
<1>1. /\ instruction.rs1 \in Operands /\ instruction.kind = "jalr"
      /\ HostValue(instruction.rs1) = GuestValue(instruction.rs1)
  BY InstructionParts DEF TypeOK, PhaseInv, OperandInv, HostValue, GuestValue
<1>2. GuestValue(instruction.rs1) \in Values
  BY <1>1, ValuesAssumption DEF GuestValue, Operands, TypeOK
<1>3. TypeOK'
  BY <1>1, <1>2, RegsAssumption DEF TypeOK, Phases, Operands
<1>4. OneCache' BY DEF OneCache
<1>5. CoherentInv' BY DEF CoherentInv, CoherentAt, Pending, Cached
<1>6. JumpInv'
  <2>1. CASE target' = Zero /\ a_reg' = HostValue(instruction.rs1)
    BY <1>1, <2>1 DEF JumpInv
  <2>2. CASE instruction.rs1 # Zero /\ target' = instruction.rs1
    <3>1. /\ Cached(instruction.rs1)
          /\ slots[register_to_slot[instruction.rs1]].locked
          /\ host[register_to_slot[instruction.rs1]] = guest[instruction.rs1]
      BY <2>2 DEF OperandInv
    <3> QED BY <2>2, <3>1 DEF JumpInv, GuestValue, Cached
  <2> QED BY <2>1, <2>2
<1>7. OperandInv' /\ PhaseInv' /\ ExitsAreCoherent'
  BY DEF OperandInv, PhaseInv, ExitsAreCoherent
<1> QED BY <1>3, <1>4, <1>5, <1>6, <1>7

LEMMA RelockKeeps ==
    ASSUME IInv, Relock
    PROVE  IInv'
<1> USE RegsAssumption DEF IInv
<1> DEFINE rd == instruction.rd
<1>1. /\ phase = "relock" /\ phase' = "linked" /\ instruction.kind = "jalr"
      /\ LockRegisters({}, {rd}) /\ guest' = guest
      /\ UNCHANGED <<program_counter, instruction, snapshot, target, a_reg,
                     guest, jump>>
  BY DEF Relock, PhaseInv
<1>2. rd \in Operands /\ ({} \union {rd}) \ {Zero} \subseteq Regs
  BY InstructionParts DEF TypeOK, Operands
<1>3. \A q \in Regs : CoherentAt(q) /\ ~Pending(q)
  BY <1>1 DEF CoherentInv, Pending
<1>4. TypeOK'
  BY <1>1, <1>2, LockTypes DEF TypeOK, Phases
<1>5. OneCache'
  BY <1>1, <1>2, LockTypes
<1>6. \A r \in Regs : CoherentAt(r)'
  <2> SUFFICES ASSUME NEW r \in Regs PROVE CoherentAt(r)'
    OBVIOUS
  <2>1. ~Pending(r)' => r \notin {rd}
    BY <1>1 DEF Pending
  <2> QED BY <1>1, <1>2, <1>3, <2>1, LockEffect DEF CoherentAt
<1>7. CoherentInv'
  BY <1>6 DEF CoherentInv
<1>8. OperandInv'
  <2>1. rd # Zero => Cached(rd)'
    BY <1>1, <1>2, <1>3, LockEffect DEF Operands
  <2> QED BY <1>1, <2>1 DEF OperandInv, Cached
<1>9. JumpInv'
  <2>1. CASE target = Zero
    BY <1>1, <2>1 DEF JumpInv
  <2>2. CASE target # Zero
    <3>1. /\ target \in Regs /\ Cached(target)
          /\ slots[register_to_slot[target]].locked
          /\ host[register_to_slot[target]] = jump
      BY <1>1, <2>2 DEF JumpInv, TypeOK, Operands
    <3>2. /\ Cached(target)' /\ slots'[register_to_slot'[target]].locked
          /\ host'[register_to_slot'[target]] = jump
      <4>1. UNCHANGED target
        BY <1>1
      <4>2. \A r \in Regs :
               Cached(r) /\ slots[register_to_slot[r]].locked =>
                /\ register_to_slot'[r] # NoSlot
                /\ slots'[register_to_slot'[r]].locked
                /\ host'[register_to_slot'[r]] = host[register_to_slot[r]]
        BY <1>1, <1>2, <1>3, LockEffect DEF Cached
      <4> QED BY <3>1, <4>1, <4>2 DEF Cached
    <3> QED BY <1>1, <2>2, <3>2 DEF JumpInv, Cached
  <2> QED BY <2>1, <2>2
<1>10. PhaseInv' /\ ExitsAreCoherent'
  BY <1>1 DEF PhaseInv, ExitsAreCoherent
<1> QED BY <1>4, <1>5, <1>7, <1>8, <1>9, <1>10

LEMMA LinkKeeps ==
    ASSUME IInv, Link
    PROVE  IInv'
<1> USE RegsAssumption DEF IInv
<1> DEFINE rd == instruction.rd
<1>1. PICK v \in Values : WriteBack(instruction, v, v)
  BY DEF Link
<1>2. /\ phase = "linked" /\ phase' = "leave" /\ instruction.kind = "jalr"
      /\ UNCHANGED <<register_to_slot, free_slots, program_counter,
                     instruction, snapshot, register_state, jump>>
  BY DEF Link, PhaseInv
<1>3. /\ instruction \in Instructions
      /\ \A q \in Regs : CoherentAt(q) /\ (Pending(q) => q = rd)
      /\ rd # Zero => Cached(rd)
  BY <1>2 DEF CoherentInv, Pending, OperandInv, TypeOK
<1>4. /\ OneCache'
      /\ slots' \in [Slots -> Slot]
      /\ host' \in [Slots -> Values] /\ guest' \in [Regs -> Values]
      /\ \A r \in Regs :
           /\ ~Cached(r) => register_state[r] = guest'[r]
           /\ Cached(r) =>
                /\ host'[register_to_slot[r]] = guest'[r]
                /\ ~slots'[register_to_slot[r]].dirty
                      => register_state[r] = guest'[r]
  BY <1>1, <1>2, <1>3, WriteBackEffect
<1>5. target # Zero =>
        /\ target \in Regs /\ Cached(target)
        /\ register_to_slot[target] \in Slots
        /\ slots[register_to_slot[target]].reg = target
        /\ host[register_to_slot[target]] = jump
  BY <1>2 DEF JumpInv, TypeOK, Operands, Cached, OneCache
<1>6. CASE target # Zero /\ target = rd
  <2>1. target' = Zero /\ a_reg' = jump
    BY <1>5, <1>6 DEF Link, HostValue
  <2>2. JumpInv'
    BY <2>1, <1>2 DEF JumpInv
  <2>3. TypeOK'
    BY <1>2, <1>4, <2>1 DEF TypeOK, Phases, Operands
  <2> QED BY <1>2, <1>4, <2>2, <2>3
          DEF CoherentInv, CoherentAt, Cached, OperandInv, ExitsAreCoherent,
              PhaseInv
<1>7. CASE ~(target # Zero /\ target = rd)
  <2>1. target' = target /\ a_reg' = a_reg
    BY <1>7 DEF Link
  <2>2. target # Zero => host'[register_to_slot[target]] = jump
    <3>1. (rd \in Regs /\ Cached(rd)) \/ rd = Zero
      BY <1>3, InstructionParts DEF Operands
    <3>2. target # Zero /\ rd # Zero =>
            register_to_slot[target] # register_to_slot[rd]
      BY <1>5, <1>7, <3>1 DEF OneCache
    <3> QED BY <1>1, <1>5, <3>2 DEF WriteBack, TypeOK
  <2>3. JumpInv'
    BY <1>2, <1>5, <2>1, <2>2 DEF JumpInv, Cached
  <2>4. TypeOK'
    BY <1>2, <1>4, <2>1 DEF TypeOK, Phases
  <2> QED BY <1>2, <1>4, <2>3, <2>4
          DEF CoherentInv, CoherentAt, Cached, OperandInv, ExitsAreCoherent,
              PhaseInv
<1> QED BY <1>6, <1>7

LEMMA FinishKeeps ==
    ASSUME IInv, FinishInstruction
    PROVE  IInv'
<1> USE DEF IInv, FinishInstruction, emitted
<1>1. program_counter + 1 \in 0 .. MaxInstructions
  BY LengthAssumption DEF TypeOK, PhaseInv
<1>2. NoInstruction \in Instructions /\ EmptySnapshot \in [Slots -> Operands]
  BY DEF NoInstruction, Instructions, EmptySnapshot, Operands
<1>3. TypeOK'
  BY <1>1, <1>2 DEF TypeOK, Phases
<1>4. OneCache' BY DEF OneCache
<1>5. CoherentInv' BY DEF CoherentInv, CoherentAt, Pending, Cached
<1>6. OperandInv' /\ JumpInv' /\ PhaseInv' /\ ExitsAreCoherent'
  BY DEF OperandInv, JumpInv, PhaseInv, ExitsAreCoherent
<1> QED BY <1>3, <1>4, <1>5, <1>6

\* A new cache holds nothing, so memory must: it does in every exit.
LEMMA BetweenBlocksKeeps ==
    ASSUME IInv, Interpret \/ NextBlock
    PROVE  IInv'
<1> USE DEF IInv
<1>1. CASE Interpret
  <2> USE <1>1 DEF Interpret, cache
  <2>1. TypeOK' BY DEF TypeOK
  <2>2. OneCache' BY DEF OneCache
  <2>3. ExitsAreCoherent' BY DEF ExitsAreCoherent
  <2>4. CoherentInv' /\ OperandInv' /\ JumpInv' /\ PhaseInv'
    BY DEF CoherentInv, OperandInv, JumpInv, PhaseInv
  <2> QED BY <2>1, <2>2, <2>3, <2>4
<1>2. CASE NextBlock
  <2> USE <1>2 DEF NextBlock, NewCache
  <2>1. /\ NoInstruction \in Instructions
        /\ EmptySnapshot \in [Slots -> Operands]
    BY DEF NoInstruction, Instructions, EmptySnapshot, Operands
  <2>2. EmptySlot \in Slot /\ EmptySlot.reg = Zero
    BY LengthAssumption DEF EmptySlot, Slot
  <2>3. TypeOK'
    BY <2>1, <2>2, LengthAssumption, ValuesAssumption
       DEF TypeOK, Phases, Operands
  <2>4. OneCache'
    BY <2>2, RegsAssumption DEF OneCache
  <2>5. CoherentInv'
    BY DEF CoherentInv, CoherentAt, Cached, ExitsAreCoherent
  <2>6. OperandInv' /\ JumpInv' /\ PhaseInv' /\ ExitsAreCoherent'
    BY DEF OperandInv, JumpInv, PhaseInv, ExitsAreCoherent
  <2> QED BY <2>3, <2>4, <2>5, <2>6
<1> QED BY <1>1, <1>2

LEMMA InitIInv == Init => IInv
<1> SUFFICES ASSUME Init PROVE IInv
  OBVIOUS
<1> USE DEF Init
<1>1. NoInstruction \in Instructions /\ EmptySnapshot \in [Slots -> Operands]
  BY DEF NoInstruction, Instructions, EmptySnapshot, Operands
<1>2. EmptySlot \in Slot /\ EmptySlot.reg = Zero
  BY LengthAssumption DEF EmptySlot, Slot
<1>3. TypeOK
  BY <1>1, <1>2, LengthAssumption, ValuesAssumption DEF TypeOK, Phases, Operands
<1>4. OneCache
  BY <1>2, RegsAssumption DEF OneCache
<1>5. CoherentInv
  BY DEF CoherentInv, CoherentAt, Cached
<1>6. OperandInv /\ JumpInv /\ PhaseInv /\ ExitsAreCoherent
  BY DEF OperandInv, JumpInv, PhaseInv, ExitsAreCoherent
<1> QED BY <1>3, <1>4, <1>5, <1>6 DEF IInv

LEMMA NextKeeps == IInv /\ [Next]_vars => IInv'
<1> SUFFICES ASSUME IInv, [Next]_vars PROVE IInv'
  OBVIOUS
<1>1. CASE Next
  BY <1>1, LockKeeps, CheckKeeps, ExitKeeps, ComputeKeeps, JumpAndLinkKeeps,
     OffsetKeeps, RelockKeeps, LinkKeeps, FinishKeeps, BetweenBlocksKeeps
     DEF Next
<1>2. CASE UNCHANGED vars
  BY <1>2 DEF vars, cache, emitted, IInv, TypeOK, OneCache, CoherentInv,
     CoherentAt, Pending, Cached, OperandInv, JumpInv, PhaseInv, TakeSnapshot,
     ExitsAreCoherent
<1> QED BY <1>1, <1>2

-----------------------------------------------------------------------------
\* Every register's value is where the inductive invariant says.
THEOREM Inductive == Spec => []IInv
BY InitIInv, NextKeeps, PTL DEF Spec

\* Every variable keeps its type.
THEOREM TypeCorrect == Spec => []TypeOK
<1>1. IInv => TypeOK BY DEF IInv
<1> QED BY <1>1, Inductive, PTL

\* Whatever a block locked, evicted and wrote, and wherever it is left, the
\* guest's registers are all in memory when it is.
THEOREM ExitsCorrect == Spec => []ExitsAreCoherent
<1>1. IInv => ExitsAreCoherent BY DEF IInv
<1> QED BY <1>1, Inductive, PTL

\* Emitted code computes with the guest's values, and jalr jumps to the
\* target it had before it wrote its link register.
THEOREM SourcesCorrect == Spec => []SourcesAreCurrent
<1>1. IInv => SourcesAreCurrent
  BY DEF IInv, OperandInv, JumpInv, SourcesAreCurrent, HostValue, GuestValue
<1> QED BY <1>1, Inductive, PTL

\* The generator's three views of its cache agree.
THEOREM CacheCorrect == Spec => []OneCache
<1>1. IInv => OneCache BY DEF IInv
<1> QED BY <1>1, Inductive, PTL

-----------------------------------------------------------------------------
(***************************************************************************)
(* The cache's own verify()s.  Only operands of the instruction in hand    *)
(* are locked, and three slots are enough for any instruction: what is     *)
(* neither free nor evictable is a slot of an operand.                     *)
(***************************************************************************)
OperandsOf(i) == {i.rs1, i.rs2, i.rd} \ {Zero}
LockInv ==
    /\ phase \in {"fetch", "finish", "leave"} => \A s \in Slots : ~slots[s].locked
    /\ phase \in {"link", "relock"} =>
          \A s \in Slots : slots[s].locked => slots[s].reg \in {instruction.rs1} \ {Zero}
    /\ phase \in {"check", "checked", "execute", "linked"} =>
          \A s \in Slots : slots[s].locked => slots[s].reg \in OperandsOf(instruction)

LEMMA UnionBound ==
    ASSUME NEW S, NEW T, IsFiniteSet(S), IsFiniteSet(T)
    PROVE  /\ IsFiniteSet(S \union T)
           /\ Cardinality(S) \in Nat /\ Cardinality(T) \in Nat
           /\ Cardinality(S \union T) \in Nat
           /\ Cardinality(S \union T) <= Cardinality(S) + Cardinality(T)
<1>1. S \intersect T \in SUBSET S  OBVIOUS
<1>2. IsFiniteSet(S \intersect T)  BY <1>1, FS_Subset
<1>3. Cardinality(S \intersect T) \in Nat  BY <1>2, FS_CardinalityType
<1>4. Cardinality(S) \in Nat /\ Cardinality(T) \in Nat  BY FS_CardinalityType
<1>5. IsFiniteSet(S \union T)  BY FS_Union
<1>6. Cardinality(S \union T)
        = Cardinality(S) + Cardinality(T) - Cardinality(S \intersect T)
  BY FS_Union
<1> QED BY <1>3, <1>4, <1>5, <1>6, FS_CardinalityType

LEMMA EnoughSlots ==
    ASSUME TypeOK, OneCache, Cardinality(Slots) >= 3,
           NEW kept \in SUBSET Regs, IsFiniteSet(kept), Cardinality(kept) <= 3,
           NEW registers \in SUBSET kept,
           \A s \in Slots : slots[s].locked => slots[s].reg \in kept
    PROVE  ~(Short(registers) > Cardinality(Evictable(registers)))
<1> DEFINE held == {r \in kept : Cached(r)}
           used == {register_to_slot[r] : r \in held}
           evictable == Evictable(registers)
           missing == Missing(registers)
<1> USE RegsAssumption
<1>1. /\ IsFiniteSet(held) /\ Cardinality(held) \in Nat
      /\ IsFiniteSet(registers) /\ Cardinality(registers) \in Nat
  BY FS_Subset, FS_CardinalityType
<1>2. IsFiniteSet(used) /\ Cardinality(used) \in Nat
      /\ Cardinality(used) <= Cardinality(held)
  <2> DEFINE f == [r \in held |-> register_to_slot[r]]
  <2>1. f \in Surjection(held, used)
    BY DEF Surjection
  <2> HIDE DEF f, held, used
  <2> QED BY <1>1, <2>1, FS_Surjection, FS_CardinalityType
<1>3. /\ IsFiniteSet(free_slots) /\ Cardinality(free_slots) \in Nat
      /\ IsFiniteSet(evictable) /\ Cardinality(evictable) \in Nat
  <2>1. free_slots \in SUBSET Slots /\ evictable \in SUBSET Slots
    BY DEF TypeOK, Evictable
  <2> HIDE DEF evictable
  <2> QED BY <2>1, FS_Subset, FS_CardinalityType
<1>4. Slots \subseteq (free_slots \union used) \union evictable
  <2> SUFFICES ASSUME NEW s \in Slots, s \notin free_slots, s \notin evictable
               PROVE  s \in used
    OBVIOUS
  <2>1. slots[s].reg # Zero /\ slots[s].reg \in Regs
    BY DEF OneCache, TypeOK, Slot
  <2>2. slots[s].reg \in kept
    BY <2>1 DEF Evictable
  <2>3. register_to_slot[slots[s].reg] = s
    BY <2>1 DEF OneCache
  <2> QED BY <2>2, <2>3 DEF Cached
<1>5. Cardinality(Slots) <=
        Cardinality(free_slots) + Cardinality(used) + Cardinality(evictable)
  <2> HIDE DEF used, evictable
  <2>1. /\ IsFiniteSet(free_slots \union used)
        /\ Cardinality(free_slots \union used) \in Nat
        /\ Cardinality(free_slots \union used)
             <= Cardinality(free_slots) + Cardinality(used)
    BY <1>2, <1>3, UnionBound
  <2> DEFINE both == free_slots \union used
  <2> HIDE DEF both
  <2>2. /\ IsFiniteSet(both \union evictable)
        /\ Cardinality(both \union evictable) \in Nat
        /\ Cardinality(both \union evictable)
             <= Cardinality(both) + Cardinality(evictable)
    <3>1. IsFiniteSet(both)  BY <2>1 DEF both
    <3> QED BY <1>3, <3>1, UnionBound
  <2>3. Cardinality(Slots) \in Nat /\ Cardinality(Slots) <= Cardinality(both \union evictable)
    BY <1>4, <2>2, FS_Subset, FS_CardinalityType DEF both
  <2> QED BY <1>2, <1>3, <2>1, <2>2, <2>3 DEF both
<1>6. /\ Cardinality(missing) \in Nat /\ Cardinality(kept) \in Nat
      /\ Cardinality(missing) + Cardinality(held) <= Cardinality(kept)
  <2>1. IsFiniteSet(kept \ held) /\ Cardinality(kept \ held) \in Nat
        /\ Cardinality(kept \ held) = Cardinality(kept) - Cardinality(kept \intersect held)
    BY FS_Difference, FS_CardinalityType
  <2>2. kept \intersect held = held
    OBVIOUS
  <2>3. missing \in SUBSET (kept \ held)
    BY DEF Missing, Cached
  <2> HIDE DEF held, missing
  <2>4. Cardinality(missing) \in Nat /\ Cardinality(missing) <= Cardinality(kept \ held)
    BY <2>1, <2>3, FS_Subset, FS_CardinalityType
  <2>5. Cardinality(kept) \in Nat
    BY FS_CardinalityType
  <2>6. Cardinality(kept \ held) = Cardinality(kept) - Cardinality(held)
    BY <2>1, <2>2
  <2> QED BY <1>1, <2>4, <2>5, <2>6
<1> HIDE DEF held, used, evictable, missing
<1>7. Cardinality(Slots) \in Nat
  BY FS_CardinalityType
<1>8. ~(Cardinality(missing) - Cardinality(free_slots) > Cardinality(evictable))
  BY <1>1, <1>2, <1>3, <1>5, <1>6, <1>7
<1> QED BY <1>8 DEF Short, evictable, missing

LEMMA ThreeOperands ==
    ASSUME NEW a, NEW b, NEW c
    PROVE  /\ IsFiniteSet({a, b, c} \ {Zero})
           /\ Cardinality({a, b, c} \ {Zero}) <= 3
           /\ Cardinality({a, b, c} \ {Zero}) \in Nat
<1>1. IsFiniteSet({a}) /\ Cardinality({a}) = 1
  BY FS_Singleton
<1>2. /\ IsFiniteSet({a} \union {b}) /\ Cardinality({a} \union {b}) \in Nat
      /\ Cardinality({a} \union {b}) <= 2
  <2>1. IsFiniteSet({b}) /\ Cardinality({b}) = 1  BY FS_Singleton
  <2> QED BY <1>1, <2>1, UnionBound
<1>3. /\ IsFiniteSet({a, b, c}) /\ Cardinality({a, b, c}) \in Nat
      /\ Cardinality({a, b, c}) <= 3
  <2>1. IsFiniteSet({c}) /\ Cardinality({c}) = 1  BY FS_Singleton
  <2> DEFINE two == {a} \union {b}
  <2> HIDE DEF two
  <2>2. /\ IsFiniteSet(two \union {c}) /\ Cardinality(two \union {c}) \in Nat
        /\ Cardinality(two \union {c}) <= 3
    BY <1>2, <2>1, UnionBound DEF two
  <2>3. {a, b, c} = two \union {c}  BY DEF two
  <2> QED BY <2>2, <2>3
<1>4. {a, b, c} \ {Zero} \in SUBSET {a, b, c}  OBVIOUS
<1> QED BY <1>3, <1>4, FS_Subset, FS_CardinalityType

\* What lock_registers leaves locked.
LEMMA LockedBy ==
    ASSUME TypeOK, OneCache, NEW reads, NEW writes,
           (reads \union writes) \ {Zero} \subseteq Regs,
           LockRegisters(reads, writes), NEW s \in Slots, slots'[s].locked
    PROVE  \/ slots'[s].reg \in (reads \union writes) \ {Zero}
           \/ slots[s].locked /\ slots'[s].reg = slots[s].reg
<1> DEFINE registers == (reads \union writes) \ {Zero}
<1>1. PICK victims \in SUBSET Evictable(registers),
           into \in [Missing(registers) -> Slots] :
        Replace(reads, registers, victims, into)
  BY DEF LockRegisters
<1> HIDE DEF registers
<1>2. slots[s] \in Slot
  BY DEF TypeOK
<1>3. CASE \E r \in DOMAIN into : into[r] = s
  <2>1. slots'[s].reg = PlacedIn(into, s)
    BY <1>1, <1>3 DEF Replace
  <2>2. PlacedIn(into, s) \in registers
    BY <1>1, <1>3 DEF PlacedIn, Missing
  <2> QED BY <2>1, <2>2 DEF registers
<1>4. CASE ~\E r \in DOMAIN into : into[r] = s
  <2>1. slots'[s] = IF s \in victims THEN EmptySlot
                    ELSE IF slots[s].reg \in registers
                    THEN [slots[s] EXCEPT !.locked = TRUE,
                                          !.last_use = program_counter]
                    ELSE slots[s]
    BY <1>1, <1>4 DEF Replace
  <2>2. s \notin victims
    BY <2>1 DEF EmptySlot
  <2>3. CASE slots[s].reg \in registers
    BY <1>2, <2>1, <2>2, <2>3 DEF registers, Slot
  <2>4. CASE slots[s].reg \notin registers
    BY <2>1, <2>2, <2>4
  <2> QED BY <2>3, <2>4
<1> QED BY <1>3, <1>4

\* The end of an instruction unlocks its operands, and so every slot.
LEMMA AllUnlocked ==
    ASSUME IInv, NEW v, NEW w, WriteBack(instruction, v, w),
           \A s \in Slots : slots[s].locked => slots[s].reg \in OperandsOf(instruction)
    PROVE  \A s \in Slots : ~slots'[s].locked
<1> SUFFICES ASSUME NEW s \in Slots PROVE ~slots'[s].locked
  OBVIOUS
<1> DEFINE i == instruction
<1>1. slots[s] \in Slot  BY DEF IInv, TypeOK
<1>2. slots'[s] = IF slots[s].reg \in {i.rs1, i.rs2, i.rd} \ {Zero}
                  THEN [slots[s] EXCEPT !.locked = FALSE,
                                        !.dirty = @ \/ slots[s].reg \in {i.rd}]
                  ELSE slots[s]
  BY DEF WriteBack, Unlocked
<1> QED BY <1>1, <1>2 DEF OperandsOf, Slot

LEMMA LockInvStep ==
    ASSUME IInv, LockInv, Next
    PROVE  LockInv'
<1>t. TypeOK /\ OneCache /\ PhaseInv  BY DEF IInv
<1>1. ASSUME NEW i \in Instructions, Lock(i)
      PROVE  LockInv'
  <2>1. /\ phase = "fetch" /\ instruction' = i
        /\ LockRegisters(FirstReads(i), FirstWrites(i))
        /\ phase' \in {"check", "link", "leave", "execute"}
        /\ phase' = "link" <=> i.kind = "jalr"
        /\ phase' = "leave" <=> i.kind = "stop"
    BY <1>1 DEF Lock, Instructions
  <2>2. (FirstReads(i) \union FirstWrites(i)) \ {Zero} \subseteq Regs
    BY InstructionParts DEF Operands, FirstReads, FirstWrites
  <2>3. \A s \in Slots : slots'[s].locked =>
           slots'[s].reg \in (FirstReads(i) \union FirstWrites(i)) \ {Zero}
    BY <1>t, <2>1, <2>2, LockedBy DEF LockInv
  <2>4. (FirstReads(i) \union FirstWrites(i)) \ {Zero} \subseteq OperandsOf(i)
    BY DEF FirstReads, FirstWrites, OperandsOf
  <2>5. i.kind = "jalr" =>
           (FirstReads(i) \union FirstWrites(i)) \ {Zero} \subseteq {i.rs1} \ {Zero}
    BY DEF Instructions, FirstReads, FirstWrites
  <2>6. i.kind = "stop" => OperandsOf(i) = {}
    BY DEF Instructions, OperandsOf
  <2> HIDE DEF Instructions
  <2> QED BY <2>1, <2>3, <2>4, <2>5, <2>6 DEF LockInv
<1>2. CASE Check
  BY <1>2 DEF Check, cache, LockInv
<1>3. CASE Fault \/ BranchTaken \/ Leave
  BY <1>3 DEF Fault, BranchTaken, Leave, LockInv
<1>4. CASE Compute \/ Bring \/ BranchNotTaken \/ JumpAndLink \/ Link
  <2>1. phase \in {"checked", "execute", "linked"}
    BY <1>4 DEF Compute, Bring, BranchNotTaken, JumpAndLink, Link
  <2>2. \E v, w : WriteBack(instruction, v, w)
    BY <1>4 DEF Compute, Bring, BranchNotTaken, JumpAndLink, Link
  <2>3. phase' \in {"finish", "leave"}
    BY <1>4 DEF Compute, Bring, BranchNotTaken, JumpAndLink, Link, Complete
  <2>4. \A s \in Slots : ~slots'[s].locked
    BY <2>1, <2>2, AllUnlocked DEF LockInv
  <2> QED BY <2>3, <2>4 DEF LockInv
<1>5. CASE Offset
  BY <1>5 DEF Offset, cache, LockInv
<1>6. CASE Relock
  <2>1. /\ phase = "relock" /\ phase' = "linked" /\ instruction' = instruction
        /\ LockRegisters({}, {instruction.rd})
    BY <1>6 DEF Relock
  <2>2. ({} \union {instruction.rd}) \ {Zero} \subseteq Regs
    BY <1>t, InstructionParts DEF TypeOK, Operands
  <2>3. \A s \in Slots : slots'[s].locked =>
           \/ slots'[s].reg \in ({} \union {instruction.rd}) \ {Zero}
           \/ slots[s].locked /\ slots'[s].reg = slots[s].reg
    BY <1>t, <2>1, <2>2, LockedBy
  <2>4. \A s \in Slots : slots[s].locked =>
           slots[s].reg = instruction.rs1 /\ slots[s].reg # Zero
    BY <2>1 DEF LockInv
  <2> QED BY <2>1, <2>3, <2>4 DEF LockInv, OperandsOf
<1>7. CASE FinishInstruction
  BY <1>7 DEF FinishInstruction, LockInv
<1>8. CASE Interpret
  BY <1>8 DEF Interpret, cache, LockInv
<1>9. CASE NextBlock
  BY <1>9 DEF NextBlock, NewCache, EmptySlot, LockInv
<1> QED BY <1>1, <1>2, <1>3, <1>4, <1>5, <1>6, <1>7, <1>8, <1>9 DEF Next

\* With three slots no verify() of the cache fails, whatever the block: every
\* instruction finds the slots it needs, and leaves none locked.
THEOREM VerifiesCorrect ==
    ASSUME Cardinality(Slots) >= 3
    PROVE  Spec => []VerifiesHold
<1>1. Init => LockInv
  BY DEF Init, LockInv, EmptySlot
<1>2. IInv /\ LockInv /\ [Next]_vars => LockInv'
  <2>1. LockInv /\ UNCHANGED vars => LockInv'
    BY DEF LockInv, vars, cache
  <2> QED BY <2>1, LockInvStep
<1>3. ASSUME IInv, LockInv
      PROVE  VerifiesHold
  <2>t. TypeOK /\ OneCache  BY <1>3 DEF IInv
  <2>1. ASSUME phase = "fetch", NEW i \in Instructions
        PROVE  ~CannotLock(FirstReads(i), FirstWrites(i))
    <3> DEFINE kept == OperandsOf(i)
               registers == (FirstReads(i) \union FirstWrites(i)) \ {Zero}
    <3>1. kept \subseteq Regs /\ registers \subseteq kept
      BY InstructionParts DEF Operands, OperandsOf, FirstReads, FirstWrites
    <3>2. IsFiniteSet(kept) /\ Cardinality(kept) <= 3
      BY ThreeOperands DEF OperandsOf
    <3>3. \A s \in Slots : slots[s].locked => slots[s].reg \in kept
      BY <1>3, <2>1 DEF LockInv
    <3> HIDE DEF kept, registers
    <3>4. ~(Short(registers) > Cardinality(Evictable(registers)))
      BY <2>t, <3>1, <3>2, <3>3, EnoughSlots
    <3> QED BY <3>4 DEF CannotLock, registers
  <2>2. ASSUME phase = "relock"
        PROVE  ~CannotLock({}, {instruction.rd})
    <3> DEFINE kept == OperandsOf(instruction)
               registers == ({} \union {instruction.rd}) \ {Zero}
    <3>1. kept \subseteq Regs /\ registers \subseteq kept
      BY <2>t, InstructionParts DEF TypeOK, Operands, OperandsOf
    <3>2. IsFiniteSet(kept) /\ Cardinality(kept) <= 3
      BY ThreeOperands DEF OperandsOf
    <3>3. \A s \in Slots : slots[s].locked => slots[s].reg \in kept
      BY <1>3, <2>2 DEF LockInv, OperandsOf
    <3> HIDE DEF kept, registers
    <3>4. ~(Short(registers) > Cardinality(Evictable(registers)))
      BY <2>t, <3>1, <3>2, <3>3, EnoughSlots
    <3> QED BY <3>4 DEF CannotLock, registers
  <2> QED BY <1>3, <2>1, <2>2 DEF VerifiesHold, LockInv
<1> QED BY <1>1, <1>2, <1>3, Inductive, PTL DEF Spec

-----------------------------------------------------------------------------
(***************************************************************************)
(* RegisterCache implements GuestRegisters.  The invariant says that what  *)
(* is read off the cache is what the instruction set has; a step of the    *)
(* cache is then a step of an instruction, or changes nothing of it.       *)
(***************************************************************************)
\* What GuestRegisters is shown of a state: the registers are those of the
\* instruction set, the operands those that the instruction began with, the
\* target of a jalr in whichever register it is, and none between instructions.
ShowsGuest ==
    /\ Registers = guest
    /\ phase \in {"check", "checked", "execute", "link"} =>
          OperandValues = <<GuestValue(instruction.rs1), GuestValue(instruction.rs2)>>
    /\ phase \in {"relock", "linked", "leave"} /\ instruction.kind = "jalr" =>
          OperandValues = <<jump, ZeroValue>>
    /\ phase \in {"fetch", "finish"} =>
          OperandValues = <<>> /\ Executing = NoInstruction /\ Progress = "next"

LEMMA CacheShowsGuest == IInv => ShowsGuest
<1> SUFFICES ASSUME IInv PROVE ShowsGuest
  OBVIOUS
<1>1. Registers = guest
  <2>1. guest \in [Regs -> Values] /\ register_state \in [Regs -> Values]
    BY DEF IInv, TypeOK
  <2>2. CASE phase = "exited"
    BY <2>1, <2>2 DEF Registers, IInv, ExitsAreCoherent
  <2>3. CASE phase # "exited"
    <3>1. ASSUME NEW r \in Regs PROVE Registers[r] = guest[r]
      <4>1. CoherentAt(r)
        BY <2>3 DEF IInv, CoherentInv
      <4> QED BY <2>3, <4>1 DEF Registers, CoherentAt, Cached
    <3>2. /\ guest = [r \in Regs |-> guest[r]]
          /\ Registers = [r \in Regs |-> Registers[r]]
      BY <2>1 DEF Registers
    <3> QED BY <3>1, <3>2
  <2> QED BY <2>2, <2>3
<1>2. ASSUME phase \in {"check", "checked", "execute", "link"}
      PROVE  OperandValues = <<GuestValue(instruction.rs1), GuestValue(instruction.rs2)>>
  <2>1. ASSUME NEW r \in {instruction.rs1, instruction.rs2}
        PROVE  HostValue(r) = GuestValue(r)
    BY <1>2 DEF IInv, OperandInv, HostValue, GuestValue
  <2>2. OperandValues = <<HostValue(instruction.rs1), HostValue(instruction.rs2)>>
    BY <1>2 DEF OperandValues
  <2> QED BY <2>1, <2>2
<1>3. ASSUME phase \in {"relock", "linked", "leave"}, instruction.kind = "jalr"
      PROVE  OperandValues = <<jump, ZeroValue>>
  BY <1>3 DEF IInv, JumpInv, OperandValues, HostValue
<1>4. ASSUME phase \in {"fetch", "finish"}
      PROVE  OperandValues = <<>> /\ Executing = NoInstruction /\ Progress = "next"
  BY <1>4 DEF OperandValues, Executing, Progress
<1> QED BY <1>1, <1>2, <1>3, <1>4 DEF ShowsGuest

LEMMA CacheStillShowsGuest == IInv' => ShowsGuest'
BY CacheShowsGuest, PTL

\* The end of an instruction writes its destination, or nothing.
LEMMA WritesDestination ==
    ASSUME IInv, IInv', NEW v, NEW w, WriteBack(instruction, w, v)
    PROVE  Registers' = IF instruction.rd = Zero THEN Registers
                        ELSE [Registers EXCEPT ![instruction.rd] = v]
BY CacheShowsGuest, CacheStillShowsGuest DEF WriteBack, ShowsGuest

LEMMA GuestStep ==
    ASSUME IInv, IInv', Next
    PROVE  Guest!Next \/ UNCHANGED Guest!vars
<1>g. ShowsGuest /\ ShowsGuest'
  BY CacheShowsGuest, CacheStillShowsGuest
<1>r. Registers = guest /\ Registers' = guest'
  BY <1>g DEF ShowsGuest
<1>p. PhaseInv /\ PhaseInv' /\ instruction \in Instructions /\ TypeOK
  BY DEF IInv, TypeOK
<1>v. \A r : Guest!Value(r) = GuestValue(r)
  BY <1>r DEF Guest!Value, GuestValue
<1>1. ASSUME NEW i \in Instructions, Lock(i)
      PROVE  Guest!Begin(i)
  <2>1. /\ phase = "fetch" /\ instruction' = i /\ guest' = guest
        /\ phase' \in {"check", "link", "leave", "execute"}
        /\ phase' = "leave" <=> i.kind = "stop"
    BY <1>1 DEF Lock, Instructions
  <2>2. Progress = "next" /\ Progress' = "begun" /\ Executing' = i
    BY <2>1 DEF Progress, Executing
  <2>3. OperandValues' = <<GuestValue(i.rs1), GuestValue(i.rs2)>>
    <3>1. CASE phase' # "leave"
      BY <2>1, <3>1, <1>g DEF ShowsGuest, GuestValue
    <3>2. CASE phase' = "leave"
      <4>1. i.rs1 = Zero /\ i.rs2 = Zero /\ i.kind = "stop"
        BY <2>1, <3>2 DEF Instructions
      <4> QED BY <2>1, <3>2, <4>1 DEF OperandValues, HostValue, GuestValue
    <3> QED BY <3>1, <3>2
  <2> QED BY <1>r, <1>v, <2>1, <2>2, <2>3 DEF Guest!Begin
<1>2. CASE Check
  <2>1. /\ phase = "check" /\ phase' = "checked"
        /\ instruction' = instruction /\ guest' = guest
    BY <1>2 DEF Check
  <2>2. OperandValues' = OperandValues
    BY <2>1, <1>g DEF ShowsGuest, GuestValue
  <2>3. Executing' = Executing /\ Progress' = Progress
    BY <2>1 DEF Executing, Progress
  <2> QED BY <1>r, <2>1, <2>2, <2>3 DEF Guest!vars
<1>3. CASE Fault \/ BranchTaken \/ Leave
  <2>1. /\ phase' = "exited" /\ instruction' = instruction /\ guest' = guest
        /\ UNCHANGED <<register_to_slot, host, target, a_reg>>
        /\ \/ phase = "checked" /\ instruction.kind \in {"load", "store"}
           \/ phase = "execute" /\ instruction.kind = "branch"
           \/ phase = "leave"
    BY <1>3, <1>p DEF Fault, BranchTaken, Leave, cache, PhaseInv
  <2>2. OperandValues' = OperandValues /\ Executing' = Executing
    BY <2>1 DEF OperandValues, HostValue, Executing
  <2>3. /\ Progress' = "left" /\ Executing = instruction
        /\ \/ Progress = "leaving"
           \/ Progress = "begun"
              /\ instruction.kind \in {"load", "store", "branch", "stop"}
    BY <2>1 DEF Progress, Executing
  <2>4. Guest!Leave
    BY <1>r, <2>1, <2>2, <2>3 DEF Guest!Leave
  <2> QED BY <2>4 DEF Guest!Next
<1>4. CASE Compute \/ Bring \/ BranchNotTaken
  <2>1. /\ phase \in {"checked", "execute"} /\ phase' = "finish"
        /\ instruction.kind \notin {"jal", "jalr", "stop"}
    BY <1>4, <1>p DEF Compute, Bring, BranchNotTaken, Complete, PhaseInv
  <2>2. /\ Progress = "begun" /\ Executing = instruction
        /\ Progress' = "next" /\ Executing' = NoInstruction /\ OperandValues' = <<>>
    BY <2>1, <1>g DEF ShowsGuest, Progress, Executing
  <2>3. OperandValues = <<GuestValue(instruction.rs1), GuestValue(instruction.rs2)>>
    BY <2>1, <1>g DEF ShowsGuest
  <2>4. \E v \in Guest!Results : \E w : WriteBack(instruction, w, v)
    <3>1. CASE Compute
      BY <2>2, <2>3, <3>1 DEF Compute, Guest!Results
    <3>2. CASE Bring \/ BranchNotTaken
      <4>1. instruction.kind \notin {"unary", "binary"}
        BY <1>p, <3>2 DEF Bring, BranchNotTaken, PhaseInv
      <4>2. \E v \in Values : WriteBack(instruction, v, v)
        BY <3>2, ValuesAssumption DEF Bring, BranchNotTaken
      <4> QED BY <2>2, <4>1, <4>2 DEF Guest!Results
    <3> QED BY <1>4, <3>1, <3>2
  <2>5. \E v \in Guest!Results : Guest!Write(instruction.rd, v)
    BY <2>4, WritesDestination DEF Guest!Write
  <2>6. Guest!Finish
    BY <2>1, <2>2, <2>5 DEF Guest!Finish, Guest!BetweenInstructions
  <2> QED BY <2>6 DEF Guest!Next
<1>5. CASE JumpAndLink \/ Link
  <2>1. /\ \/ phase = "execute" /\ instruction.kind = "jal"
           \/ phase = "linked" /\ instruction.kind = "jalr"
        /\ phase' = "leave" /\ instruction' = instruction /\ jump' = jump
        /\ \E v \in Values : WriteBack(instruction, v, v)
    BY <1>5, <1>p DEF JumpAndLink, Link, PhaseInv
  <2>2. /\ Progress = "begun" /\ Progress' = "leaving"
        /\ Executing = instruction /\ Executing' = instruction
    BY <2>1 DEF Progress, Executing
  <2>3. OperandValues' = OperandValues
    <3>1. CASE instruction.kind = "jal"
      <4>1. instruction.rs1 = Zero /\ instruction.rs2 = Zero
        BY <1>p, <3>1 DEF Instructions
      <4> QED BY <2>1, <3>1, <4>1 DEF OperandValues, HostValue
    <3>2. CASE instruction.kind = "jalr"
      BY <2>1, <3>2, <1>g DEF ShowsGuest
    <3> QED BY <2>1, <3>1, <3>2
  <2>4. \E v \in Values : Guest!Write(instruction.rd, v)
    BY <2>1, WritesDestination DEF Guest!Write
  <2>5. Guest!Jump
    BY <2>1, <2>2, <2>3, <2>4 DEF Guest!Jump
  <2> QED BY <2>5 DEF Guest!Next
<1>6. CASE Offset
  <2>1. /\ phase = "link" /\ phase' = "relock" /\ instruction.kind = "jalr"
        /\ instruction' = instruction /\ guest' = guest
        /\ jump' = GuestValue(instruction.rs1)
    BY <1>6, <1>p DEF Offset, PhaseInv
  <2>2. instruction.rs2 = Zero
    BY <1>p, <2>1 DEF Instructions
  <2>3. OperandValues = <<jump', ZeroValue>>
    BY <2>1, <2>2, <1>g DEF ShowsGuest, GuestValue
  <2>4. OperandValues' = <<jump', ZeroValue>>
    BY <2>1, <1>g DEF ShowsGuest
  <2>5. Executing' = Executing /\ Progress' = Progress
    BY <2>1 DEF Executing, Progress
  <2> QED BY <1>r, <2>1, <2>3, <2>4, <2>5 DEF Guest!vars
<1>7. CASE Relock
  <2>1. /\ phase = "relock" /\ phase' = "linked" /\ instruction.kind = "jalr"
        /\ instruction' = instruction /\ guest' = guest /\ jump' = jump
    BY <1>7, <1>p DEF Relock, PhaseInv
  <2>2. OperandValues' = OperandValues
    BY <2>1, <1>g DEF ShowsGuest
  <2>3. Executing' = Executing /\ Progress' = Progress
    BY <2>1 DEF Executing, Progress
  <2> QED BY <1>r, <2>1, <2>2, <2>3 DEF Guest!vars
<1>8. CASE FinishInstruction
  <2>1. phase = "finish" /\ phase' = "fetch" /\ guest' = guest
    BY <1>8 DEF FinishInstruction
  <2> QED BY <1>r, <2>1, <1>g DEF ShowsGuest, Guest!vars
<1>9. CASE Interpret
  <2>1. /\ phase = "exited" /\ phase' = "exited" /\ instruction' = instruction
        /\ UNCHANGED <<register_to_slot, host, target, a_reg>>
    BY <1>9 DEF Interpret, cache
  <2>2. OperandValues' = OperandValues /\ Executing' = Executing
    BY <2>1 DEF OperandValues, HostValue, Executing
  <2>3. PICK r \in Regs, v \in Values : guest' = [guest EXCEPT ![r] = v]
    BY <1>9 DEF Interpret
  <2>4. Guest!Write(r, v)
    BY <1>r, <2>3, RegsAssumption DEF Guest!Write
  <2>5. Progress = "left" /\ Progress' = "left"
    BY <2>1 DEF Progress
  <2>6. Guest!Set
    BY <2>2, <2>4, <2>5 DEF Guest!Set
  <2> QED BY <2>6 DEF Guest!Next
<1>10. CASE NextBlock
  <2>1. phase = "exited" /\ phase' = "fetch" /\ guest' = guest
    BY <1>10 DEF NextBlock
  <2>2. Progress = "left"
    BY <2>1 DEF Progress
  <2>3. Guest!Resume
    BY <1>r, <2>1, <2>2, <1>g DEF ShowsGuest, Guest!Resume, Guest!BetweenInstructions
  <2> QED BY <2>3 DEF Guest!Next
<1> QED BY <1>1, <1>2, <1>3, <1>4, <1>5, <1>6, <1>7, <1>8, <1>9, <1>10
        DEF Next, Guest!Next

\* Translated code with a register cache executes the guest's instructions: at
\* each step the registers, read off the slots and memory, the operands and the
\* progress of the instruction are those of GuestRegisters, for any number of
\* registers and slots, any operation and blocks of any length.
THEOREM CacheImplementsRegisters == Spec => ImplementsGuestRegisters
<1>1. Init => Guest!Init
  <2> SUFFICES ASSUME Init PROVE Guest!Init
    OBVIOUS
  <2>1. ShowsGuest /\ phase = "fetch" /\ guest = [r \in Regs |-> ZeroValue]
    BY InitIInv, CacheShowsGuest DEF Init
  <2> QED BY <2>1 DEF ShowsGuest, Guest!Init
<1>2. IInv /\ IInv' /\ [Next]_vars => [Guest!Next]_(Guest!vars)
  <2>1. UNCHANGED vars => UNCHANGED Guest!vars
    BY DEF vars, cache, emitted, Guest!vars, Registers, OperandValues,
           HostValue, Executing, Progress
  <2> QED BY <2>1, GuestStep
<1> QED BY <1>1, <1>2, Inductive, PTL
        DEF Spec, ImplementsGuestRegisters, Guest!Spec

=============================================================================
