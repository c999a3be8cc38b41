-------------------------- MODULE CodeBuffer_proofs --------------------------
(***************************************************************************)
(* Theorems about CodeBuffer, for any executors, addresses, code sizes and *)
(* buffer size.  The inductive invariant says where the code is: every     *)
(* offset a thread or the table holds is the start of complete code below  *)
(* next_free_offset, and the one thread in the mutex writes only above it. *)
(***************************************************************************)
EXTENDS CodeBuffer, TLAPS

\* Complete code of w at o, in the part of the buffer that is allocated.
Stored(w, o) ==
    /\ o >= 16
    /\ Intact(w, o)
    /\ o + executable_buffer[o].size <= next_free_offset

Work(t) == IF address[t] = Trampoline THEN Trampoline ELSE BlockOf(address[t])

\* The mutex is held exactly by the thread between Lock and Unlock.
MutexInv == \A t \in Executors : at[t] \in InCall <=> mutex = t

\* Which location works on what.
LocationInv == \A t \in Executors :
    /\ at[t] = "new" => address[t] = Trampoline
    /\ at[t] \in {"get", "generate", "recheck", "publish", "dump", "run"} =>
          address[t] # Trampoline
    /\ (at[t] \in {"insert", "run"} \union InCall /\ address[t] # Trampoline)
          => Aligned(address[t])
    /\ at[t] \in {"insert", "recheck", "allocate", "copy"} =>
          size[t] \in CodeSizes
    /\ (at[t] \in {"allocate", "copy", "publish"} /\ address[t] # Trampoline)
          => block_to_offset[BlockOf(address[t])] = 0
    /\ at[t] = "copy" => Start + size[t] <= Size

\* What the table holds is stored, and its release store covers it.
TableInv == \A b \in Blocks : block_to_offset[b] # 0 =>
    /\ Stored(b, block_to_offset[b])
    /\ block_to_offset[b] \in released[b]
    /\ ~Multithreaded => \A t \in Executors : block_to_offset[b] \in seen[t]

\* What a thread was given is stored and visible to it.
EntryInv == \A t \in Executors :
    at[t] \in {"publish", "dump", "unlock", "run"} =>
        Stored(Work(t), entry[t]) /\ entry[t] \in seen[t]

\* So is its trampoline, from the end of its construction on.
ReadyInv == \A t \in Executors :
    \/ at[t] = "new"
    \/ at[t] \in {"insert", "allocate", "copy", "unlock"}
          /\ address[t] = Trampoline
    \/ Stored(Trampoline, ready[t]) /\ ready[t] \in seen[t]

\* Bytes of a block are those the table shows, or are being inserted.
OrphanAt(i) ==
    LET c == executable_buffer[i] IN
        \/ /\ block_to_offset[c.of] # 0
           /\ i >= block_to_offset[c.of]
           /\ i < block_to_offset[c.of]
                    + executable_buffer[block_to_offset[c.of]].size
        \/ \E t \in Executors :
              /\ at[t] \in {"copy", "publish"}
              /\ address[t] # Trampoline
              /\ BlockOf(address[t]) = c.of
              /\ IF at[t] = "copy" THEN i >= Start /\ i < Start + size[t]
                 ELSE i >= entry[t]
                      /\ i < entry[t] + executable_buffer[entry[t]].size
OrphanInv == \A i \in 0 .. Size - 1 :
    (executable_buffer[i] # NoCode /\ executable_buffer[i].of # Trampoline)
        => OrphanAt(i)

IInv == /\ TypeOK /\ MutexInv /\ LocationInv /\ TableInv /\ EntryInv
        /\ ReadyInv /\ OrphanInv
-----------------------------------------------------------------------------
\* AlignUp rounds up to the next multiple of 16.
LEMMA AlignUpBounds ==
    ASSUME NEW n \in Nat
    PROVE  AlignUp(n) \in Nat /\ AlignUp(n) >= n /\ AlignUp(n) <= n + 15
BY DEF AlignUp

\* An offset that fits uint32_t is not truncated.
LEMMA NoTruncation ==
    ASSUME NEW m \in Nat, NEW n \in Nat, n < m
    PROVE  n % m = n
OBVIOUS

\* Stored depends on the buffer and on next_free_offset alone.
LEMMA StoredFrame ==
    ASSUME UNCHANGED <<executable_buffer, next_free_offset>>
    PROVE  \A w, o : Stored(w, o) => Stored(w, o)'
BY DEF Stored, Intact

\* Where stored code is.
LEMMA StoredBounds ==
    ASSUME TypeOK, SizesAssumption, NEW w, NEW o, Stored(w, o)
    PROVE  /\ o \in 0 .. Size - 1 /\ o >= 16 /\ o < next_free_offset
           /\ executable_buffer[o] \in Content
           /\ executable_buffer[o].of = w
           /\ executable_buffer[o].size \in Nat \ {0}
           /\ o + executable_buffer[o].size <= next_free_offset
<1>1. /\ o \in 0 .. Size - 1 /\ o >= 16
      /\ executable_buffer[o] \in Content
      /\ executable_buffer[o].of = w
      /\ o + executable_buffer[o].size <= next_free_offset
  BY DEF Stored, Intact, TypeOK
<1>2. executable_buffer[o].size \in Nat \ {0}
  BY <1>1 DEF Content, SizesAssumption
<1>3. next_free_offset \in Nat
  BY DEF TypeOK, SizesAssumption
<1> QED BY <1>1, <1>2, <1>3 DEF SizesAssumption

\* Writing above next_free_offset keeps what is stored.
LEMMA StoredFill ==
    ASSUME TypeOK, SizesAssumption,
           NEW from \in Nat, NEW n \in Nat, NEW c,
           from >= next_free_offset,
           executable_buffer' = Fill(from, n, c),
           next_free_offset' \in Nat, next_free_offset' >= next_free_offset,
           NEW w, NEW o, Stored(w, o)
    PROVE  Stored(w, o)'
<1> DEFINE s == executable_buffer[o].size
<1>1. /\ o \in 0 .. Size - 1 /\ executable_buffer[o] \in Content
      /\ s \in Nat \ {0} /\ o + s <= next_free_offset
  BY StoredBounds
<1>2. \A i \in 0 .. Size - 1 : i < from => executable_buffer'[i] = executable_buffer[i]
  BY <1>1 DEF Fill, SizesAssumption
<1>3. \A i \in o .. o + s - 1 : i \in 0 .. Size - 1 /\ i < from
  BY <1>1 DEF TypeOK, Stored, Intact, SizesAssumption
<1>4. executable_buffer'[o] = executable_buffer[o]
  BY <1>1, <1>2, <1>3
<1>5. \A i \in o .. o + s - 1 : executable_buffer'[i] = executable_buffer[o]
  BY <1>2, <1>3 DEF Stored, Intact
<1> QED BY <1>1, <1>4, <1>5 DEF Stored, Intact, TypeOK

\* An address in range, and what a branch makes of it, has its block.
LEMMA BlockInRange ==
    ASSUME SizesAssumption, NEW a \in 0 .. MaxExecutable - 1
    PROVE  /\ BlockOf(a) \in Blocks
           /\ Masked(a) \in 0 .. MaxExecutable - 1
           /\ BlockOf(Masked(a)) = BlockOf(a)
BY DEF BlockOf, Blocks, BlockSize, Masked, SizesAssumption

-----------------------------------------------------------------------------
(***************************************************************************)
(* The invariant is preserved, action by action.                           *)
(***************************************************************************)
LEMMA InitIInv ==
    ASSUME Init
    PROVE  IInv
<1> USE SizesAssumption, AddressesAssumption, ValuesAssumption DEF Init
<1>1. TypeOK
  <2>1. code_dump \in Seq(Blocks)
    OBVIOUS
  <2>2. executable_buffer \in [0 .. Size - 1 -> Content \union {NoCode}]
    OBVIOUS
  <2>3. /\ block_to_offset \in [Blocks -> 0 .. Size]
        /\ next_free_offset \in 16 .. (Size + 16)
        /\ released \in [Blocks -> SUBSET (0 .. Size)]
    BY DEF SizesAssumption
  <2>4. /\ entry \in [Executors -> 0 .. Size]
        /\ ready \in [Executors -> 0 .. Size]
        /\ seen \in [Executors -> SUBSET (0 .. Size)]
    BY DEF SizesAssumption
  <2> QED BY <2>1, <2>2, <2>3, <2>4 DEF TypeOK, Locations, InCall, Verifies, SizesAssumption
<1>2. MutexInv BY DEF MutexInv, InCall, ValuesAssumption
<1>3. LocationInv BY DEF LocationInv, InCall
<1>4. TableInv BY DEF TableInv
<1>5. EntryInv BY DEF EntryInv
<1>6. ReadyInv BY DEF ReadyInv
<1>7. OrphanInv BY DEF OrphanInv
<1> QED BY <1>1, <1>2, <1>3, <1>4, <1>5, <1>6, <1>7 DEF IInv

LEMMA ConstructKeeps ==
    ASSUME IInv, NEW t \in Executors, Construct(t)
    PROVE  IInv'
<1> USE SizesAssumption, AddressesAssumption, ValuesAssumption,
        FlagsAssumption DEF Construct, Goto, IInv, shared, local, order
<1>0. \A w, o : Stored(w, o) => Stored(w, o)'
  BY StoredFrame
<1>1. TypeOK'
  BY DEF TypeOK, Locations, InCall, SizesAssumption, TableInv
<1>2. MutexInv'
  BY DEF MutexInv, TypeOK, InCall, ValuesAssumption
<1>3. LocationInv'
  BY DEF LocationInv, MutexInv, TypeOK, InCall, Start
<1>4. TableInv'
  BY <1>0 DEF TableInv, TypeOK
<1>5. EntryInv'
  BY <1>0 DEF EntryInv, TypeOK, Work, TableInv
<1>6. ReadyInv'
  BY <1>0 DEF ReadyInv, LocationInv, TypeOK
<1>7. OrphanInv'
  BY DEF OrphanInv, OrphanAt, TypeOK, Start
<1> QED BY <1>1, <1>2, <1>3, <1>4, <1>5, <1>6, <1>7

LEMMA RunKeeps ==
    ASSUME IInv, NEW t \in Executors, Run(t)
    PROVE  IInv'
<1> USE SizesAssumption, AddressesAssumption, ValuesAssumption,
        FlagsAssumption DEF Run, Goto, IInv, shared, local, order
<1>0. \A w, o : Stored(w, o) => Stored(w, o)'
  BY StoredFrame
<1>1. TypeOK'
  BY DEF TypeOK, Locations, InCall, SizesAssumption, TableInv
<1>2. MutexInv'
  BY DEF MutexInv, TypeOK, InCall, ValuesAssumption
<1>3. LocationInv'
  BY DEF LocationInv, MutexInv, TypeOK, InCall, Start
<1>4. TableInv'
  BY <1>0 DEF TableInv, TypeOK
<1>5. EntryInv'
  BY <1>0 DEF EntryInv, TypeOK, Work, TableInv
<1>6. ReadyInv'
  BY <1>0 DEF ReadyInv, TypeOK
<1>7. OrphanInv'
  BY DEF OrphanInv, OrphanAt, TypeOK, Start
<1> QED BY <1>1, <1>2, <1>3, <1>4, <1>5, <1>6, <1>7

LEMMA GetHitKeeps ==
    ASSUME IInv, NEW t \in Executors, GetHit(t)
    PROVE  IInv'
<1> USE SizesAssumption, AddressesAssumption, ValuesAssumption,
        FlagsAssumption DEF GetHit, Goto, IInv, shared, local, order, Acquire, Lookup
<1>0. \A w, o : Stored(w, o) => Stored(w, o)'
  BY StoredFrame
<1>a. /\ address[t] \in 0 .. MaxExecutable - 1 /\ Aligned(address[t])
      /\ BlockOf(address[t]) \in Blocks
  BY BlockInRange DEF LocationInv, TypeOK
<1>b. /\ Stored(BlockOf(address[t]), entry'[t]) /\ entry'[t] \in 0 .. Size
      /\ entry'[t] \in seen'[t]
  BY <1>a DEF TableInv, TypeOK
<1>1. TypeOK'
  BY <1>a, <1>b DEF TypeOK, Locations, InCall, SizesAssumption, TableInv
<1>2. MutexInv'
  BY DEF MutexInv, TypeOK, InCall, ValuesAssumption
<1>3. LocationInv'
  BY DEF LocationInv, MutexInv, TypeOK, InCall, Start
<1>4. TableInv'
  BY <1>0 DEF TableInv, TypeOK
<1>5. EntryInv'
  BY <1>0, <1>a, <1>b DEF EntryInv, TypeOK, Work, TableInv
<1>6. ReadyInv'
  BY <1>0 DEF ReadyInv, TypeOK
<1>7. OrphanInv'
  BY DEF OrphanInv, OrphanAt, TypeOK, Start
<1> QED BY <1>1, <1>2, <1>3, <1>4, <1>5, <1>6, <1>7

LEMMA GetMissKeeps ==
    ASSUME IInv, NEW t \in Executors, GetMiss(t)
    PROVE  IInv'
<1> USE SizesAssumption, AddressesAssumption, ValuesAssumption,
        FlagsAssumption DEF GetMiss, Goto, IInv, shared, local, order, Lookup
<1>0. \A w, o : Stored(w, o) => Stored(w, o)'
  BY StoredFrame
<1>1. TypeOK'
  BY DEF TypeOK, Locations, InCall, SizesAssumption, TableInv
<1>2. MutexInv'
  BY DEF MutexInv, TypeOK, InCall, ValuesAssumption
<1>3. LocationInv'
  BY DEF LocationInv, MutexInv, TypeOK, InCall, Start
<1>4. TableInv'
  BY <1>0 DEF TableInv, TypeOK
<1>5. EntryInv'
  BY <1>0 DEF EntryInv, TypeOK, Work, TableInv
<1>6. ReadyInv'
  BY <1>0 DEF ReadyInv, TypeOK
<1>7. OrphanInv'
  BY DEF OrphanInv, OrphanAt, TypeOK, Start
<1> QED BY <1>1, <1>2, <1>3, <1>4, <1>5, <1>6, <1>7

LEMMA GenerateKeeps ==
    ASSUME IInv, NEW t \in Executors, Generate(t)
    PROVE  IInv'
<1> USE SizesAssumption, AddressesAssumption, ValuesAssumption,
        FlagsAssumption DEF Generate, Goto, IInv, shared, local, order
<1>0. \A w, o : Stored(w, o) => Stored(w, o)'
  BY StoredFrame
<1>1. TypeOK'
  BY DEF TypeOK, Locations, InCall, SizesAssumption, TableInv
<1>2. MutexInv'
  BY DEF MutexInv, TypeOK, InCall, ValuesAssumption
<1>3. LocationInv'
  BY DEF LocationInv, MutexInv, TypeOK, InCall, Start
<1>4. TableInv'
  BY <1>0 DEF TableInv, TypeOK
<1>5. EntryInv'
  BY <1>0 DEF EntryInv, TypeOK, Work, TableInv
<1>6. ReadyInv'
  BY <1>0 DEF ReadyInv, TypeOK
<1>7. OrphanInv'
  BY DEF OrphanInv, OrphanAt, TypeOK, Start
<1> QED BY <1>1, <1>2, <1>3, <1>4, <1>5, <1>6, <1>7

LEMMA LockKeeps ==
    ASSUME IInv, NEW t \in Executors, Lock(t)
    PROVE  IInv'
<1> USE SizesAssumption, AddressesAssumption, ValuesAssumption,
        FlagsAssumption DEF Lock, Goto, IInv, shared, local, order
<1>0. \A w, o : Stored(w, o) => Stored(w, o)'
  BY StoredFrame
<1>1. TypeOK'
  BY DEF TypeOK, Locations, InCall, SizesAssumption, TableInv
<1>2. MutexInv'
  BY DEF MutexInv, TypeOK, InCall, ValuesAssumption
<1>3. LocationInv'
  BY DEF LocationInv, MutexInv, TypeOK, InCall, Start
<1>4. TableInv'
  BY <1>0 DEF TableInv, TypeOK
<1>5. EntryInv'
  BY <1>0 DEF EntryInv, TypeOK, Work, TableInv
<1>6. ReadyInv'
  BY <1>0 DEF ReadyInv, TypeOK
<1>7. OrphanInv'
  BY DEF OrphanInv, OrphanAt, TypeOK, Start
<1> QED BY <1>1, <1>2, <1>3, <1>4, <1>5, <1>6, <1>7

LEMMA RecheckHitKeeps ==
    ASSUME IInv, NEW t \in Executors, RecheckHit(t)
    PROVE  IInv'
<1> USE SizesAssumption, AddressesAssumption, ValuesAssumption,
        FlagsAssumption DEF RecheckHit, Goto, IInv, shared, local, order, Acquire, Lookup
<1>0. \A w, o : Stored(w, o) => Stored(w, o)'
  BY StoredFrame
<1>a. /\ address[t] \in 0 .. MaxExecutable - 1 /\ Aligned(address[t])
      /\ BlockOf(address[t]) \in Blocks
  BY BlockInRange DEF LocationInv, TypeOK
<1>b. /\ Stored(BlockOf(address[t]), entry'[t]) /\ entry'[t] \in 0 .. Size
      /\ entry'[t] \in seen'[t]
  BY <1>a DEF TableInv, TypeOK
<1>1. TypeOK'
  BY <1>a, <1>b DEF TypeOK, Locations, InCall, SizesAssumption, TableInv
<1>2. MutexInv'
  BY DEF MutexInv, TypeOK, InCall, ValuesAssumption
<1>3. LocationInv'
  BY DEF LocationInv, MutexInv, TypeOK, InCall, Start
<1>4. TableInv'
  BY <1>0 DEF TableInv, TypeOK
<1>5. EntryInv'
  BY <1>0, <1>a, <1>b DEF EntryInv, TypeOK, Work, TableInv
<1>6. ReadyInv'
  BY <1>0 DEF ReadyInv, TypeOK
<1>7. OrphanInv'
  BY DEF OrphanInv, OrphanAt, TypeOK, Start
<1> QED BY <1>1, <1>2, <1>3, <1>4, <1>5, <1>6, <1>7

LEMMA RecheckMissKeeps ==
    ASSUME IInv, NEW t \in Executors, RecheckMiss(t)
    PROVE  IInv'
<1> USE SizesAssumption, AddressesAssumption, ValuesAssumption,
        FlagsAssumption DEF RecheckMiss, Goto, IInv, shared, local, order, Lookup
<1>0. \A w, o : Stored(w, o) => Stored(w, o)'
  BY StoredFrame
<1>1. TypeOK'
  BY DEF TypeOK, Locations, InCall, SizesAssumption, TableInv
<1>2. MutexInv'
  BY DEF MutexInv, TypeOK, InCall, ValuesAssumption
<1>3. LocationInv'
  BY DEF LocationInv, MutexInv, TypeOK, InCall, Start
<1>4. TableInv'
  BY <1>0 DEF TableInv, TypeOK
<1>5. EntryInv'
  BY <1>0 DEF EntryInv, TypeOK, Work, TableInv
<1>6. ReadyInv'
  BY <1>0 DEF ReadyInv, TypeOK
<1>7. OrphanInv'
  BY DEF OrphanInv, OrphanAt, TypeOK, Start
<1> QED BY <1>1, <1>2, <1>3, <1>4, <1>5, <1>6, <1>7

LEMMA DumpKeeps ==
    ASSUME IInv, NEW t \in Executors, Dump(t)
    PROVE  IInv'
<1> USE SizesAssumption, AddressesAssumption, ValuesAssumption,
        FlagsAssumption DEF Dump, Goto, IInv, shared, local, order
<1>0. \A w, o : Stored(w, o) => Stored(w, o)'
  BY StoredFrame
<1>a. BlockOf(address[t]) \in Blocks
  BY BlockInRange DEF LocationInv, TypeOK
<1>b. code_dump' \in Seq(Blocks)
  BY <1>a DEF TypeOK
<1>1. TypeOK'
  BY <1>b DEF TypeOK, Locations, InCall, SizesAssumption, TableInv
<1>2. MutexInv'
  BY DEF MutexInv, TypeOK, InCall, ValuesAssumption
<1>3. LocationInv'
  BY DEF LocationInv, MutexInv, TypeOK, InCall, Start
<1>4. TableInv'
  BY <1>0 DEF TableInv, TypeOK
<1>5. EntryInv'
  BY <1>0 DEF EntryInv, TypeOK, Work, TableInv
<1>6. ReadyInv'
  BY <1>0 DEF ReadyInv, TypeOK
<1>7. OrphanInv'
  BY DEF OrphanInv, OrphanAt, TypeOK, Start
<1> QED BY <1>1, <1>2, <1>3, <1>4, <1>5, <1>6, <1>7

LEMMA BranchHitKeeps ==
    ASSUME IInv, NEW t \in Executors, BranchHit(t)
    PROVE  IInv'
<1> USE SizesAssumption, AddressesAssumption, ValuesAssumption,
        FlagsAssumption DEF Goto, IInv, shared, local, order, Acquire, Lookup
<1>a. PICK a \in GuestAddresses :
        /\ Lookup(Masked(a)) # 0
        /\ address' = [address EXCEPT ![t] = Masked(a)]
        /\ entry' = [entry EXCEPT ![t] = Lookup(Masked(a))]
        /\ IF Multithreaded THEN Acquire(t, a) ELSE UNCHANGED order
  BY DEF BranchHit
<1>b. /\ at[t] = "run" /\ at' = at
      /\ UNCHANGED <<shared, mutex, size, ready, aborted>>
  BY DEF BranchHit
<1>c. /\ Masked(a) \in 0 .. MaxExecutable - 1 /\ Aligned(Masked(a))
      /\ BlockOf(a) \in Blocks /\ BlockOf(Masked(a)) = BlockOf(a)
  BY <1>a, BlockInRange
<1>d. /\ Stored(BlockOf(Masked(a)), entry'[t]) /\ entry'[t] \in 0 .. Size
  BY <1>a, <1>c DEF TableInv, TypeOK
<1>e. /\ seen' \in [Executors -> SUBSET (0 .. Size)]
      /\ \A u \in Executors : seen[u] \subseteq seen'[u]
      /\ UNCHANGED <<released, unlocked>>
  <2>1. CASE Multithreaded
    <3>1. released[BlockOf(a)] \in SUBSET (0 .. Size)
      BY <1>c DEF TypeOK
    <3>2. /\ seen' = [seen EXCEPT ![t] = @ \union released[BlockOf(a)]]
          /\ UNCHANGED <<released, unlocked>>
      BY <2>1, <1>a
    <3> HIDE DEF Acquire
    <3> QED BY <3>1, <3>2 DEF TypeOK
  <2>2. CASE ~Multithreaded
    BY <2>2, <1>a DEF TypeOK
  <2> QED BY <2>1, <2>2
<1>f. entry'[t] \in seen'[t]
  BY <1>a, <1>c DEF TableInv, TypeOK
<1>g. address'[t] # Trampoline
  BY <1>a, <1>c DEF TypeOK
<1>0. \A w, o : Stored(w, o) => Stored(w, o)'
  BY <1>b, StoredFrame
<1>1. TypeOK'
  BY <1>a, <1>b, <1>c, <1>d, <1>e DEF TypeOK, Locations, InCall, SizesAssumption, TableInv
<1>2. MutexInv'
  BY <1>b DEF MutexInv, TypeOK, InCall, ValuesAssumption
<1>3. LocationInv'
  BY <1>a, <1>b, <1>c, <1>g DEF LocationInv, MutexInv, TypeOK, InCall, Start
<1>4. TableInv'
  BY <1>0, <1>b, <1>e DEF TableInv, TypeOK
<1>5. EntryInv'
  BY <1>0, <1>a, <1>b, <1>d, <1>e, <1>f, <1>g DEF EntryInv, TypeOK, Work, TableInv
<1>6. ReadyInv'
  BY <1>0, <1>a, <1>b, <1>e DEF ReadyInv, TypeOK
<1>7. OrphanInv'
  BY <1>a, <1>b, <1>g DEF OrphanInv, OrphanAt, TypeOK, Start
<1> QED BY <1>1, <1>2, <1>3, <1>4, <1>5, <1>6, <1>7

LEMMA BranchMissKeeps ==
    ASSUME IInv, NEW t \in Executors, BranchMiss(t)
    PROVE  IInv'
<1> USE SizesAssumption, AddressesAssumption, ValuesAssumption,
        FlagsAssumption DEF BranchMiss, Goto, IInv, shared, local, order, Lookup
<1>0. \A w, o : Stored(w, o) => Stored(w, o)'
  BY StoredFrame
<1>1. TypeOK'
  BY DEF TypeOK, Locations, InCall, SizesAssumption, TableInv
<1>2. MutexInv'
  BY DEF MutexInv, TypeOK, InCall, ValuesAssumption
<1>3. LocationInv'
  BY DEF LocationInv, MutexInv, TypeOK, InCall, Start
<1>4. TableInv'
  BY <1>0 DEF TableInv, TypeOK
<1>5. EntryInv'
  BY <1>0 DEF EntryInv, TypeOK, Work, TableInv
<1>6. ReadyInv'
  BY <1>0 DEF ReadyInv, TypeOK
<1>7. OrphanInv'
  BY DEF OrphanInv, OrphanAt, TypeOK, Start
<1> QED BY <1>1, <1>2, <1>3, <1>4, <1>5, <1>6, <1>7

LEMMA LeaveKeeps ==
    ASSUME IInv, NEW t \in Executors, Leave(t)
    PROVE  IInv'
<1> USE SizesAssumption, AddressesAssumption, ValuesAssumption,
        FlagsAssumption DEF Leave, Goto, IInv, shared, local, order
<1>0. \A w, o : Stored(w, o) => Stored(w, o)'
  BY StoredFrame
<1>1. TypeOK'
  BY DEF TypeOK, Locations, InCall, SizesAssumption, TableInv
<1>2. MutexInv'
  BY DEF MutexInv, TypeOK, InCall, ValuesAssumption
<1>3. LocationInv'
  BY DEF LocationInv, MutexInv, TypeOK, InCall, Start
<1>4. TableInv'
  BY <1>0 DEF TableInv, TypeOK
<1>5. EntryInv'
  BY <1>0 DEF EntryInv, TypeOK, Work, TableInv
<1>6. ReadyInv'
  BY <1>0 DEF ReadyInv, TypeOK
<1>7. OrphanInv'
  BY DEF OrphanInv, OrphanAt, TypeOK, Start
<1> QED BY <1>1, <1>2, <1>3, <1>4, <1>5, <1>6, <1>7

LEMMA DumpToFileKeeps ==
    ASSUME IInv, NEW t \in Executors, DumpToFile(t)
    PROVE  IInv'
<1> USE SizesAssumption, AddressesAssumption, ValuesAssumption,
        FlagsAssumption DEF DumpToFile, Goto, IInv, shared, local, order
<1>0. \A w, o : Stored(w, o) => Stored(w, o)'
  BY StoredFrame
<1>1. TypeOK'
  BY DEF TypeOK, Locations, InCall, SizesAssumption, TableInv
<1>2. MutexInv'
  BY DEF MutexInv, TypeOK, InCall, ValuesAssumption
<1>3. LocationInv'
  BY DEF LocationInv, MutexInv, TypeOK, InCall, Start
<1>4. TableInv'
  BY <1>0 DEF TableInv, TypeOK
<1>5. EntryInv'
  BY <1>0 DEF EntryInv, TypeOK, Work, TableInv
<1>6. ReadyInv'
  BY <1>0 DEF ReadyInv, TypeOK
<1>7. OrphanInv'
  BY DEF OrphanInv, OrphanAt, TypeOK, Start
<1> QED BY <1>1, <1>2, <1>3, <1>4, <1>5, <1>6, <1>7

LEMMA UnlockKeeps ==
    ASSUME IInv, NEW t \in Executors, Unlock(t)
    PROVE  IInv'
<1> USE SizesAssumption, AddressesAssumption, ValuesAssumption,
        FlagsAssumption DEF Unlock, Goto, IInv, shared, local, order
<1>0. \A w, o : Stored(w, o) => Stored(w, o)'
  BY StoredFrame
<1>1. TypeOK'
  <2>1. ready' \in [Executors -> 0 .. Size] /\ unlocked' \in SUBSET (0 .. Size)
    BY ZenonT(40) DEF TypeOK
  <2>2. at' \in [Executors -> Locations]
    BY DEF TypeOK, Locations
  <2> QED BY <2>1, <2>2 DEF TypeOK
<1>2. MutexInv'
  <2>1. at'[t] \notin InCall /\ t # NoExecutor
    BY DEF TypeOK, InCall, ValuesAssumption
  <2>2. \A u \in Executors : u # t => at[u] \notin InCall /\ at'[u] = at[u]
    BY DEF MutexInv, TypeOK, InCall
  <2> QED BY <2>1, <2>2 DEF MutexInv, ValuesAssumption
<1>3. LocationInv'
  BY DEF LocationInv, MutexInv, TypeOK, InCall, Start
<1>4. TableInv'
  BY <1>0 DEF TableInv, TypeOK
<1>5. EntryInv'
  BY <1>0 DEF EntryInv, TypeOK, Work, TableInv
<1>6. ReadyInv'
  BY <1>0 DEF ReadyInv, EntryInv, Work, TypeOK
<1>7. OrphanInv'
  BY SMTT(20) DEF OrphanInv, OrphanAt, TypeOK, Start
<1> QED BY <1>1, <1>2, <1>3, <1>4, <1>5, <1>6, <1>7

LEMMA AllocateKeeps ==
    ASSUME IInv, NEW t \in Executors, Allocate(t)
    PROVE  IInv'
<1> USE SizesAssumption, AddressesAssumption, ValuesAssumption,
        FlagsAssumption DEF Allocate, Goto, IInv, shared, local, order
<1>a. next_free_offset \in Nat /\ next_free_offset >= 16
  BY DEF TypeOK
<1>1. /\ Start \in Nat /\ Start >= next_free_offset /\ Start >= 16
      /\ size[t] \in CodeSizes /\ size[t] \in Nat
  <2>1. /\ Start \in Nat /\ Start >= next_free_offset
    BY <1>a, AlignUpBounds DEF Start
  <2>2. size[t] \in CodeSizes
    BY DEF LocationInv
  <2>3. CodeSizes \subseteq Nat
    BY DEF SizesAssumption
  <2>4. Start >= 16
    BY <1>a, <2>1
  <2> QED BY <2>1, <2>2, <2>3, <2>4
<1>2. mutex = t /\ \A u \in Executors : u # t => at[u] \notin InCall
  BY DEF MutexInv, InCall
<1>3. Code(address[t], size[t], TRUE) \in Content
  BY <1>1, BlockInRange DEF Code, Content, TypeOK, Blocks
<1>4. executable_buffer' \in [0 .. Size - 1 -> Content \union {NoCode}]
  BY <1>3 DEF Fill, TypeOK
<1>0. \A w, o : Stored(w, o) => Stored(w, o)'
  <2>1. executable_buffer' =
            Fill(Start, size[t], Code(address[t], size[t], TRUE))
    OBVIOUS
  <2>2. next_free_offset' \in Nat /\ next_free_offset' >= next_free_offset
    BY <1>a
  <2> HIDE DEF Allocate
  <2> QED BY <1>1, <2>1, <2>2, StoredFill
<1>5. \A i \in 0 .. Size - 1 :
         /\ i >= Start /\ i < Start + size[t] =>
               executable_buffer'[i] = Code(address[t], size[t], TRUE)
         /\ ~(i >= Start /\ i < Start + size[t]) =>
               executable_buffer'[i] = executable_buffer[i]
  BY <1>1 DEF Fill
<1>6. TypeOK'
  BY <1>4 DEF TypeOK, Locations, InCall
<1>7. MutexInv'
  BY <1>2 DEF MutexInv, TypeOK, InCall
<1>8. LocationInv'
  BY <1>2 DEF LocationInv, TypeOK, InCall, Start
<1>9. TableInv'
  BY <1>0 DEF TableInv, TypeOK
<1>10. EntryInv'
  BY <1>0 DEF EntryInv, TypeOK, Work
<1>11. ReadyInv'
  BY <1>0 DEF ReadyInv, TypeOK
<1>12. OrphanInv'
  <2> SUFFICES ASSUME NEW i \in 0 .. Size - 1,
                      executable_buffer'[i] # NoCode,
                      executable_buffer'[i].of # Trampoline
               PROVE  OrphanAt(i)'
    BY DEF OrphanInv
  <2>1. CASE i >= Start /\ i < Start + size[t]
    <3>1. at'[t] = "copy" /\ address'[t] # Trampoline
          /\ BlockOf(address[t]) = executable_buffer'[i].of
      <4>1. executable_buffer'[i] = Code(address[t], size[t], TRUE)
        BY <2>1, <1>5
      <4>2. address[t] # Trampoline
        BY <4>1 DEF Code
      <4> QED BY <4>1, <4>2 DEF Code, TypeOK
    <3> QED BY <3>1, <2>1 DEF OrphanAt, Start
  <2>2. CASE ~(i >= Start /\ i < Start + size[t])
    <3>1. executable_buffer'[i] = executable_buffer[i]
      BY <2>2, <1>5
    <3>2. \A u \in Executors : at[u] \notin {"copy", "publish"}
      BY <1>2 DEF InCall
    <3> DEFINE b == executable_buffer[i].of
    <3>3. block_to_offset[b] # 0 /\ i >= block_to_offset[b]
          /\ i < block_to_offset[b]
                   + executable_buffer[block_to_offset[b]].size
      BY <3>1, <3>2 DEF OrphanInv, OrphanAt
    <3>4. b \in Blocks
      BY <3>1 DEF TypeOK, Content
    <3>5. executable_buffer'[block_to_offset[b]]
            = executable_buffer[block_to_offset[b]]
      <4>1. block_to_offset[b] \in 0 .. Size - 1
            /\ block_to_offset[b] < Start
        BY <3>3, <3>4, <1>1, <1>a, StoredBounds DEF TableInv
      <4>2. Start \in Nat /\ size[t] \in Nat
        BY <1>1
      <4>3. ~(block_to_offset[b] >= Start
              /\ block_to_offset[b] < Start + size[t])
        BY <4>1, <4>2
      <4> QED BY <4>1, <4>3, <1>5
    <3> QED BY <3>1, <3>3, <3>5 DEF OrphanAt
  <2> QED BY <2>1, <2>2
<1> QED BY <1>6, <1>7, <1>8, <1>9, <1>10, <1>11, <1>12

LEMMA CopyKeeps ==
    ASSUME IInv, NEW t \in Executors, Copy(t)
    PROVE  IInv'
<1> USE SizesAssumption, AddressesAssumption, ValuesAssumption,
        FlagsAssumption DEF Copy, Goto, IInv, shared, local, order
<1>a. next_free_offset \in Nat /\ next_free_offset >= 16
  BY DEF TypeOK
<1>1. /\ Start \in Nat /\ Start >= next_free_offset /\ Start >= 16
      /\ size[t] \in CodeSizes /\ size[t] \in Nat
  <2>1. /\ Start \in Nat /\ Start >= next_free_offset
    BY <1>a, AlignUpBounds DEF Start
  <2>2. size[t] \in CodeSizes
    BY DEF LocationInv
  <2>3. CodeSizes \subseteq Nat
    BY DEF SizesAssumption
  <2>4. Start >= 16
    BY <1>a, <2>1
  <2> QED BY <2>1, <2>2, <2>3, <2>4
<1>2. mutex = t /\ \A u \in Executors : u # t => at[u] \notin InCall
  BY DEF MutexInv, InCall
<1>3. Code(address[t], size[t], FALSE) \in Content
  BY <1>1, BlockInRange DEF Code, Content, TypeOK, Blocks
<1>4. /\ Start + size[t] <= Size /\ Start < Size /\ Size \in Nat
      /\ Start % OffsetRange = Start
  <2>1. Start + size[t] <= Size /\ Size \in Nat /\ size[t] \in Nat \ {0}
        /\ OffsetRange \in Nat /\ Size <= OffsetRange
    BY <1>1 DEF LocationInv, SizesAssumption
  <2>2. Start < Size /\ Start < OffsetRange
    BY <2>1, <1>1
  <2> QED BY <2>1, <2>2, <1>1, NoTruncation
<1>5. \A i \in 0 .. Size - 1 :
         /\ i >= Start /\ i < Start + size[t] =>
               executable_buffer'[i] = Code(address[t], size[t], FALSE)
         /\ ~(i >= Start /\ i < Start + size[t]) =>
               executable_buffer'[i] = executable_buffer[i]
  BY <1>1 DEF Fill
<1>6. /\ executable_buffer' \in [0 .. Size - 1 -> Content \union {NoCode}]
      /\ next_free_offset' \in 16 .. (Size + 16)
      /\ next_free_offset' >= next_free_offset
  <2>1. executable_buffer' \in [0 .. Size - 1 -> Content \union {NoCode}]
    BY <1>3 DEF Fill, TypeOK
  <2>2. size[t] \in Nat /\ next_free_offset' = Start + size[t]
    BY <1>1
  <2>3. next_free_offset' \in 16 .. (Size + 16)
    BY <2>2, <1>1, <1>4
  <2>4. next_free_offset' >= next_free_offset
    BY <2>2, <1>1, <1>a
  <2> QED BY <2>1, <2>3, <2>4
<1>0. \A w, o : Stored(w, o) => Stored(w, o)'
  <2>1. executable_buffer' =
            Fill(Start, size[t], Code(address[t], size[t], FALSE))
    OBVIOUS
  <2>2. next_free_offset' \in Nat
    BY <1>6
  <2> HIDE DEF Copy
  <2> QED BY <1>1, <1>6, <2>1, <2>2, StoredFill
<1>7. entry'[t] = Start /\ Start \in seen'[t]
      /\ Stored(Work(t), entry[t])'
  <2>1. entry'[t] = Start /\ Start \in seen'[t]
    BY <1>4 DEF TypeOK
  <2> DEFINE c == Code(address[t], size[t], FALSE)
  <2>2. c.size = size[t] /\ ~c.torn /\ c.of = Work(t) /\ Work(t)' = Work(t)
    BY DEF Code, Work
  <2>3. Start \in 0 .. Size - 1 /\ size[t] \in Nat \ {0}
    BY <1>1, <1>4 DEF SizesAssumption
  <2>4. \A i \in Start .. Start + size[t] - 1 : executable_buffer'[i] = c
    <3>1. \A i \in Start .. Start + size[t] - 1 :
             /\ i \in 0 .. Size - 1
             /\ i >= Start /\ i < Start + size[t]
      BY <2>3, <1>4
    <3> QED BY <3>1, <1>5
  <2>5. executable_buffer'[Start] = c
    <3>1. Start \in Start .. Start + size[t] - 1
      BY <2>3
    <3> HIDE DEF c
    <3> QED BY <3>1, <2>4
  <2>6. c # NoCode
    <3>1. Content \subseteq
             [of: Nat \union {Trampoline}, size: Nat, torn: BOOLEAN]
      <4>1. Blocks \subseteq Nat
        BY DEF Blocks
      <4>2. CodeSizes \subseteq Nat
        BY DEF SizesAssumption
      <4> QED BY <4>1, <4>2 DEF Content
    <3> QED BY <1>3, <3>1 DEF ValuesAssumption
  <2>7. next_free_offset' = Start + size[t]
    OBVIOUS
  <2>8. \A w, o : (w = Work(t) /\ o = Start) => Stored(w, o)'
    <3> HIDE DEF c, Copy, IInv
    <3> SUFFICES ASSUME NEW w, NEW o, w = Work(t), o = Start
                 PROVE  Stored(w, o)'
      OBVIOUS
    <3>1. executable_buffer'[o] = c /\ o >= 16 /\ o \in 0 .. Size - 1
      BY <2>3, <2>5, <1>1
    <3>2. o + c.size <= Size /\ o + c.size <= next_free_offset'
      BY <2>2, <2>3, <2>7, <1>1, <1>4
    <3>3. \A i \in o .. o + c.size - 1 : executable_buffer'[i] = c
      BY <2>2, <2>4
    <3> QED BY <3>1, <3>2, <3>3, <2>2, <2>6 DEF Stored, Intact
  <2> QED BY <2>1, <2>2, <2>8
<1>8. TypeOK'
  <2>1. /\ entry' \in [Executors -> 0 .. Size]
        /\ seen' \in [Executors -> SUBSET (0 .. Size)]
    BY <1>1, <1>4, SMTT(20) DEF TypeOK
  <2> QED BY <1>6, <2>1 DEF TypeOK, Locations, InCall
<1>9. MutexInv'
  BY <1>2 DEF MutexInv, TypeOK, InCall
<1>10. LocationInv'
  BY <1>2 DEF LocationInv, TypeOK, InCall
<1>11. TableInv'
  BY <1>0 DEF TableInv, TypeOK
<1>12. EntryInv'
  <2>1. \A u \in Executors : u # t =>
          /\ at'[u] = at[u] /\ entry'[u] = entry[u] /\ seen'[u] = seen[u]
          /\ Work(u)' = Work(u)
    BY DEF TypeOK, Work
  <2> QED BY <1>0, <1>7, <2>1 DEF EntryInv
<1>13. ReadyInv'
  BY <1>0 DEF ReadyInv, TypeOK
<1>14. OrphanInv'
  <2> SUFFICES ASSUME NEW i \in 0 .. Size - 1,
                      executable_buffer'[i] # NoCode,
                      executable_buffer'[i].of # Trampoline
               PROVE  OrphanAt(i)'
    BY DEF OrphanInv
  <2>1. CASE i >= Start /\ i < Start + size[t]
    <3>1. executable_buffer'[i] = Code(address[t], size[t], FALSE)
      BY <2>1, <1>5
    <3>2. /\ address[t] # Trampoline
          /\ executable_buffer'[i].of = BlockOf(address[t])
      BY <3>1 DEF Code
    <3>3. at'[t] = "publish" /\ address'[t] = address[t]
      BY <3>2 DEF TypeOK
    <3>4. executable_buffer'[Start].size = size[t]
      <4>1. Start \in 0 .. Size - 1 /\ Start >= Start
        BY <1>1, <1>4
      <4>2. size[t] \in Nat \ {0}
        BY <1>1 DEF SizesAssumption
      <4>3. Start < Start + size[t]
        BY <4>1, <4>2
      <4>4. executable_buffer'[Start] = Code(address[t], size[t], FALSE)
        BY <4>1, <4>3, <1>5
      <4> QED BY <4>4 DEF Code
    <3> QED BY <2>1, <3>2, <3>3, <3>4, <1>7 DEF OrphanAt
  <2>2. CASE ~(i >= Start /\ i < Start + size[t])
    <3>1. executable_buffer'[i] = executable_buffer[i]
      BY <2>2, <1>5
    <3>2. \A u \in Executors : u # t => at[u] \notin {"copy", "publish"}
      BY <1>2 DEF InCall
    <3> DEFINE b == executable_buffer[i].of
    <3>3. block_to_offset[b] # 0 /\ i >= block_to_offset[b]
          /\ i < block_to_offset[b]
                   + executable_buffer[block_to_offset[b]].size
      BY <2>2, <3>1, <3>2 DEF OrphanInv, OrphanAt
    <3>4. b \in Blocks
      BY <3>1 DEF TypeOK, Content
    <3>5. executable_buffer'[block_to_offset[b]]
            = executable_buffer[block_to_offset[b]]
      <4>1. block_to_offset[b] \in 0 .. Size - 1
            /\ block_to_offset[b] < Start
        BY <3>3, <3>4, <1>1, <1>a, StoredBounds DEF TableInv
      <4>2. Start \in Nat /\ size[t] \in Nat
        BY <1>1
      <4>3. ~(block_to_offset[b] >= Start
              /\ block_to_offset[b] < Start + size[t])
        BY <4>1, <4>2
      <4> QED BY <4>1, <4>3, <1>5
    <3> QED BY <3>1, <3>3, <3>5 DEF OrphanAt
  <2> QED BY <2>1, <2>2
<1> QED BY <1>8, <1>9, <1>10, <1>11, <1>12, <1>13, <1>14


LEMMA PublishKeeps ==
    ASSUME IInv, NEW t \in Executors, Publish(t)
    PROVE  IInv'
<1> USE SizesAssumption, AddressesAssumption, ValuesAssumption,
        FlagsAssumption DEF Publish, Goto, IInv, shared, local, order
<1>0. \A w, o : Stored(w, o) => Stored(w, o)'
  BY StoredFrame
<1> DEFINE b == BlockOf(address[t])
<1>1. /\ address[t] # Trampoline /\ b \in Blocks
      /\ block_to_offset[b] = 0
      /\ Stored(b, entry[t]) /\ entry[t] \in seen[t]
  BY BlockInRange DEF LocationInv, EntryInv, Work, TypeOK
<1>2. mutex = t /\ \A u \in Executors : u # t => at[u] \notin InCall
  BY DEF MutexInv, InCall
<1>3. entry[t] >= 16 /\ entry[t] \in 0 .. Size
  BY <1>1 DEF Stored, TypeOK
<1>4. TypeOK'
  BY <1>1, <1>3 DEF TypeOK, Locations, InCall
<1>5. MutexInv'
  BY <1>2 DEF MutexInv, TypeOK, InCall
<1>6. LocationInv'
  BY <1>2 DEF LocationInv, TypeOK, InCall, Start
<1>7. TableInv'
  <2> SUFFICES ASSUME NEW d \in Blocks, block_to_offset'[d] # 0
               PROVE  /\ Stored(d, block_to_offset[d])'
                      /\ block_to_offset'[d] \in released'[d]
                      /\ ~Multithreaded =>
                           \A u \in Executors : block_to_offset'[d] \in seen'[u]
    BY DEF TableInv
  <2>1. CASE d = b
    BY <2>1, <1>0, <1>1 DEF TypeOK, FlagsAssumption
  <2>2. CASE d # b
    BY <2>2, <1>0, <1>1 DEF TypeOK, TableInv
  <2> QED BY <2>1, <2>2
<1>8. EntryInv'
  BY <1>0 DEF EntryInv, TypeOK, Work
<1>9. ReadyInv'
  BY <1>0 DEF ReadyInv, TypeOK
<1>10. OrphanInv'
  <2> SUFFICES ASSUME NEW i \in 0 .. Size - 1,
                      executable_buffer[i] # NoCode,
                      executable_buffer[i].of # Trampoline
               PROVE  OrphanAt(i)'
    BY DEF OrphanInv
  <2>1. OrphanAt(i)
    BY DEF OrphanInv
  <2>2. executable_buffer[i].of \in Blocks
    BY DEF TypeOK, Content
  <2>3. CASE executable_buffer[i].of # b
    BY <2>1, <2>2, <2>3, <1>2 DEF OrphanAt, InCall, TypeOK
  <2>4. CASE executable_buffer[i].of = b
    <3>1. /\ i >= entry[t]
          /\ i < entry[t] + executable_buffer[entry[t]].size
      BY <2>1, <2>4, <1>1, <1>2 DEF OrphanAt, InCall
    <3> QED BY <3>1, <2>4, <1>1, <1>3 DEF OrphanAt, TypeOK
  <2> QED BY <2>3, <2>4
<1> QED BY <1>4, <1>5, <1>6, <1>7, <1>8, <1>9, <1>10

\* A failed verify() stops the process and changes nothing else.
LEMMA StoppedKeeps ==
    ASSUME IInv, aborted' \in Verifies,
           UNCHANGED <<shared, mutex, local, order>>
    PROVE  IInv'
<1> USE DEF IInv, shared, local, order
<1>0. \A w, o : Stored(w, o) => Stored(w, o)'
  BY StoredFrame
<1>1. TypeOK' BY DEF TypeOK
<1>2. MutexInv' BY DEF MutexInv
<1>3. LocationInv' BY DEF LocationInv, Start
<1>4. TableInv' BY <1>0 DEF TableInv
<1>5. EntryInv' BY <1>0 DEF EntryInv, Work
<1>6. ReadyInv' BY <1>0 DEF ReadyInv
<1>7. OrphanInv' BY DEF OrphanInv, OrphanAt, Start
<1> QED BY <1>1, <1>2, <1>3, <1>4, <1>5, <1>6, <1>7

LEMMA NextKeeps ==
    ASSUME IInv, [Next]_vars
    PROVE  IInv'
<1>1. ASSUME NEW t \in Executors, Step(t)
      PROVE  IInv'
  <2>1. CASE Translate(t)
    <3>1. CASE GenerateMisaligned(t)
      BY <3>1, StoppedKeeps DEF GenerateMisaligned, Abort, Verifies
    <3> QED BY <2>1, <3>1, GetHitKeeps, GetMissKeeps, GenerateKeeps
            DEF Translate
  <2>2. CASE Insert(t)
    <3>1. CASE OutOfMemory(t)
      BY <3>1, StoppedKeeps DEF OutOfMemory, Abort, Verifies
    <3> QED BY <2>2, <3>1, LockKeeps, RecheckHitKeeps, RecheckMissKeeps,
               AllocateKeeps, CopyKeeps, PublishKeeps, DumpKeeps, UnlockKeeps
            DEF Insert
  <2>3. CASE DumpToFileAgain(t)
    BY <2>3, StoppedKeeps DEF DumpToFileAgain, Abort, Verifies
  <2> QED BY <1>1, <2>1, <2>2, <2>3, ConstructKeeps, RunKeeps, BranchHitKeeps,
             BranchMissKeeps, LeaveKeeps, DumpToFileKeeps DEF Step
<1>2. ASSUME UNCHANGED vars
      PROVE  IInv'
  BY <1>2, StoppedKeeps DEF vars, IInv, TypeOK
<1> QED BY <1>1, <1>2 DEF Next, Stopped

-----------------------------------------------------------------------------
\* In every reachable state the code is where the inductive invariant says.
THEOREM Inductive == Spec => []IInv
<1>1. Init => IInv BY InitIInv
<1>2. IInv /\ [Next]_vars => IInv' BY NextKeeps
<1> QED BY <1>1, <1>2, PTL DEF Spec

\* Every variable keeps its type.
THEOREM TypeCorrect == Spec => []TypeOK
<1>1. IInv => TypeOK BY DEF IInv
<1> QED BY <1>1, Inductive, PTL

\* A thread in translated code runs the complete code of its block, entered
\* through its own trampoline (get and branches are not under the mutex).
THEOREM ExecutionCorrect == Spec => []RunsItsBlock
<1>1. IInv => RunsItsBlock
  BY DEF IInv, EntryInv, ReadyInv, LocationInv, RunsItsBlock, Stored, Work
<1> QED BY <1>1, Inductive, PTL

\* The table never shows a block whose code is not complete.
THEOREM PublicationCorrect == Spec => []PublishedIsComplete
<1>1. IInv => PublishedIsComplete
  BY DEF IInv, TableInv, PublishedIsComplete, Stored
<1> QED BY <1>1, Inductive, PTL

\* Every block that runs happens before its run: with plain loads in the
\* branches for one thread, with acquire loads for any number.
THEOREM VisibilityCorrect == Spec => []RunsWhatItSees
<1>1. IInv => RunsWhatItSees
  BY DEF IInv, EntryInv, ReadyInv, LocationInv, RunsWhatItSees
<1> QED BY <1>1, Inductive, PTL

\* A free mutex leaves no code that nothing points to.
THEOREM AllocationCorrect == Spec => []NoOrphans
<1>1. ASSUME IInv, mutex = NoExecutor,
             NEW i \in 0 .. Size - 1,
             executable_buffer[i] # NoCode,
             executable_buffer[i].of # Trampoline
      PROVE  LET c == executable_buffer[i] IN
             /\ block_to_offset[c.of] # 0
             /\ i \in block_to_offset[c.of] ..
                        block_to_offset[c.of] + c.size - 1
  <2> DEFINE b == executable_buffer[i].of
             o == block_to_offset[b]
             n == executable_buffer[o].size
  <2>1. \A t \in Executors : at[t] \notin {"copy", "publish"}
    BY <1>1, ValuesAssumption DEF IInv, MutexInv, InCall
  <2>2. o # 0 /\ i >= o /\ i < o + n
    BY <1>1, <2>1 DEF IInv, OrphanInv, OrphanAt
  <2>3. b \in Blocks
    BY <1>1 DEF IInv, TypeOK, Content
  <2>4. Stored(b, o)
    BY <1>1, <2>2, <2>3 DEF IInv, TableInv
  <2>5. o \in Nat /\ n \in Nat
    BY <1>1, <2>4, StoredBounds, SizesAssumption DEF IInv
  <2>6. i \in o .. o + n - 1
    BY <2>2, <2>5
  <2>7. executable_buffer[i] = executable_buffer[o]
    BY <2>4, <2>6 DEF Stored, Intact
  <2> QED BY <2>2, <2>6, <2>7
<1>2. IInv => NoOrphans
  BY <1>1 DEF NoOrphans
<1> QED BY <1>2, Inductive, PTL

-----------------------------------------------------------------------------
\* The bytes of a block in the table are below next_free_offset.
LEMMA BytesBelow ==
    ASSUME IInv, NEW b \in Blocks, block_to_offset[b] # 0,
           NEW i \in 0 .. Size - 1,
           executable_buffer[i] # NoCode, executable_buffer[i].of = b
    PROVE  i < next_free_offset
<1>1. b # Trampoline /\ OrphanAt(i)
  BY ValuesAssumption DEF IInv, OrphanInv, Blocks
<1>2. \A t \in Executors :
         at[t] \in {"copy", "publish"} /\ address[t] # Trampoline =>
             BlockOf(address[t]) # b
  BY DEF IInv, LocationInv
<1> DEFINE o == block_to_offset[b]
<1>3. i < o + executable_buffer[o].size
  BY <1>1, <1>2 DEF OrphanAt
<1>4. Stored(b, o)
  BY DEF IInv, TableInv
<1>5. /\ o + executable_buffer[o].size <= next_free_offset
      /\ o \in Nat /\ executable_buffer[o].size \in Nat
  BY <1>4, StoredBounds, SizesAssumption DEF IInv
<1>6. next_free_offset \in Nat
  BY DEF IInv, TypeOK
<1> HIDE DEF o
<1> QED BY <1>3, <1>5, <1>6

\* The table entries and the code bytes of a translated block never change.
THEOREM TranslationsFinal == Spec => TranslationsAreFinal
<1>1. ASSUME IInv, NEW t \in Executors, NEW c, NEW b \in Blocks,
             block_to_offset[b] # 0,
             executable_buffer' = Fill(Start, size[t], c),
             NEW i \in 0 .. Size - 1,
             executable_buffer[i] # NoCode, executable_buffer[i].of = b
      PROVE  executable_buffer'[i] = executable_buffer[i]
  <2>1. next_free_offset \in Nat
    BY <1>1 DEF IInv, TypeOK
  <2>2. Start \in Nat /\ Start >= next_free_offset
    BY <2>1, AlignUpBounds DEF Start
  <2>3. ~(Start <= i)
    BY <1>1, <2>1, <2>2, BytesBelow
  <2> QED BY <1>1, <2>3 DEF Fill
<1>2. ASSUME IInv, NEW t \in Executors, Step(t)
      PROVE  Final
  <2>1. CASE Allocate(t)
    <3>1. block_to_offset' = block_to_offset
      BY <2>1 DEF Allocate
    <3>2. executable_buffer'
            = Fill(Start, size[t], Code(address[t], size[t], TRUE))
      BY <2>1 DEF Allocate
    <3> QED BY <1>1, <1>2, <3>1, <3>2 DEF Final
  <2>2. CASE Copy(t)
    <3>1. block_to_offset' = block_to_offset
      BY <2>2 DEF Copy
    <3>2. executable_buffer'
            = Fill(Start, size[t], Code(address[t], size[t], FALSE))
      BY <2>2 DEF Copy
    <3> QED BY <1>1, <1>2, <3>1, <3>2 DEF Final
  <2>3. CASE Publish(t)
    <3>1. block_to_offset[BlockOf(address[t])] = 0
      BY <1>2, <2>3 DEF Publish, Goto, IInv, LocationInv
    <3> QED BY <1>2, <2>3, <3>1 DEF Publish, Final, IInv, TypeOK
  <2>4. CASE UNCHANGED <<block_to_offset, executable_buffer>>
    BY <2>4 DEF Final
  <2>5. CASE Translate(t)
    BY <2>4, <2>5 DEF Translate, GetHit, GetMiss, Generate,
       GenerateMisaligned, Abort, shared
  <2>6. CASE Insert(t)
    BY <2>1, <2>2, <2>3, <2>4, <2>6 DEF Insert, Lock, RecheckHit, RecheckMiss,
       OutOfMemory, Dump, Unlock, Abort, shared
  <2> QED BY <1>2, <2>4, <2>5, <2>6 DEF Step, Construct, Run, BranchHit,
          BranchMiss, Leave, DumpToFile, DumpToFileAgain, Abort, shared
<1>3. IInv /\ [Next]_vars => [Final]_vars
  BY <1>2 DEF Next, Stopped
<1> QED BY <1>3, Inductive, PTL DEF Spec, TranslationsAreFinal

-----------------------------------------------------------------------------
\* What is about to be dumped is in the table, and is not in the dump.
DumpInv ==
    /\ DumpedOnce
    /\ \A t \in Executors : at[t] = "dump" =>
          /\ block_to_offset[BlockOf(address[t])] # 0
          /\ \A i \in DOMAIN code_dump : code_dump[i] # BlockOf(address[t])

LEMMA DumpStep ==
    ASSUME IInv, DumpInv, NEW t \in Executors, Dump(t)
    PROVE  DumpInv'
<1> DEFINE b == BlockOf(address[t])
<1>1. /\ at[t] = "dump" /\ at' = [at EXCEPT ![t] = "unlock"]
      /\ block_to_offset' = block_to_offset /\ address' = address
      /\ code_dump' = IF dump_enabled THEN Append(code_dump, b) ELSE code_dump
  BY DEF Dump, Goto
<1>2. /\ block_to_offset[b] # 0
      /\ \A i \in DOMAIN code_dump : code_dump[i] # b
  BY <1>1 DEF DumpInv
<1>3. \A u \in Executors : at'[u] # "dump"
  BY <1>1 DEF IInv, MutexInv, InCall, TypeOK
<1>4. DumpedOnce'
  <2>1. code_dump \in Seq(Blocks) /\ Len(code_dump) \in Nat /\ b \in Blocks
    BY <1>1, BlockInRange, SizesAssumption DEF IInv, TypeOK, LocationInv
  <2>2. CASE dump_enabled
    <3>1. /\ DOMAIN code_dump = 1 .. Len(code_dump)
          /\ DOMAIN code_dump' = 1 .. Len(code_dump) + 1
          /\ \A i \in DOMAIN code_dump : code_dump'[i] = code_dump[i]
          /\ code_dump'[Len(code_dump) + 1] = b
      BY <1>1, <2>1, <2>2
    <3>2. \A i \in DOMAIN code_dump' :
             i \in DOMAIN code_dump \/ i = Len(code_dump) + 1
      BY <2>1, <3>1
    <3> HIDE DEF b
    <3> QED BY <1>1, <1>2, <3>1, <3>2 DEF DumpInv, DumpedOnce
  <2>3. CASE ~dump_enabled
    BY <1>1, <2>3 DEF DumpInv, DumpedOnce
  <2> QED BY <2>2, <2>3
<1> QED BY <1>3, <1>4 DEF DumpInv

LEMMA PublishThenDump ==
    ASSUME IInv, DumpInv, NEW t \in Executors, Publish(t)
    PROVE  DumpInv'
<1> DEFINE b == BlockOf(address[t])
<1>1. /\ at[t] = "publish" /\ at' = [at EXCEPT ![t] = "dump"]
      /\ block_to_offset' = [block_to_offset EXCEPT ![b] = entry[t]]
      /\ address' = address /\ code_dump' = code_dump
  BY DEF Publish, Goto
<1>2. /\ address[t] # Trampoline /\ b \in Blocks /\ block_to_offset[b] = 0
      /\ entry[t] # 0
  BY <1>1, BlockInRange, SizesAssumption
  DEF IInv, TypeOK, LocationInv, EntryInv, Stored
<1>3. \A i \in DOMAIN code_dump : code_dump[i] # b
  BY <1>2 DEF DumpInv, DumpedOnce
<1>4. /\ block_to_offset'[b] # 0
      /\ \A d \in Blocks : block_to_offset[d] # 0 => block_to_offset'[d] # 0
  BY <1>1, <1>2 DEF IInv, TypeOK
<1>5. DumpedOnce'
  <2>1. \A i \in DOMAIN code_dump : code_dump[i] \in Blocks
    BY DEF IInv, TypeOK
  <2> QED BY <1>1, <1>4, <2>1 DEF DumpInv, DumpedOnce
<1>6. \A u \in Executors : at'[u] = "dump" => u = t
  BY <1>1 DEF IInv, MutexInv, InCall, TypeOK
<1> QED BY <1>1, <1>3, <1>4, <1>5, <1>6 DEF DumpInv

\* No other step dumps, or gives a thread something to dump.
LEMMA NotDumping ==
    ASSUME IInv, DumpInv, NEW t \in Executors,
           UNCHANGED <<block_to_offset, code_dump>>,
           \/ UNCHANGED <<at, address>>
           \/ /\ at[t] # "dump"
              /\ \E l \in Locations \ {"dump"} : at' = [at EXCEPT ![t] = l]
              /\ address' = address \/ \E a : address' = [address EXCEPT ![t] = a]
    PROVE  DumpInv'
<1>1. DumpedOnce'
  BY DEF DumpInv, DumpedOnce
<1>2. ASSUME NEW u \in Executors, at'[u] = "dump"
      PROVE  at[u] = "dump" /\ address'[u] = address[u]
  BY <1>2 DEF IInv, TypeOK
<1> QED BY <1>1, <1>2 DEF DumpInv

LEMMA DumpInvStep ==
    ASSUME IInv, DumpInv, NEW t \in Executors, Step(t)
    PROVE  DumpInv'
<1> USE DEF Goto, Locations, InCall
<1>1. CASE Dump(t)  BY <1>1, DumpStep
<1>2. CASE Publish(t)  BY <1>2, PublishThenDump
<1>3. CASE UNCHANGED <<block_to_offset, code_dump, at, address>>
  BY <1>3, NotDumping
<1>4. CASE Construct(t)  BY <1>4, NotDumping DEF Construct, shared
<1>5. CASE Run(t)  BY <1>5, NotDumping DEF Run, shared
<1>6. CASE GetHit(t) \/ GetMiss(t) \/ Generate(t)
  BY <1>6, NotDumping DEF GetHit, GetMiss, Generate, shared
<1>7. CASE Lock(t) \/ RecheckHit(t) \/ RecheckMiss(t)
  BY <1>7, NotDumping DEF Lock, RecheckHit, RecheckMiss, shared
<1>8. CASE Allocate(t) \/ Copy(t) \/ Unlock(t)
  BY <1>8, NotDumping DEF Allocate, Copy, Unlock, shared
<1>9. CASE BranchHit(t)
  <2>1. UNCHANGED <<block_to_offset, code_dump>> /\ at' = at /\ at[t] = "run"
    BY <1>9 DEF BranchHit, shared
  <2>2. \E a : address' = [address EXCEPT ![t] = a]
    BY <1>9 DEF BranchHit
  <2>3. at' = [at EXCEPT ![t] = "run"]
    BY <2>1 DEF IInv, TypeOK
  <2> QED BY <2>1, <2>2, <2>3, NotDumping
<1>10. CASE BranchMiss(t)
  BY <1>10, NotDumping DEF BranchMiss, shared
<1>11. CASE Leave(t)  BY <1>11, NotDumping DEF Leave, shared
<1>12. CASE DumpToFile(t)  BY <1>12, NotDumping DEF DumpToFile, local
<1>13. CASE GenerateMisaligned(t) \/ OutOfMemory(t) \/ DumpToFileAgain(t)
  BY <1>3, <1>13
  DEF GenerateMisaligned, OutOfMemory, DumpToFileAgain, Abort, shared, local
<1>14. CASE Translate(t)  BY <1>6, <1>13, <1>14 DEF Translate
<1>15. CASE Insert(t)
  BY <1>1, <1>2, <1>7, <1>8, <1>13, <1>15 DEF Insert
<1> QED
  BY <1>4, <1>5, <1>9, <1>10, <1>11, <1>12, <1>13, <1>14, <1>15 DEF Step

\* No block is dumped twice, and what is dumped is in the table, whichever
\* executor translated it and whenever dumping was enabled.
THEOREM DumpCorrect == Spec => []DumpedOnce
<1>1. Init => DumpInv
  BY DEF Init, DumpInv, DumpedOnce
<1>2. IInv /\ DumpInv /\ [Next]_vars => DumpInv'
  <2>1. IInv /\ DumpInv /\ UNCHANGED vars => DumpInv'
    BY DEF vars, shared, local, DumpInv, DumpedOnce
  <2> QED BY <2>1, DumpInvStep DEF Next, Stopped
<1>3. DumpInv => DumpedOnce  BY DEF DumpInv
<1> QED BY <1>1, <1>2, <1>3, Inductive, PTL DEF Spec

-----------------------------------------------------------------------------
(***************************************************************************)
(* CodeBuffer implements TranslationCache.  Asked and Held are what the    *)
(* refinement mapping makes of the threads' locations.                     *)
(***************************************************************************)
AskedBy(t) == IF Asking(t) \/ Holding(t) THEN BlockOf(address[t]) ELSE -1
HeldBy(t) == IF Holding(t) THEN entry[t] ELSE 0
Asked == [t \in Executors |-> AskedBy(t)]
Held == [t \in Executors |-> HeldBy(t)]

\* A step maps to a step of the cache when it does so for its own thread.
LEMMA OneThread ==
    ASSUME IInv, NEW t \in Executors, NEW l, NEW a, NEW o,
           at' = [at EXCEPT ![t] = l] \/ (at' = at /\ l = at[t]),
           address' = [address EXCEPT ![t] = a] \/ (address' = address /\ a = address[t]),
           entry' = [entry EXCEPT ![t] = o] \/ (entry' = entry /\ o = entry[t])
    PROVE  /\ at'[t] = l /\ address'[t] = a /\ entry'[t] = o
           /\ Asked' = [Asked EXCEPT ![t] = AskedBy(t)']
           /\ Held' = [Held EXCEPT ![t] = HeldBy(t)']
<1>1. at'[t] = l /\ address'[t] = a /\ entry'[t] = o
  BY DEF IInv, TypeOK
<1>2. \A u \in Executors : u # t =>
         at'[u] = at[u] /\ address'[u] = address[u] /\ entry'[u] = entry[u]
  BY DEF IInv, TypeOK
<1>3. \A u \in Executors : u # t =>
         AskedBy(u)' = AskedBy(u) /\ HeldBy(u)' = HeldBy(u)
  BY <1>2 DEF AskedBy, HeldBy, Asking, Holding
<1>4. Asked' = [Asked EXCEPT ![t] = AskedBy(t)']
  BY <1>3 DEF Asked
<1>5. Held' = [Held EXCEPT ![t] = HeldBy(t)']
  BY <1>3 DEF Held
<1> QED BY <1>1, <1>4, <1>5

\* What a thread that holds a translation holds.
LEMMA HeldTypes ==
    ASSUME IInv, NEW t \in Executors
    PROVE  /\ Asking(t) \/ Holding(t) => BlockOf(address[t]) \in Blocks
           /\ Holding(t) => entry[t] \in 1 .. Size
           /\ Blocks \subseteq Nat
<1>1. ASSUME Asking(t) \/ Holding(t)
      PROVE  BlockOf(address[t]) \in Blocks
  BY <1>1, BlockInRange, SizesAssumption
  DEF Asking, Holding, IInv, TypeOK
<1>2. ASSUME Holding(t)
      PROVE  entry[t] \in 1 .. Size
  <2>1. entry[t] \in 0 .. Size /\ entry[t] >= 16
    BY <1>2 DEF Holding, IInv, TypeOK, EntryInv, Stored
  <2> QED BY <2>1, SizesAssumption
<1> QED BY <1>1, <1>2 DEF Blocks

CacheVars == <<block_to_offset, Asked, Held>>

\* A step that asks, and finds.
LEMMA FoundStep ==
    ASSUME IInv, NEW t \in Executors, GetHit(t) \/ RecheckHit(t)
    PROVE  Cache!Next
<1> DEFINE b == BlockOf(address[t])
<1> PICK l \in {"run", "unlock"} : at' = [at EXCEPT ![t] = l]
  BY DEF GetHit, RecheckHit, Goto
<1>1. /\ at[t] \in {"get", "recheck"} /\ Lookup(address[t]) # 0
      /\ entry' = [entry EXCEPT ![t] = Lookup(address[t])]
      /\ address' = address /\ block_to_offset' = block_to_offset
  BY DEF GetHit, RecheckHit, Goto, shared
<1>2. address[t] # Trampoline
  BY <1>1 DEF IInv, LocationInv
<1>3. Asking(t) /\ ~Holding(t)
  BY <1>1, <1>2 DEF Asking, Holding
<1>4. Lookup(address[t]) = block_to_offset[b] /\ block_to_offset[b] # 0
  BY <1>1 DEF Lookup
<1>5. /\ at'[t] = l /\ address'[t] = address[t]
      /\ entry'[t] = block_to_offset[b]
      /\ Asked' = [Asked EXCEPT ![t] = AskedBy(t)']
      /\ Held' = [Held EXCEPT ![t] = HeldBy(t)']
  BY <1>1, <1>4, OneThread
<1>6. Holding(t)'
  BY <1>2, <1>5 DEF Holding
<1>7. /\ AskedBy(t)' = b /\ AskedBy(t) = b
      /\ HeldBy(t)' = block_to_offset[b] /\ HeldBy(t) = 0
  BY <1>3, <1>5, <1>6 DEF AskedBy, HeldBy
<1>8. Asked[t] = b /\ Held[t] = 0 /\ b \in Nat
  BY <1>3, <1>7, HeldTypes DEF Asked, Held
<1>9. Asked' = Asked
  BY <1>5, <1>7, <1>8 DEF Asked
<1>10. Held' = [Held EXCEPT ![t] = block_to_offset[Asked[t]]]
  BY <1>5, <1>7, <1>8
<1>11. Cache!Found(t)
  BY <1>1, <1>4, <1>8, <1>9, <1>10
  DEF Cache!Found, Asked, Held, AskedBy, HeldBy
<1> QED BY <1>11 DEF Cache!Next

\* The step that translates: no other block has the new offset, for what is
\* stored there is the code of this one.
LEMMA TranslatedStep ==
    ASSUME IInv, NEW t \in Executors, Publish(t)
    PROVE  Cache!Next
<1> DEFINE b == BlockOf(address[t])
<1>1. /\ at[t] = "publish" /\ at' = [at EXCEPT ![t] = "dump"]
      /\ block_to_offset' = [block_to_offset EXCEPT ![b] = entry[t]]
      /\ address' = address /\ entry' = entry
  BY DEF Publish, Goto
<1>2. /\ address[t] # Trampoline /\ block_to_offset[b] = 0 /\ b \in Blocks
      /\ Stored(b, entry[t]) /\ entry[t] \in 1 .. Size
  <2>1. address[t] # Trampoline /\ block_to_offset[b] = 0
    BY <1>1 DEF IInv, LocationInv
  <2>2. b \in Blocks
    BY <1>1, <2>1, HeldTypes DEF Asking
  <2>3. Stored(b, entry[t])
    BY <1>1, <2>1 DEF IInv, EntryInv, Work
  <2>4. entry[t] >= 16 /\ entry[t] \in 0 .. Size
    BY <2>3 DEF Stored, IInv, TypeOK
  <2> QED BY <2>1, <2>2, <2>3, <2>4, SizesAssumption
<1>3. \A d \in Blocks : block_to_offset[d] # entry[t]
  <2> SUFFICES ASSUME NEW d \in Blocks, block_to_offset[d] = entry[t]
               PROVE  FALSE
    OBVIOUS
  <2>1. Stored(d, entry[t])
    BY <1>2 DEF IInv, TableInv
  <2> QED BY <1>2, <2>1 DEF Stored, Intact
<1>4. /\ at'[t] = "dump" /\ address'[t] = address[t] /\ entry'[t] = entry[t]
      /\ Asked' = [Asked EXCEPT ![t] = AskedBy(t)']
      /\ Held' = [Held EXCEPT ![t] = HeldBy(t)']
  BY <1>1, OneThread
<1>5. Asking(t) /\ ~Holding(t) /\ Holding(t)'
  BY <1>1, <1>2, <1>4 DEF Asking, Holding
<1>6. /\ AskedBy(t)' = b /\ AskedBy(t) = b
      /\ HeldBy(t)' = entry[t] /\ HeldBy(t) = 0
  BY <1>4, <1>5 DEF AskedBy, HeldBy
<1>7. Asked[t] = b /\ Held[t] = 0 /\ b # -1
  BY <1>2, <1>6, HeldTypes DEF Asked, Held
<1>8. Asked' = Asked
  BY <1>4, <1>6, <1>7 DEF Asked
<1>9. Held' = [Held EXCEPT ![t] = entry[t]]
  BY <1>4, <1>6
<1> HIDE DEF b
<1>10. Cache!Translated(t)
  BY <1>1, <1>2, <1>3, <1>7, <1>8, <1>9
  DEF Cache!Translated, Asked, Held, AskedBy, HeldBy, b
<1> QED BY <1>10 DEF Cache!Next

\* A step to a question.
LEMMA AskStep ==
    ASSUME IInv, NEW t \in Executors, Run(t) \/ BranchMiss(t)
    PROVE  Cache!Next
<1>1. /\ at' = [at EXCEPT ![t] = "get"]
      /\ entry' = entry /\ block_to_offset' = block_to_offset
  BY DEF Run, BranchMiss, Goto, shared
<1>2. PICK a \in GuestAddresses : address' = [address EXCEPT ![t] = a]
  BY AddressesAssumption DEF Run, BranchMiss
<1>3. /\ at'[t] = "get" /\ address'[t] = a
      /\ Asked' = [Asked EXCEPT ![t] = AskedBy(t)']
      /\ Held' = [Held EXCEPT ![t] = HeldBy(t)']
  BY <1>1, <1>2, OneThread
<1>4. a # Trampoline /\ BlockOf(a) \in Blocks
  <2>1. a \in 0 .. MaxExecutable - 1  BY AddressesAssumption
  <2> QED BY <2>1, BlockInRange, SizesAssumption, ValuesAssumption
<1>5. AskedBy(t)' = BlockOf(a) /\ HeldBy(t)' = 0
  BY <1>3, <1>4 DEF AskedBy, HeldBy, Asking, Holding
<1>6. Cache!Ask(t)
  BY <1>1, <1>3, <1>4, <1>5 DEF Cache!Ask, Asked, Held, AskedBy, HeldBy
<1> QED BY <1>6 DEF Cache!Next

\* Translated code goes from its block to another one.
LEMMA FollowStep ==
    ASSUME IInv, NEW t \in Executors, BranchHit(t)
    PROVE  Cache!Next
<1>1. /\ at[t] = "run" /\ at' = at /\ block_to_offset' = block_to_offset
  BY DEF BranchHit, shared
<1>2. PICK a \in GuestAddresses :
         /\ Lookup(Masked(a)) # 0
         /\ address' = [address EXCEPT ![t] = Masked(a)]
         /\ entry' = [entry EXCEPT ![t] = Lookup(Masked(a))]
  BY DEF BranchHit
<1> DEFINE b == BlockOf(Masked(a))
<1>3. /\ Masked(a) # Trampoline /\ b \in Blocks
      /\ Lookup(Masked(a)) = block_to_offset[b]
  <2>1. a \in 0 .. MaxExecutable - 1  BY AddressesAssumption
  <2>2. Masked(a) \in Nat /\ b \in Blocks
    BY <2>1, BlockInRange, SizesAssumption
  <2>3. Lookup(Masked(a)) = block_to_offset[b]  BY <1>2 DEF Lookup
  <2> QED BY <2>2, <2>3, ValuesAssumption
<1>4. address[t] # Trampoline
  BY <1>1 DEF IInv, LocationInv
<1>5. /\ at'[t] = "run" /\ address'[t] = Masked(a)
      /\ entry'[t] = block_to_offset[b]
      /\ Asked' = [Asked EXCEPT ![t] = AskedBy(t)']
      /\ Held' = [Held EXCEPT ![t] = HeldBy(t)']
  <2> DEFINE m == Masked(a)
             o == block_to_offset[b]
  <2>1. /\ address' = [address EXCEPT ![t] = m]
        /\ entry' = [entry EXCEPT ![t] = o]
    BY <1>2, <1>3
  <2> HIDE DEF m, o
  <2>2. /\ at'[t] = "run" /\ address'[t] = m /\ entry'[t] = o
        /\ Asked' = [Asked EXCEPT ![t] = AskedBy(t)']
        /\ Held' = [Held EXCEPT ![t] = HeldBy(t)']
    BY <1>1, <2>1, OneThread
  <2> QED BY <2>2 DEF m, o
<1>6. Holding(t) /\ Holding(t)'
  BY <1>1, <1>3, <1>4, <1>5 DEF Holding
<1>7. AskedBy(t)' = b /\ HeldBy(t)' = block_to_offset[b]
  BY <1>5, <1>6 DEF AskedBy, HeldBy
<1>8. Held[t] # 0
  BY <1>6, HeldTypes DEF Held, HeldBy
<1>9. block_to_offset[b] # 0  BY <1>2, <1>3
<1> HIDE DEF b
<1>10. Cache!Follow(t)
  BY <1>1, <1>3, <1>5, <1>7, <1>8, <1>9
  DEF Cache!Follow, Asked, Held, AskedBy, HeldBy
<1> QED BY <1>10 DEF Cache!Next

LEMMA DropStep ==
    ASSUME IInv, NEW t \in Executors, Leave(t)
    PROVE  Cache!Next
<1>1. /\ at[t] = "run" /\ at' = [at EXCEPT ![t] = "idle"]
      /\ address' = address /\ entry' = entry
      /\ block_to_offset' = block_to_offset
  BY DEF Leave, Goto, shared
<1>2. address[t] # Trampoline
  BY <1>1 DEF IInv, LocationInv
<1>3. /\ at'[t] = "idle"
      /\ Asked' = [Asked EXCEPT ![t] = AskedBy(t)']
      /\ Held' = [Held EXCEPT ![t] = HeldBy(t)']
  BY <1>1, OneThread
<1>4. AskedBy(t)' = -1 /\ HeldBy(t)' = 0
  BY <1>3 DEF AskedBy, HeldBy, Asking, Holding
<1>5. Held[t] # 0
  BY <1>1, <1>2, HeldTypes DEF Held, HeldBy, Holding
<1>6. Cache!Drop(t)
  BY <1>1, <1>3, <1>4, <1>5 DEF Cache!Drop, Asked, Held, AskedBy, HeldBy
<1> QED BY <1>6 DEF Cache!Next

\* What the cache does not see.
LEMMA CacheStutters ==
    ASSUME IInv, NEW t \in Executors,
           block_to_offset' = block_to_offset,
           \/ UNCHANGED <<at, address, entry>>
           \/ \E l, o :
                /\ at' = [at EXCEPT ![t] = l] /\ address' = address
                /\ entry' = entry \/ entry' = [entry EXCEPT ![t] = o]
                /\ \/ address[t] = Trampoline
                   \/ Asking(t) /\ l \in {"generate", "insert", "recheck",
                                          "allocate", "copy", "publish"}
                   \/ Holding(t) /\ l \in {"unlock", "run"} /\ entry' = entry
    PROVE  UNCHANGED CacheVars
<1>1. CASE UNCHANGED <<at, address, entry>>
  BY <1>1 DEF CacheVars, Asked, Held, AskedBy, HeldBy, Asking, Holding
<1>2. CASE ~UNCHANGED <<at, address, entry>>
  <2> PICK l, o :
        /\ at' = [at EXCEPT ![t] = l] /\ address' = address
        /\ entry' = entry \/ entry' = [entry EXCEPT ![t] = o]
        /\ \/ address[t] = Trampoline
           \/ Asking(t) /\ l \in {"generate", "insert", "recheck",
                                  "allocate", "copy", "publish"}
           \/ Holding(t) /\ l \in {"unlock", "run"} /\ entry' = entry
    BY <1>2
  <2>1. /\ at'[t] = l /\ address'[t] = address[t]
        /\ entry' = entry \/ entry'[t] = o
        /\ \A u \in Executors : u # t => at'[u] = at[u] /\ entry'[u] = entry[u]
    BY DEF IInv, TypeOK
  <2>2. AskedBy(t)' = AskedBy(t) /\ HeldBy(t)' = HeldBy(t)
    BY <2>1 DEF AskedBy, HeldBy, Asking, Holding
  <2>3. \A u \in Executors : AskedBy(u)' = AskedBy(u) /\ HeldBy(u)' = HeldBy(u)
    BY <2>1, <2>2 DEF AskedBy, HeldBy, Asking, Holding
  <2> QED BY <2>3 DEF CacheVars, Asked, Held
<1> QED BY <1>1, <1>2

LEMMA CacheStep ==
    ASSUME IInv, NEW t \in Executors, Step(t)
    PROVE  Cache!Next \/ UNCHANGED CacheVars
<1> USE DEF Goto
<1>l. LocationInv  BY DEF IInv
<1>1. CASE GetHit(t) \/ RecheckHit(t)  BY <1>1, FoundStep
<1>2. CASE Publish(t)  BY <1>2, TranslatedStep
<1>3. CASE Run(t) \/ BranchMiss(t)  BY <1>3, AskStep
<1>4. CASE BranchHit(t)  BY <1>4, FollowStep
<1>5. CASE Leave(t)  BY <1>5, DropStep
<1>6. CASE Construct(t)
  BY <1>l, <1>6, CacheStutters DEF Construct, shared, LocationInv
<1>7. CASE GetMiss(t)
  BY <1>l, <1>7, CacheStutters DEF GetMiss, shared, LocationInv, Asking
<1>8. CASE Generate(t)
  BY <1>l, <1>8, CacheStutters DEF Generate, shared, LocationInv, Asking
<1>9. CASE Lock(t)
  BY <1>9, CacheStutters DEF Lock, shared, Asking
<1>10. CASE RecheckMiss(t)
  BY <1>l, <1>10, CacheStutters DEF RecheckMiss, shared, LocationInv, Asking
<1>11. CASE Allocate(t)
  BY <1>11, CacheStutters DEF Allocate, Asking
<1>12. CASE Copy(t)
  BY <1>12, CacheStutters DEF Copy, Asking
<1>13. CASE Dump(t)
  BY <1>l, <1>13, CacheStutters DEF Dump, LocationInv, Holding
<1>14. CASE Unlock(t)
  BY <1>14, CacheStutters DEF Unlock, shared, Holding
<1>15. CASE DumpToFile(t)
  BY <1>15, CacheStutters DEF DumpToFile, local
<1>16. CASE GenerateMisaligned(t) \/ OutOfMemory(t) \/ DumpToFileAgain(t)
  BY <1>16, CacheStutters
  DEF GenerateMisaligned, OutOfMemory, DumpToFileAgain, Abort, shared, local
<1>17. CASE Translate(t)
  BY <1>1, <1>7, <1>8, <1>16, <1>17 DEF Translate
<1>18. CASE Insert(t)
  BY <1>1, <1>2, <1>9, <1>10, <1>11, <1>12, <1>13, <1>14, <1>16, <1>18
  DEF Insert
<1> QED BY <1>3, <1>4, <1>5, <1>6, <1>15, <1>16, <1>17, <1>18 DEF Step

\* Whatever the number of executors and however their steps interleave, a
\* client sees a cache that translates a block once, at one instant.
THEOREM CodeBufferImplementsCache == Spec => ImplementsCache
<1>1. Init => Cache!Init
  BY DEF Init, Cache!Init, Asking, Holding
<1>2. IInv /\ [Next]_vars => [Cache!Next]_(Cache!vars)
  <2>1. IInv /\ UNCHANGED vars => UNCHANGED CacheVars
    BY DEF vars, shared, local, CacheVars, Asked, Held, AskedBy, HeldBy,
           Asking, Holding
  <2>2. UNCHANGED CacheVars => UNCHANGED Cache!vars
    BY DEF CacheVars, Cache!vars, Asked, Held, AskedBy, HeldBy
  <2> QED BY <2>1, <2>2, CacheStep DEF Next, Stopped
<1> QED BY <1>1, <1>2, Inductive, PTL DEF Spec, ImplementsCache, Cache!Spec

=============================================================================
