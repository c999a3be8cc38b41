----------------------------- MODULE CodeBuffer -----------------------------
(***************************************************************************)
(* The translation cache shared by every JIT executor                      *)
(* (src/vm/jit/CodeBuffer.cpp, ExecutableBuffer.cpp), with the executors   *)
(* that call it (Executor.cpp: construct, get, translate, insert) and the  *)
(* translated code that reads its table without the mutex (the validated   *)
(* branch of the AArch64 CodeGenerator.cpp).                               *)
(*                                                                         *)
(* One action is one step between two points where another thread can      *)
(* interfere.  Copying code is two steps: the bytes are torn in between.   *)
(* Memory ordering is modelled by happens-before: seen[t] is the set of    *)
(* allocations whose bytes thread t is entitled to see, extended by the    *)
(* acquire loads, and by the mutex.                                        *)
(***************************************************************************)
EXTENDS Integers, Sequences

CONSTANTS
    Executors,        \* one thread runs one executor
    GuestAddresses,   \* the guest pcs that are branched to
    EntryAddresses,   \* the ones run is called with
    CodeSizes,        \* the sizes a translation may have, in bytes
    Size,             \* the size of the executable buffer
    MaxExecutable,    \* max_executable_guest_address
    OffsetRange,      \* 2^32: a table entry is an uint32_t
    Multithreaded,    \* Flags::Multithreaded: branches load with acquire
    NoExecutor,       \* the mutex is free
    Trampoline,       \* what insert_standalone stores, instead of a block
    NoCode            \* bytes never written

ASSUME SizesAssumption ==
    /\ Size \in Nat /\ MaxExecutable \in Nat
    /\ CodeSizes \subseteq Nat \ {0}
    /\ OffsetRange \in Nat /\ Size <= OffsetRange
ASSUME AddressesAssumption ==
    /\ GuestAddresses \subseteq 0 .. MaxExecutable - 1
    /\ EntryAddresses \subseteq GuestAddresses
ASSUME ValuesAssumption ==
    /\ NoExecutor \notin Executors
    /\ Trampoline \notin Nat
    /\ NoCode \notin [of: Nat \union {Trampoline}, size: Nat, torn: BOOLEAN]
\* A buffer without the flag is for a single thread.
ASSUME FlagsAssumption ==
    /\ Multithreaded \in BOOLEAN
    /\ ~Multithreaded => \A s, t \in Executors : s = t

VARIABLES
    block_to_offset,    \* block -> offset of its code, 0 when not generated
    next_free_offset,
    executable_buffer,  \* what each byte holds
    code_dump,          \* blocks written to the dump file, in order
    dump_enabled,
    mutex,
    at,                 \* where each thread is
    address,            \* the guest address (or Trampoline) it works on
    size,               \* the size of the code it generated
    entry,              \* the offset it was given, and runs at
    ready,              \* the offset of its trampoline, 0 when it has none
    seen,               \* happens-before: allocations the thread may read
    released,           \* ... that each table entry's release store publishes
    unlocked,           \* ... that the last unlock publishes
    aborted             \* the verify() that stopped the process

shared == <<block_to_offset, next_free_offset, executable_buffer, code_dump,
            dump_enabled>>
local == <<at, address, size, entry, ready>>
order == <<seen, released, unlocked>>
vars == <<shared, mutex, local, order, aborted>>

BlockSize == 4
Blocks == 0 .. ((MaxExecutable + BlockSize - 1) \div BlockSize) - 1
BlockOf(a) == a \div BlockSize
Aligned(a) == a % BlockSize = 0
AlignUp(n) == ((n + 15) \div 16) * 16

Content == [of: Blocks \union {Trampoline}, size: CodeSizes, torn: BOOLEAN]
\* What the code generated for a is once it is copied.
Code(a, n, torn) ==
    [of |-> IF a = Trampoline THEN Trampoline ELSE BlockOf(a),
     size |-> n, torn |-> torn]
Fill(from, n, c) ==
    [i \in 0 .. Size - 1 |->
        IF from <= i /\ i < from + n THEN c ELSE executable_buffer[i]]

\* CodeBuffer::get on a guest address that is in range.
Lookup(a) == IF Aligned(a) THEN block_to_offset[BlockOf(a)] ELSE 0

Init ==
    /\ block_to_offset = [b \in Blocks |-> 0]
    /\ next_free_offset = 16
    /\ executable_buffer = [i \in 0 .. Size - 1 |-> NoCode]
    /\ code_dump = <<>> /\ dump_enabled = FALSE
    /\ mutex = NoExecutor
    /\ at = [t \in Executors |-> "new"]
    /\ address = [t \in Executors |-> Trampoline]
    /\ size = [t \in Executors |-> 0]
    /\ entry = [t \in Executors |-> 0]
    /\ ready = [t \in Executors |-> 0]
    /\ seen = [t \in Executors |-> {}]
    /\ released = [b \in Blocks |-> {}]
    /\ unlocked = {}
    /\ aborted = "no"

Goto(t, from, to) == at[t] = from /\ at' = [at EXCEPT ![t] = to]
Abort(t, from, why) ==
    /\ at[t] = from /\ aborted' = why
    /\ UNCHANGED <<shared, mutex, local, order>>
\* A load-acquire of a's table entry.
Acquire(t, a) ==
    /\ seen' = [seen EXCEPT ![t] = @ \union released[BlockOf(a)]]
    /\ UNCHANGED <<released, unlocked>>

(***************************************************************************)
(* Executor::Executor: the trampoline is generated and stored standalone.  *)
(***************************************************************************)
Construct(t) ==
    /\ Goto(t, "new", "insert")
    /\ \E n \in CodeSizes : size' = [size EXCEPT ![t] = n]
    /\ UNCHANGED <<shared, mutex, address, entry, ready, order, aborted>>

\* Executor::run is called with some pc in the Cpu.
Run(t) ==
    /\ Goto(t, "idle", "get")
    /\ \E a \in EntryAddresses : address' = [address EXCEPT ![t] = a]
    /\ UNCHANGED <<shared, mutex, size, entry, ready, order, aborted>>

\* code_buffer->get(pc), and a hit is entered through the trampoline.
GetHit(t) ==
    /\ Goto(t, "get", "run")
    /\ Lookup(address[t]) # 0
    /\ entry' = [entry EXCEPT ![t] = Lookup(address[t])]
    /\ Acquire(t, address[t])
    /\ UNCHANGED <<shared, mutex, address, size, ready, aborted>>

GetMiss(t) ==
    /\ Goto(t, "get", "generate")
    /\ Lookup(address[t]) = 0
    /\ UNCHANGED <<shared, mutex, address, size, entry, ready, order, aborted>>

\* generate_block_code, then the call of insert up to its lock.
Generate(t) ==
    /\ Goto(t, "generate", "insert")
    /\ Aligned(address[t])
    /\ \E n \in CodeSizes : size' = [size EXCEPT ![t] = n]
    /\ UNCHANGED <<shared, mutex, address, entry, ready, order, aborted>>

GenerateMisaligned(t) ==
    /\ at[t] = "generate" /\ ~Aligned(address[t])
    /\ Abort(t, "generate", "guest address is misaligned")

\* Mutant of Lock: the mutex is forgotten.
LockNothing(t) ==
    /\ Goto(t, "insert",
            IF address[t] = Trampoline THEN "allocate" ELSE "recheck")
    /\ UNCHANGED <<shared, mutex, address, size, entry, ready, order, aborted>>

Lock(t) ==
    /\ mutex = NoExecutor
    /\ Goto(t, "insert",
            IF address[t] = Trampoline THEN "allocate" ELSE "recheck")
    /\ mutex' = t
    /\ seen' = [seen EXCEPT ![t] = @ \union unlocked]
    /\ UNCHANGED <<shared, address, size, entry, ready, released, unlocked,
                   aborted>>

\* Mutant of RecheckHit: the early return leaves the mutex locked.
RecheckHitLocked(t) ==
    /\ Goto(t, "recheck", "run")
    /\ Lookup(address[t]) # 0
    /\ entry' = [entry EXCEPT ![t] = Lookup(address[t])]
    /\ Acquire(t, address[t])
    /\ UNCHANGED <<shared, mutex, address, size, ready, aborted>>

\* insert looks again under the lock: another executor may have won.
RecheckHit(t) ==
    /\ Goto(t, "recheck", "unlock")
    /\ Lookup(address[t]) # 0
    /\ entry' = [entry EXCEPT ![t] = Lookup(address[t])]
    /\ Acquire(t, address[t])
    /\ UNCHANGED <<shared, mutex, address, size, ready, aborted>>

\* Mutant of RecheckMiss: what was missing before the lock is still missing.
RecheckNothing(t) ==
    /\ Goto(t, "recheck", "allocate")
    /\ UNCHANGED <<shared, mutex, address, size, entry, ready, order, aborted>>

RecheckMiss(t) ==
    /\ Goto(t, "recheck", "allocate")
    /\ Lookup(address[t]) = 0
    /\ UNCHANGED <<shared, mutex, address, size, entry, ready, order, aborted>>

(***************************************************************************)
(* allocate_executable_memory: the space is checked, the code copied, and  *)
(* next_free_offset moved once the copy is complete.                       *)
(***************************************************************************)
Start == AlignUp(next_free_offset)

\* Mutants of Allocate: the space is not checked; the table entry is stored
\* before the code is copied.
AllocateUnchecked(t) ==
    /\ Goto(t, "allocate", "copy")
    /\ executable_buffer' =
           Fill(Start, size[t], Code(address[t], size[t], TRUE))
    /\ UNCHANGED <<block_to_offset, next_free_offset, code_dump, dump_enabled,
                   mutex, address, size, entry, ready, order, aborted>>
AllocateAndPublish(t) ==
    /\ Goto(t, "allocate", "copy")
    /\ Start + size[t] <= Size
    /\ executable_buffer' =
           Fill(Start, size[t], Code(address[t], size[t], TRUE))
    /\ block_to_offset' =
           IF address[t] = Trampoline THEN block_to_offset
           ELSE [block_to_offset EXCEPT ![BlockOf(address[t])] = Start]
    /\ UNCHANGED <<next_free_offset, code_dump, dump_enabled, mutex, address,
                   size, entry, ready, order, aborted>>

Allocate(t) ==
    /\ Goto(t, "allocate", "copy")
    /\ Start + size[t] <= Size
    /\ executable_buffer' =
           Fill(Start, size[t], Code(address[t], size[t], TRUE))
    /\ UNCHANGED <<block_to_offset, next_free_offset, code_dump, dump_enabled,
                   mutex, address, size, entry, ready, order, aborted>>

OutOfMemory(t) ==
    /\ at[t] = "allocate" /\ Start + size[t] > Size
    /\ Abort(t, "allocate", "out of executable memory in the jit storage")

\* Mutant of Copy: the space is not taken.
CopyInPlace(t) ==
    /\ Goto(t, "copy",
            IF address[t] = Trampoline THEN "unlock" ELSE "publish")
    /\ executable_buffer' =
           Fill(Start, size[t], Code(address[t], size[t], FALSE))
    /\ entry' = [entry EXCEPT ![t] = Start % OffsetRange]
    /\ seen' = [seen EXCEPT ![t] = @ \union {Start}]
    /\ UNCHANGED <<block_to_offset, next_free_offset, code_dump, dump_enabled,
                   mutex, address, size, ready, released, unlocked, aborted>>

Copy(t) ==
    /\ Goto(t, "copy",
            IF address[t] = Trampoline THEN "unlock" ELSE "publish")
    /\ executable_buffer' =
           Fill(Start, size[t], Code(address[t], size[t], FALSE))
    /\ next_free_offset' = Start + size[t]
    /\ entry' = [entry EXCEPT ![t] = Start % OffsetRange]
    /\ seen' = [seen EXCEPT ![t] = @ \union {Start}]
    /\ UNCHANGED <<block_to_offset, code_dump, dump_enabled, mutex, address,
                   size, ready, released, unlocked, aborted>>

\* The release store of the block's offset.
Publish(t) ==
    /\ Goto(t, "publish", "dump")
    /\ block_to_offset' =
           [block_to_offset EXCEPT ![BlockOf(address[t])] = entry[t]]
    /\ released' = [released EXCEPT ![BlockOf(address[t])] = seen[t]]
    /\ UNCHANGED <<next_free_offset, executable_buffer, code_dump,
                   dump_enabled, mutex, address, size, entry, ready, seen,
                   unlocked, aborted>>

Dump(t) ==
    /\ Goto(t, "dump", "unlock")
    /\ code_dump' = IF dump_enabled
                      THEN Append(code_dump, BlockOf(address[t]))
                      ELSE code_dump
    /\ UNCHANGED <<block_to_offset, next_free_offset, executable_buffer,
                   dump_enabled, mutex, address, size, entry, ready, order,
                   aborted>>

\* The call returns: an insert to run the code, a standalone one to idle.
Unlock(t) ==
    /\ at[t] = "unlock"
    /\ mutex' = NoExecutor
    /\ unlocked' = seen[t]
    /\ IF address[t] = Trampoline
         THEN /\ Goto(t, "unlock", "idle")
              /\ ready' = [ready EXCEPT ![t] = entry[t]]
         ELSE Goto(t, "unlock", "run") /\ UNCHANGED ready
    /\ UNCHANGED <<shared, address, size, entry, seen, released, aborted>>

(***************************************************************************)
(* The end of a block: a branch to pc a.  Translated code clears bit 0,    *)
(* tests the alignment and the range, and reads the table by itself, with  *)
(* an acquire load only under Flags::Multithreaded.  Code that is not      *)
(* there yet is left to the executor's loop, with the unmasked target.     *)
(***************************************************************************)
Masked(a) == a - (a % 2)

\* Mutant of BranchHit: the table is read with a plain load in every build.
BranchHitPlain(t) ==
    /\ at[t] = "run" /\ at' = at
    /\ \E a \in GuestAddresses :
         /\ Lookup(Masked(a)) # 0
         /\ address' = [address EXCEPT ![t] = Masked(a)]
         /\ entry' = [entry EXCEPT ![t] = Lookup(Masked(a))]
    /\ UNCHANGED <<shared, mutex, size, ready, order, aborted>>

BranchHit(t) ==
    /\ at[t] = "run" /\ at' = at
    /\ \E a \in GuestAddresses :
         /\ Lookup(Masked(a)) # 0
         /\ address' = [address EXCEPT ![t] = Masked(a)]
         /\ entry' = [entry EXCEPT ![t] = Lookup(Masked(a))]
         /\ IF Multithreaded THEN Acquire(t, a) ELSE UNCHANGED order
    /\ UNCHANGED <<shared, mutex, size, ready, aborted>>

BranchMiss(t) ==
    /\ Goto(t, "run", "get")
    /\ \E a \in GuestAddresses :
         /\ Aligned(Masked(a)) /\ Lookup(Masked(a)) = 0
         /\ address' = [address EXCEPT ![t] = a]
    /\ UNCHANGED <<shared, mutex, size, entry, ready, order, aborted>>

\* Any other reason to leave the block: run returns to its caller.
Leave(t) ==
    /\ Goto(t, "run", "idle")
    /\ UNCHANGED <<shared, mutex, address, size, entry, ready, order, aborted>>

\* CodeBuffer::dump_code_to_file, called outside any run.
DumpToFile(t) ==
    /\ at[t] = "idle" /\ mutex = NoExecutor /\ ~dump_enabled
    /\ dump_enabled' = TRUE
    /\ UNCHANGED <<block_to_offset, next_free_offset, executable_buffer,
                   code_dump, mutex, local, order, aborted>>

DumpToFileAgain(t) ==
    /\ mutex = NoExecutor /\ dump_enabled
    /\ Abort(t, "idle", "dumping to file already enabled")

Insert(t) ==
    \/ Lock(t) \/ RecheckHit(t) \/ RecheckMiss(t) \/ Allocate(t)
    \/ OutOfMemory(t) \/ Copy(t) \/ Publish(t) \/ Dump(t) \/ Unlock(t)
Translate(t) ==
    GetHit(t) \/ GetMiss(t) \/ Generate(t) \/ GenerateMisaligned(t)
Step(t) ==
    \/ Construct(t) \/ Run(t) \/ Translate(t) \/ Insert(t)
    \/ BranchHit(t) \/ BranchMiss(t) \/ Leave(t)
    \/ DumpToFile(t) \/ DumpToFileAgain(t)

Stopped == aborted # "no" /\ UNCHANGED vars

Next == (aborted = "no" /\ \E t \in Executors : Step(t)) \/ Stopped

Spec == Init /\ [][Next]_vars

\* A call under way goes on: the thread is scheduled, and a mutex that stays
\* free is taken.  The mutex itself promises no order among its waiters.
FairSpec ==
    Spec /\ \A t \in Executors :
              WF_vars(aborted = "no" /\ (Translate(t) \/ Insert(t)))
-----------------------------------------------------------------------------
InCall == {"recheck", "allocate", "copy", "publish", "dump", "unlock"}
Locations == {"new", "idle", "get", "generate", "insert", "run"} \union InCall

Verifies == {"no", "guest address is misaligned",
             "out of executable memory in the jit storage",
             "dumping to file already enabled"}

TypeOK ==
    /\ block_to_offset \in [Blocks -> 0 .. Size]
    /\ next_free_offset \in 16 .. (Size + 16)
    /\ executable_buffer \in [0 .. Size - 1 -> Content \union {NoCode}]
    /\ code_dump \in Seq(Blocks) /\ dump_enabled \in BOOLEAN
    /\ mutex \in Executors \union {NoExecutor}
    /\ at \in [Executors -> Locations]
    /\ address \in [Executors -> (0 .. MaxExecutable - 1) \union {Trampoline}]
    /\ size \in [Executors -> CodeSizes \union {0}]
    /\ entry \in [Executors -> 0 .. Size]
    /\ ready \in [Executors -> 0 .. Size]
    /\ seen \in [Executors -> SUBSET (0 .. Size)]
    /\ released \in [Blocks -> SUBSET (0 .. Size)]
    /\ unlocked \in SUBSET (0 .. Size)
    /\ aborted \in Verifies

\* The complete code of w, and of nothing else, starts at offset o.
Intact(w, o) ==
    /\ o \in 0 .. Size - 1
    /\ executable_buffer[o] # NoCode
    /\ LET c == executable_buffer[o] IN
         /\ c.of = w /\ ~c.torn
         /\ o + c.size <= Size
         /\ \A i \in o .. o + c.size - 1 : executable_buffer[i] = c

(***************************************************************************)
(* A thread in translated code runs the complete code of the very block it *)
(* asked for, whichever executor translated it and however many were       *)
(* translating at the time; and the trampoline it got there through is     *)
(* its own.  (Unlocked get and branch against insert.)                     *)
(***************************************************************************)
RunsItsBlock ==
    \A t \in Executors : at[t] = "run" =>
        /\ Intact(BlockOf(address[t]), entry[t])
        /\ Intact(Trampoline, ready[t])

\* What the table shows to unlocked readers is complete from the moment it is
\* shown: the copy comes before the store (CodeBuffer.cpp:65-69).
PublishedIsComplete ==
    \A b \in Blocks : block_to_offset[b] # 0 => Intact(b, block_to_offset[b])

(***************************************************************************)
(* A thread never executes bytes it has no happens-before edge to: every   *)
(* path to a block (get, the recheck, the own copy, a branch of translated *)
(* code) synchronizes with the thread that copied it.                      *)
(***************************************************************************)
RunsWhatItSees ==
    \A t \in Executors : at[t] = "run" => {entry[t], ready[t]} \subseteq seen[t]

(***************************************************************************)
(* No executable memory is lost to a race: when nobody holds the mutex,    *)
(* code in the buffer is what the table shows for its block, or is a       *)
(* trampoline.  (Two executors that both missed.)                          *)
(***************************************************************************)
NoOrphans ==
    mutex = NoExecutor =>
        \A i \in 0 .. Size - 1 :
            LET c == executable_buffer[i] IN
            (c # NoCode /\ c.of # Trampoline) =>
                /\ block_to_offset[c.of] # 0
                /\ i \in block_to_offset[c.of] ..
                           block_to_offset[c.of] + c.size - 1

(***************************************************************************)
(* The dump never holds a block twice, and holds only blocks in the table. *)
(***************************************************************************)
DumpedOnce ==
    /\ \A i, j \in DOMAIN code_dump : code_dump[i] = code_dump[j] => i = j
    /\ \A i \in DOMAIN code_dump : block_to_offset[code_dump[i]] # 0

(***************************************************************************)
(* A translation is final: its table entry never changes again, and none   *)
(* of its bytes do, so code chained to it stays right.                     *)
(***************************************************************************)
Final ==
    \A b \in Blocks : block_to_offset[b] # 0 =>
        /\ block_to_offset'[b] = block_to_offset[b]
        /\ \A i \in 0 .. Size - 1 :
              (/\ executable_buffer[i] # NoCode
               /\ executable_buffer[i].of = b) =>
                  executable_buffer'[i] = executable_buffer[i]
TranslationsAreFinal == [][Final]_vars

(***************************************************************************)
(* Every call of get or insert ends in code to run, or the process stops,  *)
(* although the mutex favours nobody: a waiter can only be overtaken by    *)
(* inserts, and each of them removes a miss.                               *)
(***************************************************************************)
CallsReturn ==
    \A t \in Executors :
        at[t] = "get" ~> (at[t] = "run" \/ aborted # "no")

(***************************************************************************)
(* verify "guest address is misaligned" (CodeBuffer.cpp:57) never fails    *)
(* when execution starts at an aligned pc: branches clear bit 0, "as it is *)
(* required by the architecture", and test the rest.                       *)
(***************************************************************************)
NeverMisaligned == aborted # "guest address is misaligned"

(***************************************************************************)
(* What a client sees is a cache where every block is translated once, at  *)
(* one instant: TranslationCache, the calls under way being the questions. *)
(***************************************************************************)
Asking(t) == /\ at[t] \in {"get", "generate", "insert", "recheck", "allocate",
                           "copy", "publish"}
             /\ address[t] # Trampoline
Holding(t) == at[t] \in {"dump", "unlock", "run"} /\ address[t] # Trampoline
Cache == INSTANCE TranslationCache WITH
    Clients <- Executors, Translations <- 1 .. Size, None <- 0,
    translation <- block_to_offset,
    asked <- [t \in Executors |->
                IF Asking(t) \/ Holding(t) THEN BlockOf(address[t]) ELSE -1],
    held <- [t \in Executors |-> IF Holding(t) THEN entry[t] ELSE 0]
ImplementsCache == Cache!Spec
=============================================================================
