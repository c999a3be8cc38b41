------------------------- MODULE RelaxedAtomicVector -------------------------
(***************************************************************************)
(* The vector of base/concurrency/RelaxedAtomicVector.hpp: any thread      *)
(* appends to it without a lock.  A slot is reserved by an atomic          *)
(* increment and constructed afterwards, and all orders are relaxed:       *)
(* elements are seen by who synchronizes with the thread that made them.   *)
(***************************************************************************)
EXTENDS Integers

CONSTANTS
    Pushers,      \* the threads that append
    Capacities,
    Raw,          \* a slot without an object
    NoSlot        \* a thread that has not reserved one

ASSUME CapacitiesAssumption == Capacities \subseteq Nat /\ NoSlot \notin Nat

VARIABLES
    buffer, capacity, size,  \* buffer, capacity_, size_
    slot,          \* where each thread is about to construct
    vector_at      \* "running", "stopped": a verify failed

vector_vars == <<buffer, capacity, size, slot, vector_at>>

VectorInit ==
    /\ capacity = 0 /\ buffer = <<>> /\ size = 0
    /\ slot = [t \in Pushers |-> NoSlot] /\ vector_at = "running"

\* size(): failed appends have counted too.
Size == IF size < capacity THEN size ELSE capacity

\* Mutant of Reserve: an append that fails gives its slot back.
ReserveOrUndo(t) ==
    /\ slot[t] = NoSlot
    /\ size' = IF size < capacity THEN size + 1 ELSE size - 1
    /\ slot' = [slot EXCEPT ![t] = IF size < capacity THEN size ELSE NoSlot]
    /\ UNCHANGED <<buffer, capacity>>

\* fetch_add of reserve_next and reserve_next_optional.
Reserve(t) ==
    /\ slot[t] = NoSlot
    /\ size' = size + 1
    /\ slot' = [slot EXCEPT ![t] = IF size < capacity THEN size ELSE NoSlot]
    /\ UNCHANGED <<buffer, capacity>>

\* push_back_optional returns whether there was room, push_back verifies it.
ReserveOptional(t) == Reserve(t) /\ UNCHANGED vector_at
ReserveVerified(t) ==
    /\ Reserve(t)
    /\ vector_at' = IF size < capacity THEN vector_at ELSE "stopped"

\* The placement new of push_back.
Construct(t, value) ==
    /\ slot[t] # NoSlot
    /\ buffer' = [buffer EXCEPT ![slot[t]] = value]
    /\ slot' = [slot EXCEPT ![t] = NoSlot]
    /\ UNCHANGED <<capacity, size, vector_at>>

\* The elements below size() are destroyed.
Clear ==
    /\ buffer' = [i \in DOMAIN buffer |-> IF i < Size THEN Raw ELSE buffer[i]]
    /\ size' = 0
    /\ UNCHANGED <<capacity, slot, vector_at>>

\* A new buffer, unless the capacity is the same.
SetCapacity(c) ==
    IF Size # 0
      THEN vector_at' = "stopped" /\ UNCHANGED <<buffer, capacity, size, slot>>
      ELSE /\ capacity' = c
           /\ buffer' = IF c = capacity THEN buffer
                        ELSE [i \in 0 .. c - 1 |-> Raw]
           /\ UNCHANGED <<size, slot, vector_at>>
=============================================================================
