------------------------------- MODULE Collect -------------------------------
(***************************************************************************)
(* ForkJoinPool and RelaxedAtomicVector as they are meant to be used       *)
(* together: the body of a parallel_for appends its index to a vector, and *)
(* the owner reads the vector when run_task has returned.  The vector has  *)
(* no memory order of its own, so whatever the owner may read of it, it    *)
(* may read because of the pool's mutex.                                   *)
(***************************************************************************)
EXTENDS ForkJoinPool, RelaxedAtomicVector

ASSUME PushersAssumption == Pushers = Workers
ASSUME RawAssumption == Raw \notin Tasks \X Nat

VARIABLES
    optional,        \* the body is push_back_optional, not push_back
    unreleased,      \* slots a worker has constructed since its last Finish
    released,        \* those finished_mutex carries
    visible,         \* those the owner has synchronized with
    expected,        \* how many elements run_task should leave
    phantoms         \* set_capacity has made elements of failed appends

body_vars == <<optional, unreleased, released, visible, expected, phantoms>>
vars == <<pool_vars, vector_vars, body_vars>>

Init ==
    /\ PoolInit /\ VectorInit
    /\ optional \in BOOLEAN
    /\ unreleased = [w \in Workers |-> {}] /\ released = {} /\ visible = {}
    /\ expected = 0 /\ phantoms = FALSE

Alive == vector_at = "running"

PoolStep(w) ==
    /\ Take(w) \/ Sleep(w) \/ Wake(w) \/ Leave(w) \/ TakeIndex(w)
    /\ UNCHANGED <<vector_vars, body_vars>>

\* The body begins: it gets a slot, or it returns false.
Append(w) ==
    /\ at[w] = "body"
    /\ IF optional THEN ReserveOptional(w) ELSE ReserveVerified(w)
    /\ IF slot'[w] = NoSlot /\ optional
         THEN BodyReturns(w, FALSE) ELSE UNCHANGED pool_vars
    /\ UNCHANGED body_vars

Store(w) ==
    /\ at[w] = "body" /\ Construct(w, <<task[w], index[w]>>) /\ BodyReturns(w, TRUE)
    /\ unreleased' = [unreleased EXCEPT ![w] = @ \union {slot[w]}]
    /\ UNCHANGED <<optional, released, visible, expected, phantoms>>

\* Unlocking finished_mutex releases what this worker, and those before it, made.
FinishShare(w) ==
    /\ Finish(w)
    /\ released' = released \union unreleased[w]
    /\ unreleased' = [unreleased EXCEPT ![w] = {}]
    /\ UNCHANGED <<vector_vars, optional, visible, expected, phantoms>>

\* Locking it acquires.  A pool without threads is done with nothing.
CheckAll ==
    /\ Check
    /\ visible' = released
    /\ expected' = IF AllFinished /\ threads = {} THEN Size ELSE expected
    /\ UNCHANGED <<vector_vars, optional, unreleased, released, phantoms>>

\* What the owner does with a vector between two tasks; its history is that
\* of the new elements.
Empty ==
    /\ owner_at = "outside" /\ Clear
    /\ released' = {} /\ visible' = {} /\ expected' = 0
    /\ UNCHANGED <<pool_vars, optional, unreleased, phantoms>>
Resize ==
    /\ owner_at = "outside" /\ \E c \in Capacities : SetCapacity(c)
    /\ phantoms' = (phantoms \/ Size' > Size)
    /\ UNCHANGED <<pool_vars, optional, unreleased, released, visible, expected>>
Start ==
    /\ \E c \in Counts :
          /\ RunTask(c)
          /\ expected' = IF Size + c < capacity THEN Size + c ELSE capacity
    /\ UNCHANGED <<vector_vars, optional, unreleased, released, visible, phantoms>>
Return == Reset /\ UNCHANGED <<vector_vars, body_vars>>
OwnerWakes == WakeOwner /\ UNCHANGED <<vector_vars, body_vars>>
Stop == Exit /\ UNCHANGED <<vector_vars, body_vars>>
JoinAll == Join /\ UNCHANGED <<vector_vars, body_vars>>

\* After a failed verify, and when the last task is done and the pool is gone.
Done ==
    /\ \/ ~Alive
       \/ owner_at \in {"outside", "blocked"} /\ exit_at = "joined" /\ tasks = MaxTasks
    /\ UNCHANGED vars

Next ==
    \/ /\ Alive
       /\ \/ \E w \in Workers : PoolStep(w) \/ Append(w) \/ Store(w) \/ FinishShare(w)
          \/ Empty \/ Resize \/ Start \/ CheckAll \/ OwnerWakes \/ Return
          \/ Stop \/ JoinAll
    \/ Done
Spec == Init /\ [][Next]_vars

\* Every thread that does not wait goes on, and a body returns.  Nobody has to
\* call exit, and a waiting thread has to be notified.
Share(w) ==
    \/ at[w] # "asleep" /\ PoolStep(w)
    \/ Append(w) \/ Store(w) \/ FinishShare(w)
Fairness ==
    /\ \A w \in Workers : WF_vars(Alive /\ Share(w))
    /\ WF_vars(Alive /\ (CheckAll \/ Return)) /\ WF_vars(Alive /\ JoinAll)
FairSpec == Spec /\ Fairness
-----------------------------------------------------------------------------
(***************************************************************************)
(* When run_task has returned, the owner may read everything below size()  *)
(* (it is constructed, and constructed before what the owner has seen),    *)
(* each iteration of each task is there at most once, and none is missing  *)
(* while there is room: failed appends and workers that stop early leave   *)
(* no holes.  Of a pool that has exited nothing is expected.  The exception *)
(* are appends to a vector of capacity 0: they fail, and they count, so    *)
(* that set_capacity takes the vector for empty and gives it elements that *)
(* were never constructed.                                                 *)
(***************************************************************************)
CollectsAll ==
    (Alive /\ owner_at = "outside" /\ ~phantoms) =>
        /\ Size = expected
        /\ \A i \in DOMAIN buffer : (buffer[i] # Raw) = (i < Size)
        /\ \A i \in 0 .. Size - 1 :
              /\ i \in visible
              /\ \A j \in 0 .. i - 1 : buffer[j] # buffer[i]

(***************************************************************************)
(* run_task returns, unless an exit overlaps it: a worker that is asked to *)
(* exit does not take the task it was given, and nobody counts for it.     *)
(* exit itself always returns.                                             *)
(***************************************************************************)
RunTaskReturns ==
    /\ owner_at # "outside" ~> (owner_at = "outside" \/ requested_exit \/ ~Alive)
    /\ exit_at = "joining" ~> (exit_at = "joined" \/ ~Alive)
=============================================================================
