--------------------------- MODULE ConcurrentQueue ---------------------------
(***************************************************************************)
(* The blocking containers of baselib's base/concurrency: ConcurrentQueue, *)
(* ConcurrentStack and FastConcurrentQueue, whose pops take everything.    *)
(* They differ in what a pop takes and are one module: a mutex, a          *)
(* condition variable, the items and requested_exit.                       *)
(*                                                                         *)
(* What is done under the mutex is one action.  A thread in a blocking pop *)
(* is waiting; asleep are those whose cv.wait has found its predicate      *)
(* false, which only a notification or a spurious wakeup brings back.      *)
(***************************************************************************)
EXTENDS Integers, Sequences, FiniteSets

CONSTANTS
    Threads,
    Values,      \* of items
    MaxBatch,    \* bound: items of one push_back_many
    MaxItems     \* bound: items at which nobody pushes

ASSUME ThreadsAssumption == IsFiniteSet(Threads)
ASSUME BoundsAssumption == MaxBatch \in Nat \ {0} /\ MaxItems \in Nat

VARIABLES
    kind,             \* which of the containers it is
    items,            \* queue, or stack
    requested_exit,
    waiting, asleep,
    popped            \* the output of the last pop

vars == <<kind, items, requested_exit, waiting, asleep, popped>>

Init ==
    /\ kind \in {"queue", "stack", "batches"}
    /\ items = <<>> /\ requested_exit = FALSE
    /\ waiting = {} /\ asleep = {} /\ popped = <<>>

Batches == UNION {[1 .. n -> Values] : n \in 0 .. MaxBatch}

NotifyAll == asleep' = {}
NotifyOne == IF asleep = {} THEN asleep' = {} ELSE \E t \in asleep : asleep' = asleep \ {t}

\* push_back, push_back_one.
PushBack(v) ==
    /\ Len(items) < MaxItems
    /\ items' = Append(items, v)
    /\ NotifyOne
    /\ UNCHANGED <<kind, requested_exit, waiting, popped>>

\* Mutant of PushBackMany: one thread is notified of many items.
PushBackManyForOne(batch) ==
    /\ Len(items) < MaxItems /\ batch # <<>>
    /\ items' = items \o batch
    /\ NotifyOne
    /\ UNCHANGED <<kind, requested_exit, waiting, popped>>

\* push_back_many, push_back_many_callback.
PushBackMany(batch) ==
    /\ Len(items) < MaxItems /\ batch # <<>>
    /\ items' = items \o batch
    /\ NotifyAll
    /\ UNCHANGED <<kind, requested_exit, waiting, popped>>

-----------------------------------------------------------------------------
\* front and pop_front; back and pop_back; all of them and clear.
Take ==
    \/ kind = "queue" /\ popped' = <<Head(items)>> /\ items' = Tail(items)
    \/ kind = "stack" /\ popped' = <<items[Len(items)]>>
                      /\ items' = SubSeq(items, 1, Len(items) - 1)
    \/ kind = "batches" /\ popped' = items /\ items' = <<>>

\* pop_front_blocking, pop_back_blocking: come for the mutex.
PopBlocking(t) ==
    /\ t \notin waiting
    /\ waiting' = waiting \union {t}
    /\ UNCHANGED <<kind, items, requested_exit, asleep, popped>>

\* Mutant of Leave: what is queued is still delivered after request_exit.
LeaveWithItem(t) ==
    /\ t \in waiting \ asleep /\ waiting' = waiting \ {t}
    /\ \/ requested_exit /\ items = <<>> /\ popped' = <<>> /\ UNCHANGED items
       \/ items # <<>> /\ Take
    /\ UNCHANGED <<kind, requested_exit, asleep>>

\* The wait's predicate holds, the first time or after a wakeup.
Leave(t) ==
    /\ t \in waiting \ asleep /\ waiting' = waiting \ {t}
    /\ \/ requested_exit /\ popped' = <<>> /\ UNCHANGED items
       \/ ~requested_exit /\ items # <<>> /\ Take
    /\ UNCHANGED <<kind, requested_exit, asleep>>

\* It does not.
Sleep(t) ==
    /\ t \in waiting \ asleep /\ ~requested_exit /\ items = <<>>
    /\ asleep' = asleep \union {t}
    /\ UNCHANGED <<kind, items, requested_exit, waiting, popped>>

WakeSpuriously(t) ==
    /\ t \in asleep /\ asleep' = asleep \ {t}
    /\ UNCHANGED <<kind, items, requested_exit, waiting, popped>>

\* pop_front_non_blocking, which a ConcurrentStack does not have.
PopNonBlocking ==
    /\ kind # "stack"
    /\ \/ items # <<>> /\ Take
       \/ items = <<>> /\ popped' = <<>> /\ UNCHANGED items
    /\ UNCHANGED <<kind, requested_exit, waiting, asleep>>

RequestExit ==
    /\ requested_exit' = TRUE /\ NotifyAll
    /\ UNCHANGED <<kind, items, waiting, popped>>

Clear ==
    /\ items' = <<>>
    /\ UNCHANGED <<kind, requested_exit, waiting, asleep, popped>>

Next ==
    \/ \E v \in Values : PushBack(v)
    \/ \E batch \in Batches : PushBackMany(batch)
    \/ \E t \in Threads : PopBlocking(t) \/ Leave(t) \/ Sleep(t) \/ WakeSpuriously(t)
    \/ PopNonBlocking \/ RequestExit \/ Clear

Spec == Init /\ [][Next]_vars

\* A thread that is awake gets the mutex and goes on.  Nobody has to push, and
\* no wakeup comes by itself.
FairSpec == Spec /\ \A t \in Threads : WF_vars(Leave(t) \/ Sleep(t))
-----------------------------------------------------------------------------
\* Every variable has its type.
TypeOK ==
    /\ kind \in {"queue", "stack", "batches"}
    /\ items \in Seq(Values) /\ popped \in Seq(Values)
    /\ requested_exit \in BOOLEAN
    /\ waiting \in SUBSET Threads /\ asleep \in SUBSET waiting

(***************************************************************************)
(* push_back wakes only one thread, which may find that another has taken  *)
(* the item.  Nobody sleeps all the same while there are items that nobody *)
(* is on the way to, nor after request_exit.                               *)
(***************************************************************************)
NoLostWakeup ==
    asleep # {} => ~requested_exit /\ Len(items) <= Cardinality(waiting \ asleep)

(***************************************************************************)
(* Whatever the kind of container, and with any mix of single and batched  *)
(* pushes, pops and clears: it is a channel, where items arrive in order,  *)
(* none is delivered twice, and who waits is served as if it never slept.  *)
(* A closed one delivers what is left only to those that do not wait.      *)
(***************************************************************************)
Promise == INSTANCE Channel
ImplementsChannel == Promise!FairSpec
=============================================================================
