---------------------------- MODULE ForkJoinPool -----------------------------
(***************************************************************************)
(* The thread pool of baselib (base/concurrency/ForkJoinPool.cpp): a task  *)
(* is given to every worker, and run_task returns when each of them has    *)
(* finished its share.  parallel_for is a task whose shares are taken from *)
(* an AtomicIterator.                                                      *)
(*                                                                         *)
(* What a thread does under a mutex is one action; a wait on a condition   *)
(* variable is the state "asleep" or "blocked" from which a notification,  *)
(* or nothing at all, leads back to the check of the predicate.  One       *)
(* thread, the owner, calls run_task; exit may be called at any time.      *)
(***************************************************************************)
EXTENDS Integers, FiniteSets

CONSTANTS
    Workers,        \* one for each tid
    Counts,         \* of the iterations of a parallel_for
    MaxTasks,       \* bound: calls of run_task
    IteratorRange   \* 2^64

ASSUME WorkersAssumption == IsFiniteSet(Workers) /\ Workers # {}
ASSUME CountsAssumption ==
    /\ Counts \subseteq Nat /\ MaxTasks \in Nat /\ IteratorRange \in Nat \ {0}
    /\ \A c \in Counts : c + Cardinality(Workers) < IteratorRange

\* Tasks are numbered; a null Task* is 0.
Null == 0
Tasks == 1 .. MaxTasks

VARIABLES
    thread_tasks,      \* Task* for each worker
    requested_exit,
    finished_threads,
    threads,           \* JoinableThreads: all workers, or none after join
    at, task, index,   \* where each worker is, its task and its iteration
    owner_at,          \* where run_task is
    current, count, iterator,  \* the task on the owner's stack, its AtomicIterator
    exit_at,           \* where exit is
    tasks              \* the calls of run_task so far

worker_vars == <<at, task, index>>
shared_vars == <<thread_tasks, requested_exit, finished_threads, threads>>
task_vars == <<current, count, iterator, tasks>>
pool_vars == <<worker_vars, shared_vars, task_vars, owner_at, exit_at>>

PoolInit ==
    /\ thread_tasks = [w \in Workers |-> Null]
    /\ requested_exit = FALSE /\ finished_threads = 0 /\ threads = Workers
    /\ at = [w \in Workers |-> "ready"]
    /\ task = [w \in Workers |-> Null] /\ index = [w \in Workers |-> 0]
    /\ owner_at = "outside" /\ exit_at = "open"
    /\ current = Null /\ count = 0 /\ iterator = 0 /\ tasks = 0

Go(w, place) == at' = [at EXCEPT ![w] = place]

\* notify_all on task_cv.
WakeAll == at' = [w \in Workers |-> IF at[w] = "asleep" THEN "ready" ELSE at[w]]

-----------------------------------------------------------------------------
(***************************************************************************)
(* worker_thread.                                                          *)
(***************************************************************************)
\* Mutant of Take: the task stays in thread_tasks.
TakeAndKeep(w) ==
    /\ at[w] = "ready" /\ ~requested_exit /\ thread_tasks[w] # Null
    /\ task' = [task EXCEPT ![w] = thread_tasks[w]]
    /\ Go(w, "running")
    /\ UNCHANGED <<thread_tasks, index, requested_exit, finished_threads,
                   threads, task_vars, owner_at, exit_at>>

Take(w) ==
    /\ at[w] = "ready" /\ ~requested_exit /\ thread_tasks[w] # Null
    /\ task' = [task EXCEPT ![w] = thread_tasks[w]]
    /\ thread_tasks' = [thread_tasks EXCEPT ![w] = Null]
    /\ Go(w, "running")
    /\ UNCHANGED <<index, requested_exit, finished_threads, threads,
                   task_vars, owner_at, exit_at>>

Sleep(w) ==
    /\ at[w] = "ready" /\ ~requested_exit /\ thread_tasks[w] = Null
    /\ Go(w, "asleep")
    /\ UNCHANGED <<task, index, shared_vars, task_vars, owner_at, exit_at>>

\* A condition variable may return without a notification.
Wake(w) ==
    /\ at[w] = "asleep" /\ Go(w, "ready")
    /\ UNCHANGED <<task, index, shared_vars, task_vars, owner_at, exit_at>>

\* An exit has precedence over a task.
Leave(w) ==
    /\ at[w] = "ready" /\ requested_exit
    /\ Go(w, "gone")
    /\ UNCHANGED <<task, index, shared_vars, task_vars, owner_at, exit_at>>

\* AtomicIterator::next: fetch_add, also when there is nothing left.
TakeIndex(w) ==
    /\ at[w] = "running"
    /\ iterator' = (iterator + 1) % IteratorRange
    /\ IF iterator < count
         THEN index' = [index EXCEPT ![w] = iterator] /\ Go(w, "body")
         ELSE UNCHANGED index /\ Go(w, "finishing")
    /\ UNCHANGED <<task, shared_vars, current, count, tasks, owner_at, exit_at>>

\* The body returns; one that returns false ends this worker's share.
BodyReturns(w, result) ==
    /\ at[w] = "body"
    /\ Go(w, IF result THEN "running" ELSE "finishing")
    /\ index' = [index EXCEPT ![w] = 0]
    /\ UNCHANGED <<task, shared_vars, task_vars, owner_at, exit_at>>

Finish(w) ==
    /\ at[w] = "finishing"
    /\ finished_threads' = finished_threads + 1
    /\ owner_at' = IF owner_at = "blocked" /\ finished_threads' = Cardinality(threads)
                     THEN "waiting" ELSE owner_at
    /\ task' = [task EXCEPT ![w] = Null] /\ Go(w, "ready")
    /\ UNCHANGED <<index, thread_tasks, requested_exit, threads, task_vars, exit_at>>

-----------------------------------------------------------------------------
(***************************************************************************)
(* run_task, by the owner.                                                 *)
(***************************************************************************)
RunTask(c) ==
    /\ owner_at = "outside" /\ tasks < MaxTasks
    /\ tasks' = tasks + 1 /\ current' = tasks + 1
    /\ count' = c /\ iterator' = 0
    /\ thread_tasks' = [w \in Workers |-> tasks + 1]
    /\ WakeAll
    /\ owner_at' = "waiting"
    /\ UNCHANGED <<task, index, requested_exit, finished_threads, threads, exit_at>>

AllFinished == finished_threads = Cardinality(threads)

Check ==
    /\ owner_at = "waiting"
    /\ owner_at' = IF AllFinished THEN "finished" ELSE "blocked"
    /\ UNCHANGED <<worker_vars, shared_vars, task_vars, exit_at>>

WakeOwner ==
    /\ owner_at = "blocked" /\ owner_at' = "waiting"
    /\ UNCHANGED <<worker_vars, shared_vars, task_vars, exit_at>>

\* The count is reset without the mutex; then the task's lifetime ends.
Reset ==
    /\ owner_at = "finished"
    /\ finished_threads' = 0
    /\ owner_at' = "outside"
    /\ current' = Null /\ count' = 0 /\ iterator' = 0
    /\ UNCHANGED <<worker_vars, thread_tasks, requested_exit, threads, tasks,
                   exit_at>>

(***************************************************************************)
(* exit, by whoever calls it first; a second one finds no threads.         *)
(***************************************************************************)
\* Mutant of Exit: nobody is notified.
ExitSilently ==
    /\ exit_at = "open"
    /\ requested_exit' = TRUE
    /\ exit_at' = "joining"
    /\ UNCHANGED <<worker_vars, thread_tasks, finished_threads, threads,
                   task_vars, owner_at>>

Exit ==
    /\ exit_at = "open"
    /\ requested_exit' = TRUE /\ WakeAll
    /\ exit_at' = "joining"
    /\ UNCHANGED <<task, index, thread_tasks, finished_threads, threads,
                   task_vars, owner_at>>

Join ==
    /\ exit_at = "joining" /\ \A w \in Workers : at[w] = "gone"
    /\ threads' = {} /\ exit_at' = "joined"
    /\ UNCHANGED <<worker_vars, thread_tasks, requested_exit, finished_threads,
                   task_vars, owner_at>>

-----------------------------------------------------------------------------
\* A worker, but for the body of the task.
Work(w) ==
    Take(w) \/ Sleep(w) \/ Wake(w) \/ Leave(w) \/ TakeIndex(w) \/ Finish(w)
Own == (\E c \in Counts : RunTask(c)) \/ Check \/ WakeOwner \/ Reset

\* With a body that does nothing but return.
PoolNext ==
    \/ \E w \in Workers : Work(w) \/ \E result \in BOOLEAN : BodyReturns(w, result)
    \/ Own \/ Exit \/ Join
PoolSpec == PoolInit /\ [][PoolNext]_pool_vars

-----------------------------------------------------------------------------
Places == {"ready", "asleep", "running", "body", "finishing", "gone"}
PoolTypeOK ==
    /\ thread_tasks \in [Workers -> Tasks \union {Null}]
    /\ requested_exit \in BOOLEAN /\ finished_threads \in Nat
    /\ threads \in {Workers, {}}
    /\ at \in [Workers -> Places] /\ task \in [Workers -> Tasks \union {Null}]
    /\ index \in [Workers -> Nat]
    /\ owner_at \in {"outside", "waiting", "blocked", "finished"}
    /\ current \in Tasks \union {Null} /\ tasks \in Tasks \union {Null}
    /\ count \in Nat /\ iterator \in Nat
    /\ exit_at \in {"open", "joining", "joined"}

UsesTask(w) == at[w] \in {"running", "body", "finishing"}

(***************************************************************************)
(* run_task takes a task by reference, and parallel_for's lives on the     *)
(* stack: no worker works on a task that run_task has returned from, or on *)
(* an older one, whatever is woken, notified or asked to exit in between.  *)
(***************************************************************************)
TasksOutliveTheirUse ==
    \A w \in Workers : UsesTask(w) =>
        task[w] = current /\ owner_at \in {"waiting", "blocked"}
=============================================================================
