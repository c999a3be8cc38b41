--------------------------- MODULE Collect_proofs ---------------------------
(***************************************************************************)
(* For any number of workers and tasks: run_task does not return before    *)
(* every worker has let go of its task.  The argument counts: as long as   *)
(* run_task waits, finished_threads is the number of workers that have     *)
(* taken the task and finished it, and no worker of a later task is among  *)
(* them, because the count is reset when nobody can be finishing.          *)
(* The second half is about the vector: what the bodies append is there,   *)
(* once, when run_task returns.                                            *)
(***************************************************************************)
EXTENDS Collect, TLAPS, FiniteSetTheorems

Waits == owner_at \in {"waiting", "blocked"}
Returned == {w \in Workers : thread_tasks[w] = Null /\ task[w] = Null}

Holding == \A w \in Workers :
    /\ UsesTask(w) <=> task[w] # Null
    /\ task[w] # Null => task[w] = current /\ thread_tasks[w] = Null /\ Waits
Given == \A w \in Workers :
    at[w] # "gone" /\ thread_tasks[w] # Null => thread_tasks[w] = current /\ Waits
Counting ==
    /\ Waits => finished_threads = Cardinality(Returned) /\ current # Null
    /\ owner_at = "outside" => finished_threads = 0
NoThreads == threads = {} => \A w \in Workers : at[w] = "gone"

Kept == Holding /\ Given /\ Counting /\ NoThreads
Inv == PoolTypeOK /\ Kept

LEMMA FiniteReturned ==
    /\ IsFiniteSet(Returned)
    /\ Cardinality(Returned) \in Nat /\ Cardinality(Workers) \in Nat
    /\ Cardinality({}) = 0
  BY WorkersAssumption, FS_Subset, FS_CardinalityType, FS_EmptySet DEF Returned

\* If as many have returned as there are, all have.
LEMMA AllReturned ==
    ASSUME Cardinality(Returned) = Cardinality(Workers)
    PROVE  Returned = Workers
  <1>1. Returned \subseteq Workers  BY DEF Returned
  <1> QED  BY <1>1, WorkersAssumption, FS_Subset

\* Every variable of the pool has its type.
LEMMA PoolTypeStep == PoolTypeOK /\ [PoolNext]_pool_vars => PoolTypeOK'
  <1> SUFFICES ASSUME PoolTypeOK, [PoolNext]_pool_vars PROVE PoolTypeOK'  OBVIOUS
  <1> USE DEF PoolTypeOK, Places, Go, WakeAll, task_vars, worker_vars, shared_vars
  <1>n. MaxTasks \in Nat /\ IteratorRange \in Nat \ {0} /\ Counts \subseteq Nat
    BY CountsAssumption
  <1>1. ASSUME NEW w \in Workers, Take(w) PROVE PoolTypeOK'
    BY <1>1 DEF Take, Null
  <1>2. ASSUME NEW w \in Workers, Sleep(w) \/ Wake(w) \/ Leave(w) PROVE PoolTypeOK'
    BY <1>2 DEF Sleep, Wake, Leave
  <1>3. ASSUME NEW w \in Workers, TakeIndex(w) PROVE PoolTypeOK'
    BY <1>3, <1>n DEF TakeIndex
  <1>4. ASSUME NEW w \in Workers, Finish(w) PROVE PoolTypeOK'
    BY <1>4 DEF Finish, Null
  <1>5. ASSUME NEW w \in Workers, NEW r \in BOOLEAN, BodyReturns(w, r)
        PROVE PoolTypeOK'
    BY <1>5 DEF BodyReturns
  <1>6. ASSUME NEW c \in Counts, RunTask(c) PROVE PoolTypeOK'
    <2>1. tasks + 1 \in Tasks  BY <1>6, <1>n DEF RunTask, Tasks, Null
    <2> QED  BY <1>6, <1>n, <2>1 DEF RunTask
  <1>7. ASSUME Check \/ WakeOwner \/ Reset PROVE PoolTypeOK'
    BY <1>7 DEF Check, WakeOwner, Reset, Null
  <1>8. ASSUME Exit \/ Join PROVE PoolTypeOK'
    BY <1>8 DEF Exit, Join
  <1>9. CASE UNCHANGED pool_vars  BY <1>9 DEF pool_vars
  <1> QED
    BY <1>1, <1>2, <1>3, <1>4, <1>5, <1>6, <1>7, <1>8, <1>9 DEF PoolNext, Work, Own

LEMMA CountingStep ==
    Inv /\ [PoolNext]_pool_vars => Kept'
  <1> SUFFICES ASSUME Inv, [PoolNext]_pool_vars
               PROVE  Kept'
    OBVIOUS
  <1> USE DEF Inv, Kept, Waits, UsesTask, Go, task_vars, worker_vars, shared_vars
  <1>t. PoolTypeOK'  BY PoolTypeStep
  <1>1. ASSUME NEW w \in Workers, Take(w) PROVE Kept'
    <2>1. Holding'  BY <1>1 DEF Take, Holding, Given, PoolTypeOK, Null
    <2>2. Given'  BY <1>1 DEF Take, Given, PoolTypeOK, Null
    <2>3. Returned' = Returned
      BY <1>1 DEF Take, Returned, Holding, PoolTypeOK, Null
    <2>4. Counting'  BY <1>1, <2>3 DEF Take, Counting
    <2>5. NoThreads'  BY <1>1 DEF Take, NoThreads, PoolTypeOK
    <2> QED  BY <2>1, <2>2, <2>4, <2>5
  <1>2. ASSUME NEW w \in Workers, Sleep(w) \/ Wake(w) \/ Leave(w) PROVE Kept'
    <2> USE <1>2 DEF Sleep, Wake, Leave, PoolTypeOK
    <2>1. Holding' /\ Given'  BY DEF Holding, Given, Null
    <2>2. Returned' = Returned  BY DEF Returned
    <2>3. Counting' /\ NoThreads'  BY <2>2 DEF Counting, NoThreads
    <2> QED  BY <2>1, <2>3
  <1>3. ASSUME NEW w \in Workers, TakeIndex(w) PROVE Kept'
    <2> USE <1>3 DEF TakeIndex, PoolTypeOK
    <2>1. Holding' /\ Given'  BY DEF Holding, Given, Null
    <2>2. Returned' = Returned  BY DEF Returned
    <2>3. Counting' /\ NoThreads'  BY <2>2 DEF Counting, NoThreads
    <2> QED  BY <2>1, <2>3
  <1>4. ASSUME NEW w \in Workers, Finish(w) PROVE Kept'
    <2> USE <1>4 DEF Finish, PoolTypeOK
    <2>1. Waits /\ task[w] # Null /\ thread_tasks[w] = Null  BY DEF Holding
    <2>2. Holding' /\ Given'  BY <2>1 DEF Holding, Given
    <2>3. Returned' = Returned \union {w} /\ w \notin Returned
      BY <2>1 DEF Returned
    <2>4. Cardinality(Returned') = Cardinality(Returned) + 1
      BY <2>3, FiniteReturned, FS_AddElement
    <2>5. Counting' /\ NoThreads'  BY <2>1, <2>4 DEF Counting, NoThreads
    <2> QED  BY <2>2, <2>5
  <1>5. ASSUME NEW w \in Workers, NEW r \in BOOLEAN, BodyReturns(w, r) PROVE Kept'
    <2> USE <1>5 DEF BodyReturns, PoolTypeOK
    <2>1. Holding' /\ Given'  BY DEF Holding, Given, Null
    <2>2. Returned' = Returned  BY DEF Returned
    <2>3. Counting' /\ NoThreads'  BY <2>2 DEF Counting, NoThreads
    <2> QED  BY <2>1, <2>3
  <1>6. ASSUME NEW c \in Counts, RunTask(c) PROVE Kept'
    <2> USE <1>6 DEF RunTask, PoolTypeOK
    <2>1. tasks + 1 # Null  BY DEF Tasks, Null
    <2>2. \A w \in Workers : task[w] = Null  BY DEF Holding
    <2>3. Holding' /\ Given'  BY <2>1, <2>2 DEF Holding, Given, WakeAll
    <2>4. Returned' = {}  BY <2>1 DEF Returned
    <2>5. Counting'  BY <2>1, <2>4, FiniteReturned DEF Counting
    <2>6. NoThreads'  BY DEF NoThreads, WakeAll
    <2> QED  BY <2>3, <2>5, <2>6
  <1>7. ASSUME Check PROVE Kept'
    <2> USE <1>7 DEF Check, PoolTypeOK
    <2>1. Returned' = Returned /\ NoThreads'  BY DEF Returned, NoThreads
    <2>2. CASE ~AllFinished
      BY <2>1, <2>2 DEF Holding, Given, Counting
    <2>3. CASE AllFinished
      <3>1. \A w \in Workers : task[w] = Null
        <4>1. CASE threads = {}  BY <4>1 DEF NoThreads, Holding
        <4>2. CASE threads = Workers
          BY <2>3, <4>2, AllReturned DEF AllFinished, Counting, Returned
        <4> QED  BY <4>1, <4>2
      <3>2. \A w \in Workers : at[w] # "gone" => thread_tasks[w] = Null
        <4>1. CASE threads = {}  BY <4>1 DEF NoThreads
        <4>2. CASE threads = Workers
          BY <2>3, <4>2, AllReturned DEF AllFinished, Counting, Returned
        <4> QED  BY <4>1, <4>2
      <3> QED  BY <2>1, <2>3, <3>1, <3>2 DEF Holding, Given, Counting
    <2> QED  BY <2>2, <2>3
  <1>8. ASSUME WakeOwner PROVE Kept'
    <2> USE <1>8 DEF WakeOwner
    <2>1. Returned' = Returned  BY DEF Returned
    <2> QED  BY <2>1 DEF Holding, Given, Counting, NoThreads
  <1>9. ASSUME Reset PROVE Kept'
    BY <1>9 DEF Reset, Holding, Given, Counting, NoThreads, Null
  <1>10. ASSUME Exit PROVE Kept'
    <2> USE <1>10 DEF Exit, WakeAll, PoolTypeOK
    <2>1. Holding' /\ Given'  BY DEF Holding, Given
    <2>2. Returned' = Returned  BY DEF Returned
    <2>3. Counting' /\ NoThreads'  BY <2>2 DEF Counting, NoThreads
    <2> QED  BY <2>1, <2>3
  <1>11. ASSUME Join PROVE Kept'
    <2> USE <1>11 DEF Join, PoolTypeOK
    <2>1. Holding' /\ Given'  BY DEF Holding, Given
    <2>2. Returned' = Returned  BY DEF Returned
    <2>3. Counting' /\ NoThreads'  BY <2>2 DEF Counting, NoThreads
    <2> QED  BY <2>1, <2>3
  <1>12. CASE UNCHANGED pool_vars
    <2> USE <1>12 DEF pool_vars
    <2>1. Returned' = Returned  BY DEF Returned
    <2> QED  BY <2>1 DEF Holding, Given, Counting, NoThreads
  <1> HIDE DEF Kept
  <1> QED
    BY <1>1, <1>2, <1>3, <1>4, <1>5, <1>6, <1>7, <1>8, <1>9, <1>10, <1>11, <1>12
    DEF PoolNext, Work, Own

LEMMA InvInit == PoolInit => Inv
  <1> SUFFICES ASSUME PoolInit PROVE Inv  OBVIOUS
  <1>1. PoolTypeOK  BY CountsAssumption DEF PoolInit, PoolTypeOK, Places, Null
  <1>2. Holding /\ Given /\ Counting
    BY DEF PoolInit, Holding, Given, Counting, UsesTask, Waits
  <1>3. NoThreads  BY WorkersAssumption DEF PoolInit, NoThreads
  <1> QED  BY <1>1, <1>2, <1>3 DEF Inv, Kept

LEMMA InvStep == Inv /\ [PoolNext]_pool_vars => Inv'
  BY PoolTypeStep, CountingStep DEF Inv

LEMMA InvOutlives == Inv => TasksOutliveTheirUse
  BY DEF Inv, Kept, Holding, Waits, TasksOutliveTheirUse

\* Every variable of the pool has its type.
THEOREM PoolTypes == PoolSpec => []PoolTypeOK
  <1>1. Inv => PoolTypeOK  BY DEF Inv
  <1> QED  BY <1>1, InvInit, InvStep, PTL DEF PoolSpec

\* A task is not used after run_task has returned from it, whoever is woken
\* and whenever exit is called: with a body that only returns.
THEOREM PoolTasksOutliveTheirUse == PoolSpec => []TasksOutliveTheirUse
  BY InvInit, InvStep, InvOutlives, PTL DEF PoolSpec

-----------------------------------------------------------------------------
\* What collects into a vector is a use of the pool, step by step.
LEMMA CollectIsAUse == [Next]_vars => [PoolNext]_pool_vars
  <1> SUFFICES ASSUME [Next]_vars PROVE [PoolNext]_pool_vars  OBVIOUS
  <1> USE DEF PoolNext, Work, Own
  <1>1. ASSUME NEW w \in Workers, PoolStep(w) PROVE PoolNext
    BY <1>1 DEF PoolStep
  <1>2. ASSUME NEW w \in Workers, Append(w) PROVE PoolNext \/ UNCHANGED pool_vars
    BY <1>2 DEF Append
  <1>3. ASSUME NEW w \in Workers, Store(w) \/ FinishShare(w) PROVE PoolNext
    BY <1>3 DEF Store, FinishShare
  <1>4. ASSUME Empty \/ Resize \/ Done PROVE UNCHANGED pool_vars
    BY <1>4 DEF Empty, Resize, Done, vars
  <1>5. ASSUME Start PROVE PoolNext  BY <1>5 DEF Start
  <1>6. ASSUME CheckAll \/ OwnerWakes \/ Return \/ Stop \/ JoinAll PROVE PoolNext
    BY <1>6 DEF CheckAll, OwnerWakes, Return, Stop, JoinAll
  <1>7. CASE UNCHANGED vars  BY <1>7 DEF vars
  <1> HIDE DEF PoolNext
  <1> QED  BY <1>1, <1>2, <1>3, <1>4, <1>5, <1>6, <1>7 DEF Next

\* The pool's specification holds of every program that is one of these.
THEOREM CollectUsesThePool == Spec => PoolSpec
  <1>1. Init => PoolInit  BY DEF Init
  <1> QED  BY <1>1, CollectIsAUse, PTL DEF Spec, PoolSpec

\* No worker works on a task that run_task has returned from.
THEOREM BodiesOutliveTheirUse == Spec => []TasksOutliveTheirUse
  BY CollectUsesThePool, PoolTasksOutliveTheirUse, PTL

-----------------------------------------------------------------------------
(***************************************************************************)
(* What a parallel_for leaves in the vector.  As long as no verify has     *)
(* failed and set_capacity has made no elements of failed appends:         *)
(* every slot below size() has an element or one worker that is about to   *)
(* construct it, whoever constructed one has not passed finished_mutex or  *)
(* is in what the mutex carries, no iteration is taken twice, and the      *)
(* appends are counted: of the iterations taken so far each has added one  *)
(* to size_, but those whose body has not come to it yet.                  *)
(***************************************************************************)
Elements == Tasks \X Nat
VectorTypeOK ==
    /\ capacity \in Nat /\ size \in Nat
    /\ buffer \in [0 .. capacity - 1 -> Elements \union {Raw}]
    /\ slot \in [Workers -> Nat \union {NoSlot}]
    /\ vector_at \in {"running", "stopped"} /\ phantoms \in BOOLEAN
    /\ optional \in BOOLEAN /\ expected \in Nat
    /\ unreleased \in [Workers -> SUBSET Nat]

Here(i) == i \in 0 .. capacity - 1 /\ buffer[i] # Raw
Slots ==
    /\ \A w \in Workers : slot[w] # NoSlot =>
          /\ at[w] = "body" /\ slot[w] < size /\ slot[w] < capacity
          /\ buffer[slot[w]] = Raw
          /\ \A u \in Workers \ {w} : slot[u] # slot[w]
    /\ \A i \in 0 .. capacity - 1 :
          IF i < size THEN Here(i) \/ \E w \in Workers : slot[w] = i ELSE ~Here(i)

Synchronized ==
    /\ \A i \in Nat : Here(i) =>
          i \in released \/ \E w \in Workers : i \in unreleased[w]
    /\ \A w \in Workers : unreleased[w] # {} => UsesTask(w)
    /\ ~Waits => released \subseteq visible

Distinct ==
    /\ \A w \in Workers : at[w] = "body" =>
          /\ index[w] < iterator
          /\ \A u \in Workers \ {w} : at[u] = "body" => index[u] # index[w]
    /\ \A i \in Nat : Here(i) =>
          /\ buffer[i][1] <= tasks
          /\ (Waits /\ buffer[i][1] = current) =>
                /\ buffer[i][2] < iterator
                /\ \A w \in Workers : at[w] = "body" => index[w] # buffer[i][2]
          /\ \A j \in Nat : Here(j) /\ i # j => buffer[i] # buffer[j]
    /\ Waits => current = tasks

Lesser(a, b) == IF a < b THEN a ELSE b
Spent == {w \in Workers : /\ thread_tasks[w] = Null
                          /\ task[w] = Null \/ at[w] = "finishing"}
Pending == {w \in Workers : at[w] = "body" /\ slot[w] = NoSlot}
Counted ==
    /\ ~Waits => Size = expected
    /\ Waits =>
          /\ count \in Counts
          /\ iterator <= count + Cardinality(Spent)
          /\ Spent # {} => iterator >= count \/ size >= capacity
          /\ \E base \in Nat :
                /\ expected = Lesser(base + count, capacity)
                /\ size + Cardinality(Pending) = base + Lesser(iterator, count)

Collected == Slots /\ Synchronized /\ Distinct /\ Counted
CInv == Inv /\ VectorTypeOK /\ (Alive /\ ~phantoms => Collected)

LEMMA VectorTypeStep ==
    Inv /\ VectorTypeOK /\ [Next]_vars => VectorTypeOK'
  <1> SUFFICES ASSUME Inv, VectorTypeOK, [Next]_vars PROVE VectorTypeOK'  OBVIOUS
  <1> USE DEF VectorTypeOK, vector_vars, body_vars
  <1>p. Pushers = Workers  BY PushersAssumption
  <1>1. ASSUME NEW w \in Workers, PoolStep(w) \/ FinishShare(w) PROVE VectorTypeOK'
    BY <1>1 DEF PoolStep, FinishShare
  <1>2. ASSUME NEW w \in Workers, Append(w) PROVE VectorTypeOK'
    BY <1>2 DEF Append, ReserveOptional, ReserveVerified, Reserve
  <1>3. ASSUME NEW w \in Workers, Store(w) PROVE VectorTypeOK'
    <2> USE <1>3 DEF Store, Construct
    <2>1. slot[w] \in Nat  OBVIOUS
    <2>2. <<task[w], index[w]>> \in Elements
      <3>1. task[w] # Null  BY DEF Inv, Kept, Holding, UsesTask
      <3> QED  BY <3>1 DEF Elements, Inv, PoolTypeOK
    <2> QED  BY <2>1, <2>2
  <1>4. ASSUME Empty PROVE VectorTypeOK'
    BY <1>4 DEF Empty, Clear
  <1>5. ASSUME Resize PROVE VectorTypeOK'
    <2>1. PICK c \in Capacities : SetCapacity(c)  BY <1>5 DEF Resize
    <2>2. c \in Nat  BY CapacitiesAssumption
    <2> QED  BY <1>5, <2>1, <2>2 DEF Resize, SetCapacity
  <1>6. ASSUME Start PROVE VectorTypeOK'
    BY <1>6, CountsAssumption DEF Start, Size
  <1>7. ASSUME CheckAll PROVE VectorTypeOK'
    BY <1>7 DEF CheckAll, Size
  <1>8. ASSUME OwnerWakes \/ Return \/ Stop \/ JoinAll \/ Done \/ UNCHANGED vars
        PROVE  VectorTypeOK'
    BY <1>8 DEF OwnerWakes, Return, Stop, JoinAll, Done, vars
  <1> HIDE DEF VectorTypeOK
  <1> QED  BY <1>1, <1>2, <1>3, <1>4, <1>5, <1>6, <1>7, <1>8 DEF Next

LEMMA FiniteParts ==
    /\ IsFiniteSet(Spent) /\ IsFiniteSet(Pending)
    /\ Cardinality(Spent) \in Nat /\ Cardinality(Pending) \in Nat
    /\ Cardinality(Workers) \in Nat
    /\ Cardinality(Spent) <= Cardinality(Workers)
  BY WorkersAssumption, FS_Subset, FS_CardinalityType DEF Spent, Pending

\* A step that moves no body, no iteration and no element changes nothing.
LEMMA QuietStep ==
    ASSUME Collected, UNCHANGED <<vector_vars, body_vars>>, index' = index,
           iterator' = iterator, count' = count, tasks' = tasks, current' = current,
           \A w \in Workers : at'[w] = "body" <=> at[w] = "body",
           \A w \in Workers : UsesTask(w) => UsesTask(w)',
           Spent' = Spent, Waits' <=> Waits
    PROVE  Collected'
  <1>1. Slots'  BY DEF Collected, Slots, Here, vector_vars
  <1>2. Synchronized'
    BY DEF Collected, Synchronized, Here, vector_vars, body_vars
  <1>3. Distinct'
    BY DEF Collected, Distinct, Here, vector_vars, body_vars
  <1>4. Pending' = Pending  BY DEF Pending, vector_vars
  <1>5. Counted'
    BY <1>4 DEF Collected, Counted, Size, Lesser, vector_vars, body_vars
  <1> QED  BY <1>1, <1>2, <1>3, <1>5 DEF Collected

LEMMA PoolStepCollected ==
    ASSUME Inv, Collected, NEW w \in Workers,
           Take(w) \/ Sleep(w) \/ Wake(w) \/ Leave(w),
           UNCHANGED <<vector_vars, body_vars>>
    PROVE  Collected'
  <1> USE DEF Take, Sleep, Wake, Leave, Go, task_vars, shared_vars, Inv, PoolTypeOK
  <1>1. \A u \in Workers : at'[u] = "body" <=> at[u] = "body"  OBVIOUS
  <1>2. \A u \in Workers : UsesTask(u) => UsesTask(u)'  BY DEF UsesTask
  <1>3. Waits' <=> Waits  BY DEF Waits
  <1>4. Spent' = Spent
    <2>1. ASSUME Take(w) PROVE task[w] = Null /\ thread_tasks[w] # Null
      BY <2>1 DEF Kept, Holding, UsesTask
    <2> QED  BY <2>1 DEF Spent, Null
  <1>5. /\ index' = index /\ iterator' = iterator /\ count' = count
        /\ tasks' = tasks /\ current' = current
    OBVIOUS
  <1> QED  BY <1>1, <1>2, <1>3, <1>4, <1>5, QuietStep

LEMMA OthersCollected ==
    ASSUME Inv, Collected, OwnerWakes \/ Stop \/ JoinAll
    PROVE  Collected'
  <1> USE DEF OwnerWakes, Stop, JoinAll, WakeOwner, Exit, Join, WakeAll,
              worker_vars, task_vars, shared_vars, Inv, PoolTypeOK
  <1>1. \A u \in Workers : at'[u] = "body" <=> at[u] = "body"  OBVIOUS
  <1>2. \A u \in Workers : UsesTask(u) => UsesTask(u)'  BY DEF UsesTask
  <1>3. Waits' <=> Waits  BY DEF Waits
  <1>4. Spent' = Spent  BY DEF Spent
  <1>5. /\ index' = index /\ iterator' = iterator /\ count' = count
        /\ tasks' = tasks /\ current' = current
        /\ UNCHANGED <<vector_vars, body_vars>>
    OBVIOUS
  <1> QED  BY <1>1, <1>2, <1>3, <1>4, <1>5, QuietStep

LEMMA Typed ==
    ASSUME VectorTypeOK, NEW i, Here(i)
    PROVE  /\ buffer[i] \in Elements
           /\ buffer[i][1] \in Nat /\ buffer[i][2] \in Nat
  <1>1. buffer[i] \in Elements  BY DEF VectorTypeOK, Here
  <1> QED  BY <1>1 DEF Elements, Tasks

\* AtomicIterator::next: a new iteration, or this worker's share is done.
LEMMA TakeIndexCollected ==
    ASSUME Inv, VectorTypeOK, Collected, NEW w \in Workers, TakeIndex(w),
           UNCHANGED <<vector_vars, body_vars>>
    PROVE  Collected'
  <1> USE DEF TakeIndex, Go, shared_vars
  <1>t. /\ at \in [Workers -> Places] /\ index \in [Workers -> Nat]
        /\ task \in [Workers -> Tasks \union {Null}]
        /\ thread_tasks \in [Workers -> Tasks \union {Null}]
        /\ iterator \in Nat /\ count \in Nat /\ size \in Nat /\ capacity \in Nat
        /\ IteratorRange \in Nat \ {0}
    BY CountsAssumption DEF Inv, PoolTypeOK, VectorTypeOK
  <1>w. Waits /\ task[w] # Null /\ thread_tasks[w] = Null
    BY DEF Inv, Kept, Holding, UsesTask
  <1>u. Waits' /\ \A u \in Workers : UsesTask(u) => UsesTask(u)'
    BY <1>t, <1>w DEF Waits, UsesTask
  <1>s. w \notin Spent  BY <1>w DEF Spent
  <1>1. iterator' = iterator + 1
    <2>1. Spent \subseteq Workers \ {w}  BY <1>s DEF Spent
    <2>2. /\ IsFiniteSet(Workers \ {w})
          /\ Cardinality(Workers \ {w}) = Cardinality(Workers) - 1
      BY WorkersAssumption, FS_RemoveElement
    <2>3. Cardinality(Spent) <= Cardinality(Workers) - 1
      BY <2>1, <2>2, FS_Subset
    <2>4. /\ count + Cardinality(Workers) < IteratorRange
          /\ iterator <= count + Cardinality(Spent)
      BY <1>w, CountsAssumption DEF Collected, Counted
    <2>5. iterator + 1 < IteratorRange
      BY <1>t, <2>3, <2>4, FiniteParts
    <2> QED  BY <1>t, <2>5
  <1>2. Slots'
    BY <1>t DEF Collected, Slots, Here, vector_vars
  <1>3. Synchronized'
    BY <1>u, <1>w DEF Collected, Synchronized, Here, vector_vars, body_vars
  <1>4. Distinct'
    <2>1. \A u \in Workers : at'[u] = "body" =>
             \/ u # w /\ at[u] = "body" /\ index'[u] = index[u]
             \/ u = w /\ index'[u] = iterator
      BY <1>t
    <2>2. \A u \in Workers : at'[u] = "body" =>
             /\ index'[u] < iterator'
             /\ \A v \in Workers \ {u} : at'[v] = "body" => index'[v] # index'[u]
      BY <1>t, <1>1, <2>1 DEF Collected, Distinct
    <2>3. ASSUME NEW i \in Nat, Here(i)
          PROVE  /\ buffer[i][1] <= tasks
                 /\ (buffer[i][1] = current) =>
                       /\ buffer[i][2] < iterator'
                       /\ \A u \in Workers : at'[u] = "body" => index'[u] # buffer[i][2]
                 /\ \A j \in Nat : Here(j) /\ i # j => buffer[i] # buffer[j]
      BY <1>t, <1>w, <1>1, <2>1, <2>3, Typed DEF Collected, Distinct
    <2>4. tasks' = tasks /\ current' = current /\ buffer' = buffer /\ capacity' = capacity
      BY DEF vector_vars
    <2> QED
      BY <1>w, <1>u, <2>2, <2>3, <2>4 DEF Collected, Distinct, Here
  <1>5. Counted'
    <2>1. PICK base \in Nat :
             /\ expected = Lesser(base + count, capacity)
             /\ size + Cardinality(Pending) = base + Lesser(iterator, count)
      BY <1>w DEF Collected, Counted
    <2>2. /\ count \in Counts /\ iterator <= count + Cardinality(Spent)
          /\ Spent # {} => iterator >= count \/ size >= capacity
      BY <1>w DEF Collected, Counted
    <2>3. slot[w] = NoSlot  BY DEF Collected, Slots
    <2>4. CASE iterator < count
      <3>1. Spent' = Spent  BY <1>t, <1>w, <2>4 DEF Spent
      <3>2. Pending' = Pending \union {w} /\ w \notin Pending
        BY <1>t, <2>3, <2>4 DEF Pending, vector_vars
      <3>3. Cardinality(Pending') = Cardinality(Pending) + 1
        BY <3>2, FiniteParts, FS_AddElement
      <3>4. size' + Cardinality(Pending') = base + Lesser(iterator', count')
        BY <1>t, <1>1, <2>1, <2>4, <3>3, FiniteParts DEF Lesser, vector_vars
      <3> QED
        BY <1>t, <1>u, <1>1, <2>1, <2>2, <2>4, <3>1, <3>4, FiniteParts
        DEF Counted, vector_vars, body_vars
    <2>5. CASE ~(iterator < count)
      <3>1. Spent' = Spent \union {w}  BY <1>t, <1>w, <2>5 DEF Spent
      <3>2. Cardinality(Spent') = Cardinality(Spent) + 1
        BY <3>1, <1>s, FiniteParts, FS_AddElement
      <3>3. Pending' = Pending  BY <1>t, <2>5 DEF Pending, vector_vars
      <3>4. size' + Cardinality(Pending') = base + Lesser(iterator', count')
        BY <1>t, <1>1, <2>1, <2>5, <3>3, FiniteParts DEF Lesser, vector_vars
      <3> QED
        BY <1>t, <1>u, <1>1, <2>1, <2>2, <2>5, <3>2, <3>4, FiniteParts
        DEF Counted, vector_vars, body_vars
    <2> QED  BY <2>4, <2>5
  <1> QED  BY <1>2, <1>3, <1>4, <1>5 DEF Collected

\* What a worker in a body knows of itself.
LEMMA BodyOfTask ==
    ASSUME Inv, NEW w \in Workers, UsesTask(w)
    PROVE  /\ Waits /\ task[w] = current /\ task[w] # Null /\ thread_tasks[w] = Null
           /\ at \in [Workers -> Places] /\ index \in [Workers -> Nat]
           /\ task \in [Workers -> Tasks \union {Null}]
           /\ thread_tasks \in [Workers -> Tasks \union {Null}]
           /\ iterator \in Nat /\ count \in Nat
  BY DEF Inv, Kept, Holding, PoolTypeOK

\* A body reserves a slot.
LEMMA ReserveCollected ==
    ASSUME Inv, VectorTypeOK, Collected, NEW w \in Workers,
           at[w] = "body", Reserve(w), size < capacity,
           UNCHANGED <<pool_vars, body_vars>>
    PROVE  Collected'
  <1> USE DEF Reserve, pool_vars, worker_vars, task_vars, shared_vars
  <1>t. /\ size \in Nat /\ capacity \in Nat /\ slot \in [Workers -> Nat \union {NoSlot}]
        /\ NoSlot \notin Nat
    BY CapacitiesAssumption DEF VectorTypeOK
  <1>b. Waits /\ iterator \in Nat /\ count \in Nat  BY BodyOfTask DEF UsesTask
  <1>1. slot' = [slot EXCEPT ![w] = size] /\ size' = size + 1 /\ slot[w] = NoSlot
    OBVIOUS
  <1>2. Slots'
    <2>1. ASSUME NEW u \in Workers, slot'[u] # NoSlot
          PROVE  /\ at[u] = "body" /\ slot'[u] < size' /\ slot'[u] < capacity
                 /\ buffer[slot'[u]] = Raw
                 /\ \A v \in Workers \ {u} : slot'[v] # slot'[u]
      <3>1. ~Here(size) /\ size \in 0 .. capacity - 1
        BY <1>t DEF Collected, Slots
      <3>2. CASE u = w
        BY <1>t, <1>1, <3>1, <3>2 DEF Collected, Slots, Here
      <3>3. CASE u # w
        BY <1>t, <1>1, <2>1, <3>3 DEF Collected, Slots
      <3> QED  BY <3>2, <3>3
    <2>2. ASSUME NEW i \in 0 .. capacity - 1
          PROVE  IF i < size' THEN Here(i) \/ \E u \in Workers : slot'[u] = i
                 ELSE ~Here(i)
      <3>1. CASE i = size  BY <1>t, <1>1, <3>1
      <3>2. CASE i < size  BY <1>t, <1>1, <3>2 DEF Collected, Slots
      <3>3. CASE i > size  BY <1>t, <1>1, <3>3 DEF Collected, Slots
      <3> QED  BY <1>t, <3>1, <3>2, <3>3
    <2> QED  BY <2>1, <2>2 DEF Slots, Here
  <1>3. Synchronized'
    BY DEF Collected, Synchronized, Here, body_vars, Waits, UsesTask
  <1>4. Distinct'  BY DEF Collected, Distinct, Here, Waits
  <1>5. Counted'
    <2>1. Pending = Pending' \union {w} /\ w \notin Pending'
      BY <1>t, <1>1 DEF Pending
    <2>2. IsFiniteSet(Pending')
      BY <2>1, FiniteParts, FS_Subset
    <2>3. Cardinality(Pending) = Cardinality(Pending') + 1
      BY <2>1, <2>2, FS_AddElement
    <2>4. Spent' = Spent /\ (Waits' <=> Waits)  BY DEF Spent, Waits
    <2>5. Cardinality(Pending') \in Nat  BY <2>2, FS_CardinalityType
    <2>6. PICK base \in Nat :
             /\ expected = Lesser(base + count, capacity)
             /\ size + Cardinality(Pending) = base + Lesser(iterator, count)
      BY <1>b DEF Collected, Counted
    <2>7. size' + Cardinality(Pending') = base + Lesser(iterator, count)
      BY <1>t, <1>1, <2>3, <2>5, <2>6
    <2>8. Spent' # {} => iterator >= count \/ size' >= capacity
      BY <1>t, <1>b, <1>1, <2>4 DEF Collected, Counted
    <2> QED
      BY <1>b, <2>4, <2>6, <2>7, <2>8 DEF Collected, Counted, body_vars
  <1> QED  BY <1>2, <1>3, <1>4, <1>5 DEF Collected

\* There is no room, and the body ends its worker's share.
LEMMA FullCollected ==
    ASSUME Inv, VectorTypeOK, Collected, NEW w \in Workers,
           at[w] = "body", Reserve(w), ~(size < capacity),
           BodyReturns(w, FALSE), UNCHANGED body_vars
    PROVE  Collected'
  <1> USE DEF Reserve, BodyReturns, Go, task_vars, shared_vars
  <1>t. /\ size \in Nat /\ capacity \in Nat /\ slot \in [Workers -> Nat \union {NoSlot}]
        /\ NoSlot \notin Nat
    BY CapacitiesAssumption DEF VectorTypeOK
  <1>b. /\ Waits /\ task[w] # Null /\ thread_tasks[w] = Null
        /\ at \in [Workers -> Places] /\ index \in [Workers -> Nat]
        /\ iterator \in Nat /\ count \in Nat
    BY BodyOfTask DEF UsesTask
  <1>1. /\ slot' = slot /\ size' = size + 1 /\ slot[w] = NoSlot
        /\ at'[w] = "finishing" /\ (Waits' <=> Waits)
        /\ \A u \in Workers \ {w} : at'[u] = at[u] /\ index'[u] = index[u]
    BY <1>t, <1>b DEF Waits
  <1>2. Slots'
    <2>1. \A u \in Workers : slot[u] # NoSlot => at'[u] = "body" /\ slot[u] < size'
      BY <1>t, <1>1 DEF Collected, Slots
    <2>2. ASSUME NEW i \in 0 .. capacity - 1
          PROVE  IF i < size' THEN Here(i) \/ \E u \in Workers : slot[u] = i
                 ELSE ~Here(i)
      BY <1>t, <1>1 DEF Collected, Slots
    <2> QED  BY <1>1, <2>1, <2>2 DEF Collected, Slots, Here
  <1>3. Synchronized'
    BY <1>b, <1>1 DEF Collected, Synchronized, Here, body_vars, UsesTask
  <1>4. Distinct'  BY <1>1 DEF Collected, Distinct, Here
  <1>5. Counted'
    <2>1. Pending = Pending' \union {w} /\ w \notin Pending'
      BY <1>1 DEF Pending
    <2>2. IsFiniteSet(Pending')
      BY <2>1, FiniteParts, FS_Subset
    <2>3. Cardinality(Pending) = Cardinality(Pending') + 1
      BY <2>1, <2>2, FS_AddElement
    <2>4. Spent' = Spent \union {w} /\ w \notin Spent
      BY <1>b, <1>1 DEF Spent
    <2>5. Cardinality(Spent') = Cardinality(Spent) + 1
      BY <2>4, FiniteParts, FS_AddElement
    <2>6. Cardinality(Pending') \in Nat  BY <2>2, FS_CardinalityType
    <2>7. PICK base \in Nat :
             /\ expected = Lesser(base + count, capacity)
             /\ size + Cardinality(Pending) = base + Lesser(iterator, count)
      BY <1>b DEF Collected, Counted
    <2>8. size' + Cardinality(Pending') = base + Lesser(iterator, count)
      BY <1>t, <1>1, <2>3, <2>6, <2>7
    <2>9. count \in Counts /\ iterator <= count + Cardinality(Spent')
      BY <1>b, <2>5, FiniteParts DEF Collected, Counted
    <2>10. size' >= capacity  BY <1>t, <1>1
    <2> QED
      BY <1>b, <1>1, <2>7, <2>8, <2>9, <2>10 DEF Counted, body_vars
  <1> QED  BY <1>2, <1>3, <1>4, <1>5 DEF Collected

LEMMA AppendCollected ==
    ASSUME Inv, VectorTypeOK, Collected, NEW w \in Workers, Append(w), Alive'
    PROVE  Collected'
  <1>t. slot \in [Workers -> Nat \union {NoSlot}] /\ size \in Nat /\ NoSlot \notin Nat
    BY CapacitiesAssumption DEF VectorTypeOK
  <1>1. at[w] = "body" /\ Reserve(w) /\ UNCHANGED body_vars
    BY DEF Append, ReserveOptional, ReserveVerified
  <1>2. CASE size < capacity
    <2>1. slot'[w] # NoSlot  BY <1>t, <1>1, <1>2 DEF Reserve
    <2> QED  BY <1>1, <1>2, <2>1, ReserveCollected DEF Append
  <1>3. CASE ~(size < capacity)
    <2>1. slot'[w] = NoSlot  BY <1>t, <1>1, <1>3 DEF Reserve
    <2>2. optional  BY <1>3 DEF Append, ReserveVerified, Alive
    <2> QED  BY <1>1, <1>3, <2>1, <2>2, FullCollected DEF Append
  <1> QED  BY <1>2, <1>3

\* A body constructs its element.
LEMMA StoreCollected ==
    ASSUME Inv, VectorTypeOK, Collected, NEW w \in Workers, Store(w)
    PROVE  Collected'
  <1> USE DEF Store, Construct, BodyReturns, Go, task_vars, shared_vars
  <1> DEFINE s == slot[w]
             value == <<task[w], index[w]>>
  <1>t. /\ slot \in [Workers -> Nat \union {NoSlot}] /\ NoSlot \notin Nat
        /\ size \in Nat /\ capacity \in Nat
        /\ buffer \in [0 .. capacity - 1 -> Elements \union {Raw}]
        /\ unreleased \in [Workers -> SUBSET Nat]
    BY CapacitiesAssumption DEF VectorTypeOK
  <1>b. /\ Waits /\ task[w] = current /\ task[w] # Null /\ thread_tasks[w] = Null
        /\ at \in [Workers -> Places] /\ index \in [Workers -> Nat]
        /\ task \in [Workers -> Tasks \union {Null}]
        /\ iterator \in Nat /\ count \in Nat
    BY BodyOfTask DEF UsesTask
  <1>v. value # Raw
    BY <1>b, RawAssumption
  <1>s. /\ at[w] = "body" /\ s \in 0 .. capacity - 1 /\ s < size /\ buffer[s] = Raw
        /\ \A u \in Workers \ {w} : slot[u] # s
    BY <1>t DEF Collected, Slots
  <1>1. /\ buffer' = [buffer EXCEPT ![s] = value] /\ capacity' = capacity
        /\ size' = size /\ slot' = [slot EXCEPT ![w] = NoSlot]
        /\ unreleased' = [unreleased EXCEPT ![w] = @ \union {s}]
        /\ at' = [at EXCEPT ![w] = "running"] /\ (Waits' <=> Waits)
        /\ index' = [index EXCEPT ![w] = 0]
    BY DEF Waits
  <1>h. \A i : Here(i)' <=> (Here(i) \/ i = s)
    BY <1>t, <1>v, <1>s, <1>1 DEF Here
  <1>2. Slots'
    <2>1. ASSUME NEW u \in Workers, slot'[u] # NoSlot
          PROVE  /\ at'[u] = "body" /\ slot'[u] < size /\ slot'[u] < capacity
                 /\ buffer'[slot'[u]] = Raw
                 /\ \A v \in Workers \ {u} : slot'[v] # slot'[u]
      <3>1. u # w /\ slot'[u] = slot[u]  BY <1>t, <1>1, <2>1
      <3>2. slot[u] # s  BY <1>s, <3>1
      <3> QED  BY <1>t, <1>b, <1>1, <2>1, <3>1, <3>2 DEF Collected, Slots
    <2>2. ASSUME NEW i \in 0 .. capacity - 1
          PROVE  IF i < size THEN Here(i)' \/ \E u \in Workers : slot'[u] = i
                 ELSE ~Here(i)'
      BY <1>t, <1>s, <1>1, <1>h DEF Collected, Slots
    <2> QED  BY <1>1, <2>1, <2>2 DEF Slots
  <1>3. Synchronized'
    <2>1. \A u \in Workers : UsesTask(u) => UsesTask(u)'
      BY <1>b, <1>1 DEF UsesTask
    <2>2. \A u \in Workers : unreleased'[u] # {} => UsesTask(u)'
      BY <1>b, <1>t, <1>1, <2>1 DEF Collected, Synchronized, UsesTask
    <2>3. \A i \in Nat : Here(i)' =>
             i \in released \/ \E u \in Workers : i \in unreleased'[u]
      BY <1>t, <1>1, <1>h DEF Collected, Synchronized
    <2> QED  BY <1>b, <1>1, <2>2, <2>3 DEF Synchronized
  <1>4. Distinct'
    <2>1. \A u \in Workers : at'[u] = "body" =>
             u # w /\ at[u] = "body" /\ index'[u] = index[u]
      BY <1>b, <1>1
    <2>2. value[1] = current /\ value[2] = index[w]  BY <1>b
    <2>3. index[w] < iterator /\ current = tasks
      BY <1>b, <1>s DEF Collected, Distinct
    <2>4. ASSUME NEW i \in Nat, Here(i), i # s
          PROVE  buffer'[i] = buffer[i] /\ buffer[i] # value
      <3>1. buffer[i][1] = current => index[w] # buffer[i][2]
        BY <1>b, <1>s, <2>4 DEF Collected, Distinct
      <3> QED  BY <1>t, <1>1, <2>2, <2>4, <3>1 DEF Here
    <2>5. buffer'[s] = value  BY <1>t, <1>s, <1>1
    <2>6. \A u \in Workers : at'[u] = "body" =>
             /\ index'[u] < iterator /\ index'[u] # index[w]
             /\ \A v \in Workers \ {u} : at'[v] = "body" => index'[v] # index'[u]
      BY <1>s, <2>1 DEF Collected, Distinct
    <2>7. ASSUME NEW i \in Nat, Here(i)'
          PROVE  /\ buffer'[i][1] <= tasks
                 /\ buffer'[i][1] = current =>
                       /\ buffer'[i][2] < iterator
                       /\ \A u \in Workers : at'[u] = "body" => index'[u] # buffer'[i][2]
                 /\ \A j \in Nat : Here(j)' /\ i # j => buffer'[i] # buffer'[j]
      <3> HIDE DEF s, value
      <3>1. CASE i = s
        <4>1. tasks <= tasks
          BY DEF Inv, PoolTypeOK, Tasks, Null
        <4>2. \A j \in Nat : Here(j)' /\ i # j => buffer'[i] # buffer'[j]
          BY <1>h, <2>4, <2>5, <3>1
        <4> QED  BY <2>2, <2>3, <2>5, <2>6, <3>1, <4>1, <4>2
      <3>2. CASE i # s
        <4>1. Here(i) /\ buffer'[i] = buffer[i] /\ buffer[i] # value
          BY <1>h, <2>4, <2>7, <3>2
        <4>2. \A j \in Nat : Here(j)' /\ i # j => buffer'[i] # buffer'[j]
          BY <1>h, <2>4, <2>5, <4>1 DEF Collected, Distinct
        <4> QED  BY <1>b, <2>1, <4>1, <4>2 DEF Collected, Distinct
      <3> QED  BY <3>1, <3>2
    <2> QED  BY <1>b, <1>1, <2>3, <2>6, <2>7 DEF Distinct
  <1>5. Counted'
    <2>1. Pending' = Pending
      BY <1>t, <1>b, <1>s, <1>1 DEF Pending
    <2>2. Spent' = Spent
      BY <1>b, <1>s, <1>1 DEF Spent
    <2> QED  BY <1>b, <1>1, <2>1, <2>2 DEF Collected, Counted
  <1> QED  BY <1>2, <1>3, <1>4, <1>5 DEF Collected

\* A worker finishes its share, and what it has constructed with it.
LEMMA FinishCollected ==
    ASSUME Inv, VectorTypeOK, Collected, NEW w \in Workers, FinishShare(w)
    PROVE  Collected'
  <1> USE DEF FinishShare, Finish, Go, task_vars, vector_vars
  <1>b. /\ Waits /\ thread_tasks[w] = Null
        /\ at \in [Workers -> Places] /\ task \in [Workers -> Tasks \union {Null}]
        /\ unreleased \in [Workers -> SUBSET Nat]
    BY BodyOfTask DEF UsesTask, VectorTypeOK
  <1>1. /\ at[w] = "finishing" /\ at'[w] = "ready" /\ task'[w] = Null
        /\ \A u \in Workers \ {w} : at'[u] = at[u] /\ task'[u] = task[u]
        /\ Waits'
    BY <1>b DEF Waits
  <1>2. Slots'  BY <1>1 DEF Collected, Slots, Here
  <1>3. Synchronized'
    <2>1. released' = released \union unreleased[w]
          /\ unreleased' = [unreleased EXCEPT ![w] = {}]
      OBVIOUS
    <2>2. \A u \in Workers : unreleased'[u] # {} => UsesTask(u)'
      BY <1>b, <1>1, <2>1 DEF Collected, Synchronized, UsesTask
    <2> QED  BY <1>b, <1>1, <2>1, <2>2 DEF Collected, Synchronized, Here
  <1>4. Distinct'  BY <1>b, <1>1 DEF Collected, Distinct, Here
  <1>5. Counted'
    <2>1. Pending' = Pending  BY <1>1 DEF Pending
    <2>2. Spent' = Spent  BY <1>b, <1>1 DEF Spent
    <2> QED  BY <1>b, <1>1, <2>1, <2>2 DEF Collected, Counted
  <1> QED  BY <1>2, <1>3, <1>4, <1>5 DEF Collected

\* Outside of run_task no worker has anything in hand.
LEMMA NobodyInBodies ==
    ASSUME Inv, Collected, ~Waits, NEW w \in Workers
    PROVE  /\ ~UsesTask(w) /\ at[w] # "body" /\ task[w] = Null
           /\ slot[w] = NoSlot /\ unreleased[w] = {}
  <1>1. ~UsesTask(w) /\ task[w] = Null  BY DEF Inv, Kept, Holding
  <1>2. at[w] # "body"  BY <1>1 DEF UsesTask
  <1> QED  BY <1>1, <1>2 DEF Collected, Slots, Synchronized

\* Either the iterator has come to its end or the vector has: then no append
\* is missing.
LEMMA CheckCollected ==
    ASSUME Inv, Inv', VectorTypeOK, Collected, CheckAll
    PROVE  Collected'
  <1> USE DEF CheckAll, Check, vector_vars, worker_vars, task_vars, shared_vars
  <1>t. size \in Nat /\ capacity \in Nat /\ count \in Nat /\ iterator \in Nat
    BY DEF VectorTypeOK, Inv, PoolTypeOK
  <1>w. Waits  BY DEF Waits
  <1>1. Slots'  BY DEF Collected, Slots, Here
  <1>2. Synchronized'
    BY DEF Collected, Synchronized, Here, UsesTask
  <1>3. Distinct'
    BY <1>w DEF Collected, Distinct, Here
  <1>4. CASE ~AllFinished
    <2>1. Waits' /\ expected' = expected  BY <1>4 DEF Waits
    <2>2. Spent' = Spent /\ Pending' = Pending  BY DEF Spent, Pending
    <2>3. Counted'  BY <1>w, <2>1, <2>2 DEF Collected, Counted
    <2> QED  BY <1>1, <1>2, <1>3, <2>3 DEF Collected
  <1>5. CASE AllFinished
    <2>1. ~Waits'  BY <1>5 DEF Waits
    <2>2. CASE threads = {}
      BY <1>1, <1>2, <1>3, <1>5, <2>1, <2>2 DEF Collected, Counted, Size
    <2>3. CASE threads = Workers
      <3>1. Returned = Workers
        BY <1>5, <1>w, <2>3, AllReturned DEF AllFinished, Inv, Kept, Counting
      <3>2. \A w \in Workers : thread_tasks[w] = Null /\ task[w] = Null
        BY <3>1 DEF Returned
      <3>3. Pending = {}
        BY <3>2 DEF Pending, Inv, Kept, Holding, UsesTask
      <3>4. Spent # {}
        BY <3>2, WorkersAssumption DEF Spent
      <3>5. Cardinality(Pending) = 0
        BY <3>3, FS_EmptySet
      <3>6. PICK base \in Nat :
               /\ expected = Lesser(base + count, capacity)
               /\ size + 0 = base + Lesser(iterator, count)
        BY <1>w, <3>5 DEF Collected, Counted
      <3>7. iterator >= count \/ size >= capacity
        BY <1>w, <3>4 DEF Collected, Counted
      <3>8. Size = expected
        BY <1>t, <3>6, <3>7 DEF Size, Lesser
      <3>9. expected' = expected
        BY <2>3, WorkersAssumption
      <3>10. Counted'  BY <2>1, <3>8, <3>9 DEF Counted, Size
      <3> QED  BY <1>1, <1>2, <1>3, <3>10 DEF Collected
    <2> QED  BY <2>2, <2>3 DEF Inv, PoolTypeOK
  <1> QED  BY <1>4, <1>5

LEMMA ReturnCollected ==
    ASSUME Inv, Collected, Return
    PROVE  Collected'
  <1> USE DEF Return, Reset, vector_vars, body_vars, worker_vars
  <1>1. ~Waits /\ ~Waits'  BY DEF Waits
  <1>2. \A w \in Workers : at'[w] # "body"  BY <1>1, NobodyInBodies
  <1>3. Slots'  BY DEF Collected, Slots, Here
  <1>4. Synchronized'  BY <1>1 DEF Collected, Synchronized, Here, UsesTask
  <1>5. Distinct'  BY <1>1, <1>2 DEF Collected, Distinct, Here
  <1>6. Counted'  BY <1>1 DEF Collected, Counted, Size
  <1> QED  BY <1>3, <1>4, <1>5, <1>6 DEF Collected

\* A new task has new elements.
LEMMA StartCollected ==
    ASSUME Inv, VectorTypeOK, Collected, Start
    PROVE  Collected'
  <1> USE DEF vector_vars
  <1>1. PICK c \in Counts :
           /\ RunTask(c)
           /\ expected' = IF Size + c < capacity THEN Size + c ELSE capacity
           /\ UNCHANGED <<vector_vars, optional, unreleased, released, visible, phantoms>>
    BY DEF Start
  <1>t. /\ size \in Nat /\ capacity \in Nat /\ c \in Nat /\ tasks \in Nat
        /\ at \in [Workers -> Places]
    BY CountsAssumption DEF VectorTypeOK, Inv, PoolTypeOK, Tasks, Null
  <1>w. ~Waits /\ Waits'  BY <1>1 DEF RunTask, Waits
  <1>n. \A w \in Workers : at'[w] # "body" /\ slot[w] = NoSlot /\ unreleased[w] = {}
    BY <1>1, <1>w, <1>t, NobodyInBodies DEF RunTask, WakeAll
  <1>2. Slots'  BY <1>1, <1>n DEF Collected, Slots, Here
  <1>3. Synchronized'
    BY <1>1, <1>n, <1>w DEF Collected, Synchronized, Here
  <1>4. Distinct'
    <2>1. tasks' = tasks + 1 /\ current' = tasks + 1  BY <1>1 DEF RunTask
    <2>2. ASSUME NEW i \in Nat, Here(i)
          PROVE  buffer[i][1] <= tasks' /\ buffer[i][1] # current'
      BY <1>t, <2>1, <2>2, Typed DEF Collected, Distinct
    <2>3. buffer' = buffer /\ capacity' = capacity  BY <1>1
    <2> QED  BY <1>n, <2>1, <2>2, <2>3 DEF Collected, Distinct, Here
  <1>5. Counted'
    <2>1. Pending' = {}  BY <1>n DEF Pending
    <2>2. Spent' = {}
      BY <1>1, <1>t DEF RunTask, Spent, Null
    <2>3. Cardinality(Pending') = 0 /\ Cardinality(Spent') = 0
      BY <2>1, <2>2, FS_EmptySet
    <2>4. count' = c /\ iterator' = 0 /\ size' = size /\ capacity' = capacity
      BY <1>1 DEF RunTask
    <2>5. expected' = Lesser(size + c, capacity)
      BY <1>1, <1>t DEF Size, Lesser
    <2>6. size + 0 = size + Lesser(0, c)  BY <1>t DEF Lesser
    <2>7. iterator' <= count' + Cardinality(Spent')  BY <1>t, <2>3, <2>4
    <2> QED
      BY <1>t, <1>w, <2>2, <2>3, <2>4, <2>5, <2>6, <2>7 DEF Counted
  <1> QED  BY <1>2, <1>3, <1>4, <1>5 DEF Collected

LEMMA EmptyCollected ==
    ASSUME Inv, VectorTypeOK, Collected, Empty
    PROVE  Collected'
  <1> USE DEF Empty, Clear, pool_vars, worker_vars, task_vars, shared_vars
  <1>t. size \in Nat /\ capacity \in Nat
        /\ buffer \in [0 .. capacity - 1 -> Elements \union {Raw}]
    BY DEF VectorTypeOK
  <1>w. ~Waits /\ ~Waits'  BY DEF Waits
  <1>n. \A w \in Workers : slot[w] = NoSlot /\ unreleased[w] = {} /\ at[w] # "body"
    BY <1>w, NobodyInBodies
  <1>1. \A i : ~Here(i)'
    <2>1. ASSUME NEW i \in 0 .. capacity - 1 PROVE buffer'[i] = Raw
      <3>1. CASE i < Size  BY <1>t, <3>1
      <3>2. CASE ~(i < Size)
        <4>1. ~(i < size)  BY <1>t, <3>2 DEF Size
        <4> QED  BY <1>t, <3>2, <4>1 DEF Collected, Slots, Here
      <3> QED  BY <3>1, <3>2
    <2> QED  BY <2>1 DEF Here
  <1>2. Slots'  BY <1>t, <1>n, <1>1 DEF Slots
  <1>3. Synchronized'  BY <1>n, <1>w, <1>1 DEF Synchronized
  <1>4. Distinct'  BY <1>n, <1>w, <1>1 DEF Distinct
  <1>5. Counted'  BY <1>t, <1>w DEF Counted, Size
  <1> QED  BY <1>2, <1>3, <1>4, <1>5 DEF Collected

\* A vector without elements stays one, phantoms aside.
LEMMA ResizeCollected ==
    ASSUME Inv, VectorTypeOK, Collected, Resize, Alive', ~phantoms'
    PROVE  Collected'
  <1> USE DEF pool_vars, worker_vars, task_vars, shared_vars
  <1>0. PICK c \in Capacities : SetCapacity(c)  BY DEF Resize
  <1>t. size \in Nat /\ capacity \in Nat /\ c \in Nat
        /\ buffer \in [0 .. capacity - 1 -> Elements \union {Raw}]
    BY CapacitiesAssumption DEF VectorTypeOK
  <1>w. ~Waits /\ ~Waits'  BY DEF Resize, Waits
  <1>n. \A w \in Workers : slot[w] = NoSlot /\ unreleased[w] = {} /\ at[w] # "body"
    BY <1>w, NobodyInBodies
  <1>1. /\ Size = 0 /\ capacity' = c /\ size' = size /\ slot' = slot
        /\ buffer' = IF c = capacity THEN buffer ELSE [i \in 0 .. c - 1 |-> Raw]
    BY <1>0 DEF SetCapacity, Alive
  <1>2. Size' = 0
    <2>1. ~(Size' > Size)  BY Zenon DEF Resize
    <2>2. Size' \in Nat  BY <1>t, <1>1 DEF Size
    <2> HIDE DEF Size
    <2> QED  BY <1>1, <2>1, <2>2
  <1>3. \A i : ~Here(i)'
    <2>1. ASSUME NEW i \in 0 .. c - 1 PROVE buffer'[i] = Raw
      <3>1. CASE c # capacity  BY <1>1, <3>1
      <3>2. CASE c = capacity
        <4>1. ~(i < size)  BY <1>t, <1>1, <3>2 DEF Size
        <4> QED  BY <1>1, <3>2, <4>1 DEF Collected, Slots, Here
      <3> QED  BY <3>1, <3>2
    <2> QED  BY <1>1, <2>1 DEF Here
  <1>4. Slots'
    <2>1. \A i \in 0 .. capacity' - 1 : ~(i < size')
      BY <1>t, <1>1, <1>2 DEF Size
    <2> QED  BY <1>1, <1>n, <1>3, <2>1 DEF Slots
  <1>5. Synchronized'
    BY <1>n, <1>w, <1>3 DEF Resize, Collected, Synchronized
  <1>6. Distinct'  BY <1>n, <1>w, <1>3 DEF Resize, Distinct
  <1>7. Counted'  BY <1>w, <1>1, <1>2 DEF Resize, Collected, Counted
  <1> QED  BY <1>4, <1>5, <1>6, <1>7 DEF Collected

LEMMA CollectedStep ==
    ASSUME CInv, Inv', [Next]_vars
    PROVE  CInv'
  <1> USE DEF CInv
  <1>t. VectorTypeOK'  BY VectorTypeStep
  <1> SUFFICES ASSUME Alive', ~phantoms' PROVE Collected'
    BY <1>t
  <1>a. Alive /\ ~phantoms => Collected  OBVIOUS
  <1>1. ASSUME NEW w \in Workers, PoolStep(w), Alive PROVE Collected'
    <2>1. ~phantoms /\ UNCHANGED <<vector_vars, body_vars>>
      BY <1>1 DEF PoolStep, body_vars
    <2>2. CASE TakeIndex(w)
      BY <1>1, <2>1, <2>2, TakeIndexCollected
    <2>3. CASE Take(w) \/ Sleep(w) \/ Wake(w) \/ Leave(w)
      BY <1>1, <2>1, <2>3, PoolStepCollected
    <2> QED  BY <1>1, <2>2, <2>3 DEF PoolStep
  <1>2. ASSUME NEW w \in Workers, Append(w), Alive PROVE Collected'
    <2>1. ~phantoms  BY <1>2 DEF Append, body_vars
    <2> QED  BY <1>2, <2>1, AppendCollected
  <1>3. ASSUME NEW w \in Workers, Store(w), Alive PROVE Collected'
    <2>1. ~phantoms  BY <1>3 DEF Store
    <2> QED  BY <1>3, <2>1, StoreCollected
  <1>4. ASSUME NEW w \in Workers, FinishShare(w), Alive PROVE Collected'
    <2>1. ~phantoms  BY <1>4 DEF FinishShare
    <2> QED  BY <1>4, <2>1, FinishCollected
  <1>5. ASSUME Empty, Alive PROVE Collected'
    <2>1. ~phantoms  BY <1>5 DEF Empty
    <2> QED  BY <1>5, <2>1, EmptyCollected
  <1>6. ASSUME Resize, Alive PROVE Collected'
    <2>1. ~phantoms  BY Zenon, <1>6 DEF Resize
    <2> QED  BY <1>6, <2>1, ResizeCollected
  <1>7. ASSUME Start, Alive PROVE Collected'
    <2>1. ~phantoms  BY <1>7 DEF Start
    <2> QED  BY <1>7, <2>1, StartCollected
  <1>8. ASSUME CheckAll, Alive PROVE Collected'
    <2>1. ~phantoms  BY <1>8 DEF CheckAll
    <2> QED  BY <1>8, <2>1, CheckCollected
  <1>9. ASSUME Return, Alive PROVE Collected'
    <2>1. ~phantoms  BY <1>9 DEF Return, body_vars
    <2> QED  BY <1>9, <2>1, ReturnCollected
  <1>10. ASSUME OwnerWakes \/ Stop \/ JoinAll, Alive PROVE Collected'
    <2>1. ~phantoms  BY <1>10 DEF OwnerWakes, Stop, JoinAll, body_vars
    <2> QED  BY <1>10, <2>1, OthersCollected
  <1>11. CASE UNCHANGED vars
    <2>1. Alive /\ ~phantoms /\ UNCHANGED <<vector_vars, body_vars, pool_vars>>
      BY <1>11 DEF vars, vector_vars, body_vars, Alive
    <2>2. /\ index' = index /\ iterator' = iterator /\ count' = count
          /\ tasks' = tasks /\ current' = current
          /\ at' = at /\ task' = task /\ thread_tasks' = thread_tasks
          /\ owner_at' = owner_at
      BY <2>1 DEF pool_vars, worker_vars, task_vars, shared_vars
    <2>3. Spent' = Spent /\ (Waits' <=> Waits)
          /\ \A w \in Workers : UsesTask(w) => UsesTask(w)'
      BY <2>2 DEF Spent, Waits, UsesTask
    <2> QED  BY <2>1, <2>2, <2>3, QuietStep
  <1> QED
    BY <1>1, <1>2, <1>3, <1>4, <1>5, <1>6, <1>7, <1>8, <1>9, <1>10, <1>11
    DEF Next, Done

LEMMA CollectedInit == Init => CInv
  <1> SUFFICES ASSUME Init PROVE CInv  OBVIOUS
  <1> USE DEF Init, PoolInit, VectorInit
  <1>1. Inv  BY InvInit
  <1>p. Pushers = Workers  BY PushersAssumption
  <1>2. VectorTypeOK
    <2>1. buffer \in [0 .. capacity - 1 -> Elements \union {Raw}]  OBVIOUS
    <2> QED  BY <1>p, <2>1 DEF VectorTypeOK
  <1>n. \A i : ~Here(i)  BY DEF Here
  <1>3. Slots  BY <1>p, <1>n DEF Slots
  <1>4. Synchronized  BY <1>n DEF Synchronized
  <1>5. Distinct  BY <1>n DEF Distinct, Waits
  <1>6. Counted  BY DEF Counted, Waits, Size
  <1> QED  BY <1>1, <1>2, <1>3, <1>4, <1>5, <1>6 DEF CInv, Collected

\* When run_task has returned, every iteration that was taken is in the
\* vector, once, where the owner may read it: for any workers, counts and
\* capacities, whichever workers stop early.
THEOREM CollectionCorrect == Spec => []CollectsAll
  <1>1. Spec => []Inv
    BY CollectUsesThePool, InvInit, InvStep, PTL DEF PoolSpec
  <1>2. CInv => CollectsAll
    <2> SUFFICES ASSUME CInv, Alive, owner_at = "outside", ~phantoms
                 PROVE  /\ Size = expected
                        /\ \A i \in DOMAIN buffer : (buffer[i] # Raw) = (i < Size)
                        /\ \A i \in 0 .. Size - 1 :
                              /\ i \in visible
                              /\ \A j \in 0 .. i - 1 : buffer[j] # buffer[i]
      BY DEF CollectsAll
    <2>1. Inv /\ VectorTypeOK /\ Collected  BY DEF CInv
    <2>2. ~Waits  BY DEF Waits
    <2>t. size \in Nat /\ capacity \in Nat /\ DOMAIN buffer = 0 .. capacity - 1
      BY <2>1 DEF VectorTypeOK
    <2>n. \A w \in Workers : slot[w] = NoSlot /\ unreleased[w] = {}
      BY <2>1, <2>2, NobodyInBodies
    <2>3. Size = expected  BY <2>1, <2>2 DEF Collected, Counted
    <2>4. ASSUME NEW i \in 0 .. capacity - 1
          PROVE  Here(i) <=> i < Size
      <3>1. i # NoSlot  BY CapacitiesAssumption, <2>t
      <3>2. Here(i) <=> i < size
        BY <2>t, <2>1, <2>n, <3>1 DEF Collected, Slots
      <3> QED  BY <2>t, <3>2 DEF Size
    <2>5. \A i \in DOMAIN buffer : (buffer[i] # Raw) = (i < Size)
      BY <2>t, <2>4 DEF Here
    <2>6. ASSUME NEW i \in 0 .. Size - 1
          PROVE  /\ i \in visible
                 /\ \A j \in 0 .. i - 1 : buffer[j] # buffer[i]
      <3>1. i \in Nat /\ i \in 0 .. capacity - 1 /\ i < Size  BY <2>t DEF Size
      <3>2. Here(i)  BY <2>4, <3>1
      <3>3. i \in visible
        BY <2>1, <2>2, <2>n, <3>1, <3>2 DEF Collected, Synchronized
      <3>4. ASSUME NEW j \in 0 .. i - 1 PROVE buffer[j] # buffer[i]
        <4>1. j \in Nat /\ j \in 0 .. capacity - 1 /\ j < Size /\ j # i
          BY <2>t, <3>1 DEF Size
        <4>2. Here(j)  BY <2>4, <4>1
        <4> QED  BY <2>1, <3>1, <3>2, <4>1, <4>2 DEF Collected, Distinct
      <3> QED  BY <3>3, <3>4
    <2> QED  BY <2>3, <2>5, <2>6
  <1>3. CInv /\ Inv' /\ [Next]_vars => CInv'  BY CollectedStep
  <1> QED  BY <1>1, <1>2, <1>3, CollectedInit, PTL DEF Spec
=============================================================================
