----------------------- MODULE ConcurrentQueue_proofs -----------------------
(***************************************************************************)
(* For any number of threads, items and batches: no wakeup is lost, and    *)
(* every step of the containers is a step of the channel they promise.     *)
(***************************************************************************)
EXTENDS ConcurrentQueue, TLAPS, FiniteSetTheorems, SequenceTheorems

Inv == TypeOK /\ NoLostWakeup

LEMMA FiniteWaiting ==
    ASSUME TypeOK
    PROVE  /\ IsFiniteSet(waiting \ asleep)
           /\ Cardinality(waiting \ asleep) \in Nat
  <1>1. waiting \ asleep \subseteq Threads  BY DEF TypeOK
  <1>2. IsFiniteSet(waiting \ asleep)  BY <1>1, ThreadsAssumption, FS_Subset
  <1> QED  BY <1>2, FS_CardinalityType

\* One more thread that is awake, and one less.
LEMMA OneMoreAwake ==
    ASSUME NEW S, IsFiniteSet(S), NEW t, t \notin S
    PROVE  /\ Cardinality(S \union {t}) = Cardinality(S) + 1
           /\ Cardinality(S) \in Nat
  BY FS_AddElement, FS_CardinalityType

LEMMA OneLessAwake ==
    ASSUME NEW S, IsFiniteSet(S), NEW t \in S
    PROVE  /\ Cardinality(S \ {t}) = Cardinality(S) - 1
           /\ Cardinality(S) \in Nat
  BY FS_RemoveElement, FS_CardinalityType

LEMMA BatchesAreSequences == Batches \subseteq Seq(Values)
  BY BoundsAssumption DEF Batches

\* A pop takes items, and leaves fewer.
LEMMA TakeTakes ==
    ASSUME TypeOK, items # <<>>, Take
    PROVE  /\ items' \in Seq(Values) /\ popped' \in Seq(Values)
           /\ Len(items') <= Len(items) - 1
  <1>0. items \in Seq(Values) /\ Len(items) \in Nat \ {0}
    BY EmptySeq DEF TypeOK
  <1>1. CASE popped' = <<Head(items)>> /\ items' = Tail(items)
    BY <1>0, <1>1, HeadTailProperties
  <1>2. CASE /\ popped' = <<items[Len(items)]>>
             /\ items' = SubSeq(items, 1, Len(items) - 1)
    <2>1. \A i \in 1 .. Len(items) : items[i] \in Values  BY <1>0, ElementOfSeq
    <2>2. popped' \in Seq(Values)  BY <1>0, <1>2, <2>1
    <2>3. /\ items' \in Seq(Values)
          /\ Len(items') = IF 1 <= Len(items) - 1 THEN Len(items) - 1 - 1 + 1 ELSE 0
      BY <1>0, <1>2, <2>1, SubSeqProperties
    <2> QED  BY <1>0, <2>2, <2>3
  <1>3. CASE popped' = items /\ items' = <<>>
    BY <1>0, <1>3, EmptySeq
  <1> QED  BY <1>1, <1>2, <1>3 DEF Take

\* Every variable has its type: the sets of threads, and the sequences.
LEMMA TypeStep == TypeOK /\ [Next]_vars => TypeOK'
  <1> SUFFICES ASSUME TypeOK, [Next]_vars PROVE TypeOK'  OBVIOUS
  <1> USE EmptySeq
  <1>1. ASSUME NEW v \in Values, PushBack(v) PROVE TypeOK'
    BY <1>1 DEF PushBack, NotifyOne, TypeOK
  <1>2. ASSUME NEW batch \in Batches, PushBackMany(batch) PROVE TypeOK'
    <2>1. batch \in Seq(Values)  BY BatchesAreSequences
    <2> QED  BY <1>2, <2>1 DEF PushBackMany, NotifyAll, TypeOK
  <1>3. ASSUME NEW t \in Threads, PopBlocking(t) PROVE TypeOK'
    BY <1>3 DEF PopBlocking, TypeOK
  <1>5. ASSUME NEW t \in Threads, Leave(t) PROVE TypeOK'
    <2>1. items' \in Seq(Values) /\ popped' \in Seq(Values)
      BY <1>5, TakeTakes DEF Leave, TypeOK
    <2> QED  BY <1>5, <2>1 DEF Leave, TypeOK
  <1>6. ASSUME NEW t \in Threads, Sleep(t) \/ WakeSpuriously(t) PROVE TypeOK'
    BY <1>6 DEF Sleep, WakeSpuriously, TypeOK
  <1>7. ASSUME PopNonBlocking PROVE TypeOK'
    <2>1. items' \in Seq(Values) /\ popped' \in Seq(Values)
      BY <1>7, TakeTakes DEF PopNonBlocking, TypeOK
    <2> QED  BY <1>7, <2>1 DEF PopNonBlocking, TypeOK
  <1>8. ASSUME RequestExit \/ Clear PROVE TypeOK'
    <2>1. items' \in Seq(Values)  BY <1>8 DEF RequestExit, Clear, TypeOK
    <2> QED  BY <1>8, <2>1 DEF RequestExit, NotifyAll, Clear, TypeOK
  <1>9. CASE UNCHANGED vars  BY <1>9 DEF vars, TypeOK
  <1> QED  BY <1>1, <1>2, <1>3, <1>5, <1>6, <1>7, <1>8, <1>9 DEF Next

LEMMA WakeupStep == Inv /\ [Next]_vars => NoLostWakeup'
  <1> SUFFICES ASSUME Inv, [Next]_vars PROVE NoLostWakeup'  OBVIOUS
  <1> USE DEF Inv
  <1> DEFINE Awake == waiting \ asleep
  <1>f. IsFiniteSet(Awake) /\ Cardinality(Awake) \in Nat /\ Len(items) \in Nat
    BY FiniteWaiting DEF TypeOK
  <1>1. ASSUME NEW v \in Values, PushBack(v) PROVE NoLostWakeup'
    <2>1. CASE asleep = {}  BY <1>1, <2>1 DEF PushBack, NotifyOne, NoLostWakeup
    <2>2. CASE asleep # {}
      <3>1. PICK t \in asleep : asleep' = asleep \ {t}
        BY <1>1, <2>2 DEF PushBack, NotifyOne
      <3>2. Awake' = Awake \union {t} /\ t \notin Awake
        BY <1>1, <3>1 DEF PushBack, TypeOK
      <3>3. Cardinality(Awake') = Cardinality(Awake) + 1
        BY <1>f, <3>2, OneMoreAwake
      <3>4. Len(items') = Len(items) + 1  BY <1>1 DEF PushBack, TypeOK
      <3> QED
        BY <1>1, <1>f, <2>2, <3>3, <3>4 DEF PushBack, NoLostWakeup
    <2> QED  BY <2>1, <2>2
  <1>2. ASSUME NEW batch \in Batches, PushBackMany(batch) PROVE NoLostWakeup'
    BY <1>2 DEF PushBackMany, NotifyAll, NoLostWakeup
  <1>3. ASSUME NEW t \in Threads, PopBlocking(t) PROVE NoLostWakeup'
    <2>1. Awake' = Awake \union {t} /\ t \notin Awake
      BY <1>3 DEF PopBlocking, TypeOK
    <2>2. Cardinality(Awake') = Cardinality(Awake) + 1
      BY <1>f, <2>1, OneMoreAwake
    <2> QED  BY <1>3, <1>f, <2>2 DEF PopBlocking, NoLostWakeup
  <1>4. ASSUME NEW t \in Threads, Leave(t) PROVE NoLostWakeup'
    <2>1. CASE asleep = {}  BY <1>4, <2>1 DEF Leave, NoLostWakeup
    <2>2. CASE asleep # {}
      <3>1. items # <<>> /\ Take /\ ~requested_exit
        BY <1>4, <2>2 DEF Leave, NoLostWakeup
      <3>2. Awake' = Awake \ {t} /\ t \in Awake  BY <1>4 DEF Leave
      <3>3. Cardinality(Awake') = Cardinality(Awake) - 1
        BY <1>f, <3>2, OneLessAwake
      <3>4. Len(items') \in Nat /\ Len(items') <= Len(items) - 1
        BY <3>1, TakeTakes, LenProperties
      <3> QED  BY <1>4, <1>f, <2>2, <3>1, <3>3, <3>4 DEF Leave, NoLostWakeup
    <2> QED  BY <2>1, <2>2
  <1>5. ASSUME NEW t \in Threads, Sleep(t) PROVE NoLostWakeup'
    <2>1. Len(items') = 0 /\ ~requested_exit'  BY <1>5, EmptySeq DEF Sleep
    <2>2. TypeOK'  BY TypeStep
    <2>3. Cardinality(Awake') \in Nat
      BY <2>2, ThreadsAssumption, FS_Subset, FS_CardinalityType DEF TypeOK
    <2> QED  BY <2>1, <2>3 DEF NoLostWakeup
  <1>6. ASSUME NEW t \in Threads, WakeSpuriously(t) PROVE NoLostWakeup'
    <2>1. Awake' = Awake \union {t} /\ t \notin Awake
      BY <1>6 DEF WakeSpuriously, TypeOK
    <2>2. Cardinality(Awake') = Cardinality(Awake) + 1
      BY <1>f, <2>1, OneMoreAwake
    <2> QED  BY <1>6, <1>f, <2>2 DEF WakeSpuriously, NoLostWakeup
  <1>7. ASSUME PopNonBlocking PROVE NoLostWakeup'
    <2>1. Len(items') \in Nat /\ Len(items') <= Len(items)
      BY <1>7, <1>f, TakeTakes, LenProperties DEF PopNonBlocking
    <2> QED  BY <1>7, <1>f, <2>1 DEF PopNonBlocking, NoLostWakeup
  <1>8. ASSUME RequestExit PROVE NoLostWakeup'
    BY <1>8 DEF RequestExit, NotifyAll, NoLostWakeup
  <1>9. ASSUME Clear PROVE NoLostWakeup'
    <2>1. Len(items') = 0  BY <1>9, EmptySeq DEF Clear
    <2> QED  BY <1>9, <1>f, <2>1 DEF Clear, NoLostWakeup
  <1>10. CASE UNCHANGED vars  BY <1>10 DEF vars, NoLostWakeup
  <1> QED  BY <1>1, <1>2, <1>3, <1>4, <1>5, <1>6, <1>7, <1>8, <1>9, <1>10 DEF Next

LEMMA Invariant == Spec => []Inv
  <1>1. Init => Inv  BY EmptySeq DEF Init, Inv, TypeOK, NoLostWakeup
  <1>2. Inv /\ [Next]_vars => Inv'  BY TypeStep, WakeupStep DEF Inv
  <1> QED  BY <1>1, <1>2, PTL DEF Spec

\* push_back notifies one thread only, and the others do not sleep over items.
THEOREM WakeupsAreNotLost == Spec => []NoLostWakeup
  BY Invariant, PTL DEF Inv

-----------------------------------------------------------------------------
ChannelStep == Promise!Next \/ UNCHANGED Promise!vars

\* Sleeping and waking are invisible: every step is one of the channel.
THEOREM IsAChannel == Spec => Promise!Spec
  <1>1. Init => Promise!Init
    BY DEF Init, Promise!Init, Promise!Kinds
  <1>2. TypeOK /\ [Next]_vars => [Promise!Next]_(Promise!vars)
    <2> SUFFICES ASSUME TypeOK, [Next]_vars PROVE [Promise!Next]_(Promise!vars)
      OBVIOUS
    <2>1. ASSUME NEW v \in Values, PushBack(v) PROVE ChannelStep
      <3>1. <<v>> \in Batches
        <4>1. <<v>> \in [1 .. 1 -> Values]  OBVIOUS
        <4> QED  BY <4>1, BoundsAssumption DEF Batches
      <3>2. items' = items \o <<v>>
        BY <2>1, AppendIsConcat DEF PushBack, TypeOK
      <3> QED  BY <2>1, <3>1, <3>2 DEF PushBack, Promise!Next, Promise!Push, ChannelStep, Promise!vars
    <2>2. ASSUME NEW batch \in Batches, PushBackMany(batch) PROVE ChannelStep
      BY <2>2 DEF PushBackMany, Promise!Next, Promise!Push, ChannelStep, Promise!vars
    <2>3. ASSUME NEW t \in Threads, PopBlocking(t) PROVE ChannelStep
      BY <2>3 DEF PopBlocking, Promise!Next, Promise!Wait, ChannelStep, Promise!vars
    <2>4. ASSUME items # <<>>, Take PROVE Promise!Pop
      BY <2>4 DEF Take, Promise!Pop
    <2>5. ASSUME NEW t \in Threads, Leave(t) PROVE ChannelStep
      BY <2>4, <2>5 DEF Leave, Promise!Next, Promise!Receive, ChannelStep, Promise!vars
    <2>6. ASSUME NEW t \in Threads, Sleep(t) \/ WakeSpuriously(t) PROVE ChannelStep
      BY <2>6 DEF Sleep, WakeSpuriously, ChannelStep, Promise!vars
    <2>7. ASSUME PopNonBlocking PROVE ChannelStep
      BY <2>4, <2>7 DEF PopNonBlocking, Promise!Next, Promise!Poll, ChannelStep, Promise!vars
    <2>8. ASSUME RequestExit \/ Clear PROVE ChannelStep
      BY <2>8 DEF RequestExit, Clear, Promise!Next, Promise!Close, Promise!Drop, ChannelStep, Promise!vars
    <2>9. ASSUME UNCHANGED vars PROVE ChannelStep
      BY <2>9 DEF vars, ChannelStep, Promise!vars
    <2>10. ChannelStep
      BY <2>1, <2>2, <2>3, <2>5, <2>6, <2>7, <2>8, <2>9 DEF Next
    <2> QED  BY <2>10 DEF ChannelStep
  <1> QED  BY <1>1, <1>2, Invariant, PTL DEF Spec, Promise!Spec, Inv
=============================================================================
