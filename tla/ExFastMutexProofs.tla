-------------------------- MODULE ExFastMutexProofs ---------------------------
(***************************************************************************)
(* For every finite set of threads: the fast mutex excludes, keeps Owner    *)
(* and Contention right, strands no sleeper, and every step of it is a step *)
(* of the abstract lock or leaves the lock unchanged.                       *)
(***************************************************************************)
EXTENDS ExFastMutex, FiniteSetTheorems, TLAPS

\* Count is 0 exactly while some thread is in its critical section.
CountTaken == Count = 0 <=> At(Critical) # {}

\* The wait list holds exactly the sleeping threads, each of them once.
SleepersAsleep ==
  /\ \A t \in Threads :
       pc[t] = "asleep" <=> \E i \in 1 .. Len(sleepers) : sleepers[i] = t
  /\ \A i, j \in 1 .. Len(sleepers) : sleepers[i] = sleepers[j] => i = j

\* Owner names a thread only while that thread is inside.
OwnerInside == Owner # NoThread => Owner \in Threads /\ pc[Owner] = "inside"

\* A signal is kept only while nobody sleeps.
SignalKept == signaled => sleepers = << >>

\* NoStrandedSleeper, extended to the threads that lost the exchange and have
\* not reached the wait list yet: without a kept signal they are about to sleep.
NoStrandedWaiter ==
  At({"wait", "asleep"}) # {} /\ Count = 1 /\ ~signaled =>
    \E t \in Threads : pc[t] \in {"exchange", "freed", "signal"}

\* Inductive together: NoStrandedWaiter needs ContentionCounts for the thread
\* about to read Contention, and CountTaken for the one about to free Count.
IInv == /\ TypeOK
        /\ MutualExclusion
        /\ CountTaken
        /\ OwnerAssertions
        /\ OwnerInside
        /\ SleepersAsleep
        /\ ContentionCounts
        /\ SignalKept
        /\ NoStrandedWaiter
-------------------------------------------------------------------------------
\* A step that moves one thread within, out of or into a set of points changes
\* the number of threads there by the obvious amount.
LEMMA AtFinite ==
  ASSUME NEW points
  PROVE  IsFiniteSet(At(points)) /\ Cardinality(At(points)) \in Nat
BY ThreadsAssumption, FS_Subset, FS_CardinalityType, At(points) \subseteq Threads DEF At

LEMMA CardinalityMoves ==
  ASSUME NEW S, NEW t, IsFiniteSet(S)
  PROVE  /\ t \notin S => Cardinality(S \union {t}) = Cardinality(S) + 1
         /\ t \in S => Cardinality(S \ {t}) = Cardinality(S) - 1
         /\ t \in S => Cardinality(S) > 0
<1>1. Cardinality(S) \in Nat
  BY FS_CardinalityType
<1>2. t \notin S => Cardinality(S \union {t}) = Cardinality(S) + 1
  BY FS_AddElement
<1>3. t \in S => Cardinality(S \ {t}) = Cardinality(S) - 1
  BY FS_RemoveElement
<1>4. t \in S => Cardinality(S) # 0
  BY FS_EmptySet
<1> QED
  BY <1>1, <1>2, <1>3, <1>4

\* Where a thread that moves from one point to another leaves At(points).
LEMMA AtMoves ==
  ASSUME TypeOK, NEW t \in Threads, NEW p \in Points, Goto(t, p), NEW points
  PROVE  At(points)' = IF p \in points THEN At(points) \union {t}
                       ELSE At(points) \ {t}
BY DEF TypeOK, Goto, At

LEMMA InitIInv == Init => IInv
<1> SUFFICES ASSUME Init PROVE IInv
  OBVIOUS
<1>1. At(Contending) = {} /\ At(Critical) = {}
  BY DEF Init, At, Contending, Critical
<1>2. ContentionCounts
  BY <1>1, FS_EmptySet DEF Init, ContentionCounts
<1>3. SleepersAsleep /\ SignalKept /\ NoStrandedWaiter
  BY DEF Init, SleepersAsleep, SignalKept, NoStrandedWaiter, At
<1>5. TypeOK
  <2>1. pc \in [Threads -> Points] /\ sleepers \in Seq(Threads)
    BY DEF Init, Points
  <2>2. signaled \in BOOLEAN
    BY DEF Init
  <2> QED
    BY <2>1, <2>2 DEF Init, TypeOK
<1>4. MutualExclusion /\ CountTaken /\ OwnerAssertions /\ OwnerInside
  BY <1>1, NoThreadAssumption
  DEF Init, MutualExclusion, Critical, CountTaken, OwnerAssertions, OwnerInside
<1> QED
  BY <1>2, <1>3, <1>4, <1>5 DEF IInv

\* The part of the invariant that does not count: one leaf per action.
ShapeInv == /\ TypeOK
            /\ MutualExclusion
            /\ CountTaken
            /\ OwnerAssertions
            /\ OwnerInside
            /\ SleepersAsleep

LEMMA StepShape ==
  ASSUME IInv, NEW t \in Threads,
         ExAcquireFastMutexUnsafe(t) \/ ExReleaseFastMutexUnsafe(t)
  PROVE  ShapeInv'
<1> USE NoThreadAssumption
    DEF IInv, TypeOK, Points, MutualExclusion, CountTaken, OwnerAssertions,
        OwnerInside, SleepersAsleep, Critical, ShapeInv, At, Goto
<1>1. CASE StartAcquire(t)
  BY <1>1 DEF StartAcquire
<1>2. CASE Exchange(t)
  BY <1>2 DEF Exchange
<1>3. CASE WaitForEvent(t)
  <2>1. CASE signaled
    <3>1. pc' = [pc EXCEPT ![t] = "exchange"] /\ pc[t] = "wait" /\ signaled' = FALSE
      BY <1>3, <2>1, Zenon DEF WaitForEvent
    <3>2. UNCHANGED <<Count, Contention, Owner, sleepers>>
      BY <1>3, <2>1, Zenon DEF WaitForEvent
    <3>3. TypeOK'
      BY <3>1, <3>2
    <3>4. MutualExclusion' /\ CountTaken' /\ OwnerAssertions' /\ OwnerInside'
      BY <3>1, <3>2
    <3>5. SleepersAsleep'
      BY <3>1, <3>2
    <3> QED
      BY <3>3, <3>4, <3>5
  <2>2. CASE ~signaled
    <3>1. /\ sleepers' = Append(sleepers, t)
          /\ pc' = [pc EXCEPT ![t] = "asleep"]
          /\ pc[t] = "wait"
      BY <1>3, <2>2 DEF WaitForEvent
    <3>2. /\ Len(sleepers') = Len(sleepers) + 1
          /\ sleepers'[Len(sleepers) + 1] = t
          /\ \A i \in 1 .. Len(sleepers) : sleepers'[i] = sleepers[i]
          /\ sleepers' \in Seq(Threads)
      BY <3>1
    <3>3. SleepersAsleep'
      BY <3>1, <3>2
    <3>4. TypeOK'
      BY <1>3, <3>1, <3>2 DEF WaitForEvent
    <3> QED
      BY <1>3, <3>1, <3>3, <3>4 DEF WaitForEvent
  <2> QED
    BY <2>1, <2>2
<1>4. CASE GiveContentionBack(t)
  <2>1. Contention > 0
    BY <1>4, AtFinite, CardinalityMoves DEF GiveContentionBack, Contending, ContentionCounts
  <2> QED
    BY <1>4, <2>1 DEF GiveContentionBack
<1>5. CASE Claim(t)
  BY <1>5 DEF Claim
<1>6. CASE StartRelease(t)
  BY <1>6 DEF StartRelease
<1>7. CASE FreeCount(t)
  BY <1>7 DEF FreeCount
<1>8. CASE TestContention(t)
  BY <1>8 DEF TestContention
<1>9. CASE SetEvent(t)
  <2>1. CASE sleepers = << >>
    BY <1>9, <2>1 DEF SetEvent
  <2>2. CASE sleepers # << >>
    <3>1. /\ sleepers' = Tail(sleepers)
          /\ pc' = [pc EXCEPT ![t] = "out", ![Head(sleepers)] = "exchange"]
          /\ pc[t] = "signal"
      BY <1>9, <2>2 DEF SetEvent
    <3>2. /\ Len(sleepers) >= 1 /\ Head(sleepers) = sleepers[1]
          /\ Len(sleepers') = Len(sleepers) - 1
          /\ \A i \in 1 .. Len(sleepers') : sleepers'[i] = sleepers[i + 1]
          /\ sleepers' \in Seq(Threads)
      BY <2>2, <3>1
    <3>3. /\ Head(sleepers) \in Threads /\ pc[Head(sleepers)] = "asleep"
          /\ Head(sleepers) # t
      BY <3>1, <3>2
    <3>4. \A u \in Threads :
            (\E i \in 1 .. Len(sleepers') : sleepers'[i] = u)
              <=> u # Head(sleepers) /\ \E i \in 1 .. Len(sleepers) : sleepers[i] = u
      <4>1. \A i \in 2 .. Len(sleepers) :
              i - 1 \in 1 .. Len(sleepers') /\ sleepers'[i - 1] = sleepers[i]
        BY <3>2
      <4> QED
        BY <3>2, <4>1
    <3>5. SleepersAsleep'
      BY <3>1, <3>2, <3>3, <3>4
    <3>6. TypeOK'
      BY <1>9, <3>1, <3>2, <3>3 DEF SetEvent
    <3>7. \A u \in Threads : u \notin {t, Head(sleepers)} => pc'[u] = pc[u]
      BY <3>1, <3>3 DEF TypeOK
    <3>8. /\ pc'[t] = "out" /\ pc'[Head(sleepers)] = "exchange"
          /\ UNCHANGED <<Count, Owner>>
      BY <1>9, <3>1, <3>3 DEF SetEvent, TypeOK
    <3>9. MutualExclusion' /\ CountTaken'
      BY <3>1, <3>3, <3>7, <3>8 DEF MutualExclusion, CountTaken
    <3>10. OwnerAssertions' /\ OwnerInside'
      BY <3>1, <3>3, <3>7, <3>8 DEF OwnerAssertions, OwnerInside
    <3> QED
      BY <3>5, <3>6, <3>9, <3>10
  <2> QED
    BY <2>1, <2>2
<1> QED
  BY <1>1, <1>2, <1>3, <1>4, <1>5, <1>6, <1>7, <1>8, <1>9
  DEF ExAcquireFastMutexUnsafe, ExReleaseFastMutexUnsafe

\* Contention and the threads at the points it counts change together.
LEMMA StepCount ==
  ASSUME IInv, NEW t \in Threads,
         ExAcquireFastMutexUnsafe(t) \/ ExReleaseFastMutexUnsafe(t)
  PROVE  ContentionCounts'
<1> USE DEF IInv, ContentionCounts
<1>1. IsFiniteSet(At(Contending)) /\ Cardinality(At(Contending)) \in Nat
  BY AtFinite
<1>2. CASE StartAcquire(t)
  <2>1. At(Contending)' = At(Contending) \union {t} /\ t \notin At(Contending)
    BY <1>2 DEF StartAcquire, Goto, At, Contending, TypeOK
  <2> QED
    BY <1>1, <1>2, <2>1, CardinalityMoves DEF StartAcquire
<1>3. CASE GiveContentionBack(t)
  <2>1. At(Contending)' = At(Contending) \ {t} /\ t \in At(Contending)
    BY <1>3 DEF GiveContentionBack, Goto, At, Contending, TypeOK
  <2> QED
    BY <1>1, <1>3, <2>1, CardinalityMoves DEF GiveContentionBack
<1>4. CASE Exchange(t) \/ WaitForEvent(t) \/ Claim(t) \/ StartRelease(t)
           \/ FreeCount(t) \/ TestContention(t)
  <2>1. At(Contending)' = At(Contending) /\ Contention' = Contention
    BY <1>4 DEF Exchange, WaitForEvent, Claim, StartRelease, FreeCount,
                TestContention, Goto, At, Contending, TypeOK
  <2> QED
    BY <2>1
<1>5. CASE SetEvent(t)
  <2>1. sleepers # << >> =>
          /\ Head(sleepers) \in Threads /\ pc[Head(sleepers)] = "asleep"
    BY DEF SleepersAsleep, TypeOK
  <2>2. At(Contending)' = At(Contending) /\ Contention' = Contention
    BY <1>5, <2>1 DEF SetEvent, Goto, At, Contending, TypeOK
  <2> QED
    BY <2>2
<1> QED
  BY <1>2, <1>3, <1>4, <1>5
  DEF ExAcquireFastMutexUnsafe, ExReleaseFastMutexUnsafe

\* Whoever leaves Count at 1 is at "freed"; it goes on to set the event if
\* anybody sleeps, because a sleeper is counted in Contention.
LEMMA StepStranded ==
  ASSUME IInv, NEW t \in Threads,
         ExAcquireFastMutexUnsafe(t) \/ ExReleaseFastMutexUnsafe(t)
  PROVE  SignalKept' /\ NoStrandedWaiter'
<1> USE DEF IInv, SignalKept, NoStrandedWaiter, TypeOK, Goto, At
<1>1. CASE StartAcquire(t)
  BY <1>1 DEF StartAcquire
<1>2. CASE Exchange(t)
  BY <1>2 DEF Exchange
<1>3. CASE WaitForEvent(t)
  <2>1. CASE signaled
    <3>1. pc' = [pc EXCEPT ![t] = "exchange"] /\ signaled' = FALSE
      BY <1>3, <2>1, Zenon DEF WaitForEvent
    <3> QED
      BY <3>1
  <2>2. CASE ~signaled
    <3>1. /\ pc' = [pc EXCEPT ![t] = "asleep"] /\ pc[t] = "wait"
          /\ Count' = Count /\ signaled' = FALSE
      BY <1>3, <2>2, Zenon DEF WaitForEvent
    <3> QED
      BY <2>2, <3>1
  <2> QED
    BY <2>1, <2>2
<1>4. CASE GiveContentionBack(t) \/ Claim(t) \/ StartRelease(t)
  BY <1>4 DEF GiveContentionBack, Claim, StartRelease
<1>5. CASE FreeCount(t)
  BY <1>5 DEF FreeCount
<1>6. CASE TestContention(t)
  <2>1. At({"wait", "asleep"}) # {} => Contention > 0
    <3> SUFFICES ASSUME NEW u \in At({"wait", "asleep"}) PROVE Contention > 0
      OBVIOUS
    <3>1. u \in At(Contending)
      BY DEF Contending
    <3> QED
      BY <3>1, AtFinite, CardinalityMoves DEF ContentionCounts
  <2> QED
    BY <1>6, <2>1 DEF TestContention
<1>7. CASE SetEvent(t)
  <2>1. sleepers # << >> => Head(sleepers) \in Threads
    OBVIOUS
  <2> QED
    BY <1>7, <2>1 DEF SetEvent
<1> QED
  BY <1>1, <1>2, <1>3, <1>4, <1>5, <1>6, <1>7
  DEF ExAcquireFastMutexUnsafe, ExReleaseFastMutexUnsafe

LEMMA StepIInv == IInv /\ [Next]_vars => IInv'
<1> SUFFICES ASSUME IInv, [Next]_vars PROVE IInv'
  OBVIOUS
<1>1. CASE UNCHANGED vars
  BY <1>1
  DEF vars, IInv, TypeOK, MutualExclusion, CountTaken, OwnerAssertions,
      OwnerInside, SleepersAsleep, ContentionCounts, SignalKept,
      NoStrandedWaiter, At
<1>2. ASSUME NEW t \in Threads,
             ExAcquireFastMutexUnsafe(t) \/ ExReleaseFastMutexUnsafe(t)
      PROVE  IInv'
  BY <1>2, StepShape, StepCount, StepStranded DEF IInv, ShapeInv
<1> QED
  BY <1>1, <1>2 DEF Next

LEMMA StrandedFollows == IInv => NoStrandedSleeper
BY DEF IInv, NoStrandedSleeper, NoStrandedWaiter, SignalKept, SleepersAsleep,
       TypeOK, At
-------------------------------------------------------------------------------
\* The invariant holds in every reachable state, for every finite set of
\* threads: the core of the following theorems.
THEOREM Invariance == Spec => []IInv
BY InitIInv, StepIInv, PTL DEF Spec

\* At most one thread is between the exchange that took Count and the one that
\* gives it back (ExAcquireFastMutexUnsafe and ExReleaseFastMutexUnsafe).
THEOREM MutualExclusionHolds == Spec => []MutualExclusion
<1>1. IInv => MutualExclusion
  BY DEF IInv
<1> QED
  BY <1>1, Invariance, PTL

\* The ASSERTs of the two functions hold, and Contention is exact.
THEOREM FieldsHold == Spec => [](TypeOK /\ OwnerAssertions /\ ContentionCounts)
<1>1. IInv => TypeOK /\ OwnerAssertions /\ ContentionCounts
  BY DEF IInv
<1> QED
  BY <1>1, Invariance, PTL

\* No releaser leaves with the mutex free and a sleeper nobody will wake.
THEOREM NoStrandedSleeperHolds == Spec => []NoStrandedSleeper
BY Invariance, StrandedFollows, PTL
-------------------------------------------------------------------------------
\* Safety half of ImplementsLock: what the steps are under the mapping.
LEMMA HolderIs ==
  ASSUME IInv, NEW t \in Threads, pc[t] \in Critical
  PROVE  holder = t
BY DEF holder, IInv, MutualExclusion, At

LEMMA HolderNone ==
  ASSUME At(Critical) = {}
  PROVE  holder = NoThread
BY DEF holder

\* Only the exchange won, the exchange that gives Count back and the start of
\* an acquire move the abstract lock.
LEMMA StepRefines ==
  ASSUME IInv, IInv', NEW t \in Threads,
         ExAcquireFastMutexUnsafe(t) \/ ExReleaseFastMutexUnsafe(t)
  PROVE  [Abstract!Next]_(Abstract!vars)
<1>1. ASSUME At(Critical)' = At(Critical) PROVE holder' = holder
  BY <1>1 DEF holder
<1>2. CASE StartAcquire(t)
  <2>1. wanting' = wanting \union {t} /\ t \notin wanting
    BY <1>2 DEF StartAcquire, Goto, wanting, At, IInv, TypeOK
  <2>2. At(Critical)' = At(Critical)
    BY <1>2 DEF StartAcquire, Goto, Critical, At, IInv, TypeOK
  <2>3. holder # t
    BY <1>2, NoThreadAssumption DEF StartAcquire, holder, Critical, At
  <2> QED
    BY <1>1, <2>1, <2>2, <2>3 DEF Abstract!Next, Abstract!Request
<1>3. CASE Exchange(t) /\ Count = 0
  <2>1. At(Critical)' = At(Critical) /\ wanting' = wanting
    BY <1>3 DEF Exchange, Goto, Critical, wanting, At, IInv, TypeOK
  <2> QED
    BY <1>1, <2>1 DEF Abstract!vars
<1>4. CASE Exchange(t) /\ Count # 0
  <2>1. holder = NoThread
    BY <1>4, HolderNone DEF IInv, CountTaken
  <2>2. pc'[t] \in Critical
    BY <1>4 DEF Exchange, Goto, Critical, IInv, TypeOK
  <2>3. holder' = t
    BY <2>2 DEF holder, IInv, MutualExclusion, At
  <2>4. wanting' = wanting \ {t} /\ t \in wanting
    BY <1>4 DEF Exchange, Goto, wanting, At, IInv, TypeOK
  <2> QED
    BY <2>1, <2>3, <2>4 DEF Abstract!Next, Abstract!SomeGrant, Abstract!Grant
<1>5. CASE FreeCount(t)
  <2>1. holder = t
    BY <1>5, HolderIs DEF FreeCount, Critical
  <2>2. At(Critical)' = {}
    BY <1>5 DEF FreeCount, Goto, Critical, At, IInv, TypeOK, MutualExclusion
  <2>3. holder' = NoThread
    BY <2>2 DEF holder, At
  <2>4. wanting' = wanting
    BY <1>5 DEF FreeCount, Goto, wanting, At, IInv, TypeOK
  <2> QED
    BY <2>1, <2>3, <2>4 DEF Abstract!Next, Abstract!Release
<1>6. CASE SetEvent(t)
  <2>1. sleepers # << >> =>
          /\ Head(sleepers) \in Threads /\ pc[Head(sleepers)] = "asleep"
    BY DEF IInv, SleepersAsleep, TypeOK
  <2>2. At(Critical)' = At(Critical) /\ wanting' = wanting
    BY <1>6, <2>1 DEF SetEvent, Goto, Critical, wanting, At, IInv, TypeOK
  <2> QED
    BY <1>1, <2>2 DEF Abstract!vars
<1>7. CASE WaitForEvent(t) \/ GiveContentionBack(t) \/ Claim(t)
           \/ StartRelease(t) \/ TestContention(t)
  <2>1. At(Critical)' = At(Critical) /\ wanting' = wanting
    BY <1>7 DEF WaitForEvent, GiveContentionBack, Claim, StartRelease,
                TestContention, Goto, Critical, wanting, At, IInv, TypeOK
  <2> QED
    BY <1>1, <2>1 DEF Abstract!vars
<1> QED
  BY <1>2, <1>3, <1>4, <1>5, <1>6, <1>7
  DEF ExAcquireFastMutexUnsafe, ExReleaseFastMutexUnsafe

\* Every behaviour of the fast mutex is, through wanting and holder, a
\* behaviour of the abstract lock (its safety part; that a free lock is granted
\* rests on fairness and is checked by TLC).
THEOREM RefinesLock == Spec => Abstract!Init /\ [][Abstract!Next]_(Abstract!vars)
<1>1. Init => Abstract!Init
  BY DEF Init, Abstract!Init, wanting, holder, At, Critical
<1>2. IInv /\ IInv' /\ [Next]_vars => [Abstract!Next]_(Abstract!vars)
  <2> SUFFICES ASSUME IInv, IInv', [Next]_vars
               PROVE  [Abstract!Next]_(Abstract!vars)
    OBVIOUS
  <2>1. CASE UNCHANGED vars
    BY <2>1 DEF vars, Abstract!vars, wanting, holder, At
  <2> QED
    BY <2>1, StepRefines DEF Next
<1> QED
  BY <1>1, <1>2, Invariance, PTL DEF Spec
===============================================================================
