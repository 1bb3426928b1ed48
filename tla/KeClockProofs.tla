----------------------------- MODULE KeClockProofs -----------------------------
(***************************************************************************)
(* Theorems about KeClock, for any number of timers and DPCs: the two        *)
(* components it is composed of do what their own modules say, their lists    *)
(* stay sound, no timer is left behind by the expiry and none expires before  *)
(* its time.                                                                 *)
(***************************************************************************)
EXTENDS KeClock, ListLemmas

\* What KeDpc and KeTimer have from Lists.
LEMMA SameLists ==
  ASSUME NEW list, NEW t, NEW n
  PROVE  /\ Dpc!Members(list) = Members(list) /\ Timer!Members(list) = Members(list)
         /\ Dpc!NoDuplicates(list) = NoDuplicates(list)
         /\ Timer!NoDuplicates(list) = NoDuplicates(list)
         /\ Dpc!Unlink(list, t) = Unlink(list, t) /\ Timer!Unlink(list, t) = Unlink(list, t)
         /\ Timer!InsertAfter(list, n, t) = InsertAfter(list, n, t)
<1>1. Dpc!Members(list) = Members(list) /\ Timer!Members(list) = Members(list)
  BY DEF Members, Dpc!Members, Timer!Members
<1>2. Dpc!Unlink(list, t) = Unlink(list, t) /\ Timer!Unlink(list, t) = Unlink(list, t)
  BY <1>1 DEF Unlink, Dpc!Unlink, Timer!Unlink
<1> QED
  BY <1>1, <1>2 DEF NoDuplicates, Dpc!NoDuplicates, Timer!NoDuplicates,
                    InsertAfter, Timer!InsertAfter

\* ... and from FiniteSets.
LEMMA SameSizes ==
  ASSUME NEW S
  PROVE  /\ Dpc!IsFiniteSet(S) = IsFiniteSet(S) /\ Dpc!Cardinality(S) = Cardinality(S)
         /\ Timer!Cardinality(S) = Cardinality(S)
<1>1. Dpc!IsFiniteSet(S) = IsFiniteSet(S)
  BY Zenon DEF IsFiniteSet, Dpc!IsFiniteSet
<1>2. Dpc!Cardinality(S) = Cardinality(S)
  BY Zenon DEF Cardinality, Dpc!Cardinality
<1>3. Timer!Cardinality(S) = Cardinality(S)
  BY Zenon DEF Cardinality, Timer!Cardinality
<1> QED
  BY <1>1, <1>2, <1>3
-------------------------------------------------------------------------------
(* The DPC queue. *)

\* The timers do not come between KeDpc and what it says of itself: every step of
\* KeClock is one of KeDpc or leaves its variables alone.
LEMMA StepsOfDpc == [Next]_vars => [Dpc!Next]_(Dpc!vars)
<1> SUFFICES ASSUME [Next]_vars PROVE [Dpc!Next]_(Dpc!vars)
  OBVIOUS
<1>1. ASSUME UNCHANGED dpcVars PROVE UNCHANGED Dpc!vars
  BY <1>1 DEF dpcVars, Dpc!vars, Dpc!flags
<1>2. ASSUME NEW t, QueueDpcOf(t) PROVE [Dpc!Next]_(Dpc!vars)
  <2>1. CASE t \in WithDpc /\ Dpc!Claims(t)
    <3>1. t \in Dpcs /\ Dpc!KeInsertQueueDpc(t)
      BY <1>2, <2>1 DEF QueueDpcOf, Dpcs
    <3> QED
      BY <3>1 DEF Dpc!Next
  <2>2. CASE ~(t \in WithDpc /\ Dpc!Claims(t))
    BY <1>1, <1>2, <2>2 DEF QueueDpcOf
  <2> QED
    BY <2>1, <2>2
<1>3. ASSUME Dpc!CallDpc PROVE Dpc!Next
  BY <1>3 DEF Dpc!Next
<1>4. CASE \E t \in Timers : KeCancelTimer(t) \/ KeWaitForTimer(t)
  BY <1>1, <1>4 DEF KeCancelTimer, KeWaitForTimer
<1>5. CASE \E t \in Timers : CallTimerDpc(t)
  BY <1>3, <1>5 DEF CallTimerDpc
<1>6. CASE \E t \in Timers, p \in Periods, d \in Delays : KeSetTimerRelative(t, d, p)
  BY <1>1, <1>6 DEF KeSetTimerRelative
<1>7. CASE \E t \in Timers, p \in Periods, d \in DueTimes : KeSetTimerAbsolute(t, d, p)
  BY <1>1, <1>2, <1>7 DEF KeSetTimerAbsolute
<1>8. CASE InsertTimer \/ EndExpire
  BY <1>1, <1>8 DEF InsertTimer, EndExpire
<1>9. CASE ExpireNext
  BY <1>2, <1>9 DEF ExpireNext
<1>10. CASE \E ends \in BOOLEAN : KeUpdateSystemTime(ends)
  BY <1>10 DEF KeUpdateSystemTime, Dpc!Next
<1>11. CASE \E time \in SetTimes : KiSetSystemTime(time)
  BY <1>1, <1>11 DEF KiSetSystemTime
<1>12. CASE CallExpiry \/ CallDriver
  BY <1>3, <1>12 DEF CallExpiry, CallDriver
<1>13. CASE KfLowerIrql \/ ReturnFromDpc
  BY <1>13 DEF KfLowerIrql, ReturnFromDpc, Dpc!Next
<1>14. CASE DriverStep
  <2>1. Drivers \subseteq Dpcs
    BY DEF Dpcs
  <2> QED
    BY <1>14, <2>1 DEF DriverStep, Dpc!Next
<1>15. CASE DispatchStep
  BY <1>15 DEF DispatchStep, Dpc!Next
<1>16. CASE UNCHANGED vars
  BY <1>1, <1>16 DEF vars
<1> QED
  BY <1>4, <1>5, <1>6, <1>7, <1>8, <1>9, <1>10, <1>11, <1>12, <1>13, <1>14, <1>15, <1>16
     DEF Next

\* What ClockAssumption says of the constants of KeDpc.
LEMMA DpcConstants ==
  /\ Word \in Nat /\ IsFiniteSet(Dpcs) /\ Cardinality(Dpcs) < Word
  /\ KiExpireTimerDpc \in Dpcs /\ KiExpireTimerDpc \notin Timers \union Drivers
  /\ WithDpc \subseteq Timers /\ Timers \intersect Drivers = {} /\ MayRemove \subseteq Drivers
<1>1. KiExpireTimerDpc \in Dpcs
  BY DEF Dpcs
<1> QED
  BY <1>1, SameSizes, ClockAssumption DEF Dpc!DpcAssumption, Timer!TimerAssumption

LEMMA DpcInit == Dpc!Init => Dpc!TypeOK /\ Dpc!QueueMatchesDepth
<1> SUFFICES ASSUME Dpc!Init PROVE Dpc!TypeOK /\ Dpc!QueueMatchesDepth
  OBVIOUS
<1>1. dpcListHead \in Seq(Dpcs) /\ Len(dpcListHead) = 0 /\ DOMAIN dpcListHead = {}
  BY DEF Dpc!Init
<1>2. Dpc!TypeOK
  <2>1. 0 \in 0 .. Word - 1
    BY DpcConstants, FS_CardinalityType
  <2> QED
    BY <1>1, <2>1 DEF Dpc!Init, Dpc!TypeOK, Dpc!Processor
<1>3. Dpc!QueueMatchesDepth
  BY <1>1 DEF Dpc!Init, Dpc!QueueMatchesDepth, Dpc!NoDuplicates, Dpc!Members
<1> QED
  BY <1>2, <1>3

\* The depth of a queue no DPC is in twice is a ULONG with room for one more.
LEMMA DepthCounts ==
  ASSUME NEW list \in Seq(Dpcs), NoDuplicates(list)
  PROVE  /\ Len(list) \in 0 .. Word - 1
         /\ Len(list) + 1 < Word => Dpc!Deeper(Len(list)) = Len(list) + 1
         /\ Len(list) > 0 => Dpc!Shallower(Len(list)) = Len(list) - 1
<1>1. Len(list) \in Nat /\ Len(list) <= Cardinality(Dpcs)
  BY DpcConstants, ListFits
<1>2. Word \in Nat /\ Cardinality(Dpcs) \in Nat /\ Cardinality(Dpcs) < Word
  BY DpcConstants, FS_CardinalityType
<1>3. PICK n \in 0 .. Word - 1 : Len(list) = n
  BY <1>1, <1>2
<1>4. n + 1 < Word => Dpc!Deeper(n) = n + 1
  BY <1>2 DEF Dpc!Deeper
<1>5. n > 0 => Dpc!Shallower(n) = n - 1
  BY <1>2 DEF Dpc!Shallower
<1> QED
  BY <1>3, <1>4, <1>5

\* A DPC that does not count as queued enters the queue.
LEMMA EntersOnce ==
  ASSUME NEW d \in Dpcs, NEW requested \in BOOLEAN, Dpc!Claims(d),
         Dpc!EntersQueue(d, requested), Dpc!TypeOK, Dpc!QueueMatchesDepth
  PROVE  /\ dpcListHead' \in Seq(Dpcs) /\ dpcQueueDepth' \in 0 .. Word - 1
         /\ dpcData' \subseteq Dpcs /\ dpcInterruptRequested' \in BOOLEAN
         /\ softwareInterrupt' \in BOOLEAN
         /\ Dpc!QueueMatchesDepth' /\ Members(dpcListHead') = Members(dpcListHead) \union {d}
<1>1. /\ dpcListHead \in Seq(Dpcs) /\ NoDuplicates(dpcListHead)
      /\ Members(dpcListHead) \subseteq dpcData /\ dpcQueueDepth = Len(dpcListHead)
  BY SameLists DEF Dpc!TypeOK, Dpc!QueueMatchesDepth
<1>2. d \notin Members(dpcListHead)
  BY <1>1 DEF Dpc!Claims
<1>3. /\ dpcListHead' \in Seq(Dpcs) /\ NoDuplicates(dpcListHead')
      /\ Members(dpcListHead') = Members(dpcListHead) \union {d}
      /\ Len(dpcListHead') = Len(dpcListHead) + 1
  <2>1. CASE importance[d] = "High"
    <3>1. dpcListHead' = <<d>> \o dpcListHead
      BY <2>1 DEF Dpc!EntersQueue
    <3>2. /\ <<d>> \o dpcListHead \in Seq(Dpcs) /\ NoDuplicates(<<d>> \o dpcListHead)
          /\ Members(<<d>> \o dpcListHead) = Members(dpcListHead) \union {d}
      BY <1>1, <1>2, PrependAdds
    <3>3. Len(<<d>> \o dpcListHead) = Len(dpcListHead) + 1
      BY <1>1
    <3> QED
      BY <3>1, <3>2, <3>3
  <2>2. CASE importance[d] # "High"
    <3>1. dpcListHead' = Append(dpcListHead, d)
      BY <2>2 DEF Dpc!EntersQueue
    <3>2. /\ Append(dpcListHead, d) \in Seq(Dpcs) /\ NoDuplicates(Append(dpcListHead, d))
          /\ Members(Append(dpcListHead, d)) = Members(dpcListHead) \union {d}
      BY <1>1, <1>2, AppendAdds
    <3>3. Len(Append(dpcListHead, d)) = Len(dpcListHead) + 1
      BY <1>1
    <3> QED
      BY <3>1, <3>2, <3>3
  <2> QED
    BY <2>1, <2>2
<1>4. Len(dpcListHead') \in 0 .. Word - 1
  BY <1>3, DepthCounts
<1>5. dpcQueueDepth' = Len(dpcListHead')
  <2>1. dpcQueueDepth' = Dpc!Deeper(Len(dpcListHead))
    BY <1>1 DEF Dpc!EntersQueue
  <2>2. Len(dpcListHead) + 1 < Word /\ Len(dpcListHead) \in Nat
    BY <1>1, <1>3, <1>4, DpcConstants
  <2> QED
    BY <1>1, <1>3, <2>1, <2>2, DepthCounts
<1>6. dpcData' = dpcData \union {d}
  BY DEF Dpc!EntersQueue
<1>7. Dpc!QueueMatchesDepth'
  BY <1>1, <1>3, <1>5, <1>6, SameLists DEF Dpc!QueueMatchesDepth
<1>8. dpcInterruptRequested' \in BOOLEAN /\ softwareInterrupt' \in BOOLEAN
  BY DEF Dpc!EntersQueue, Dpc!TypeOK
<1> QED
  BY <1>3, <1>4, <1>5, <1>6, <1>7, <1>8 DEF Dpc!TypeOK

LEMMA DpcStep ==
  ~RemovesAgain /\ Dpc!TypeOK /\ Dpc!QueueMatchesDepth /\ [Dpc!Next]_(Dpc!vars)
    => Dpc!TypeOK' /\ Dpc!QueueMatchesDepth'
<1> SUFFICES ASSUME ~RemovesAgain, Dpc!TypeOK, Dpc!QueueMatchesDepth, [Dpc!Next]_(Dpc!vars)
             PROVE  Dpc!TypeOK' /\ Dpc!QueueMatchesDepth'
  OBVIOUS
<1>0. /\ dpcListHead \in Seq(Dpcs) /\ NoDuplicates(dpcListHead)
      /\ Members(dpcListHead) \subseteq dpcData /\ dpcQueueDepth = Len(dpcListHead)
  BY SameLists DEF Dpc!TypeOK, Dpc!QueueMatchesDepth
<1>1. ASSUME UNCHANGED <<dpcListHead, dpcQueueDepth, dpcData>> PROVE Dpc!QueueMatchesDepth'
  BY <1>1 DEF Dpc!QueueMatchesDepth, Dpc!NoDuplicates, Dpc!Members
<1>2. ASSUME NEW d \in Dpcs, Dpc!KeInsertQueueDpc(d)
      PROVE  Dpc!TypeOK' /\ Dpc!QueueMatchesDepth'
  <2>1. Dpc!Claims(d) /\ Dpc!EntersQueue(d, softwareInterrupt) /\ softwareInterrupt \in BOOLEAN
    BY <1>2 DEF Dpc!KeInsertQueueDpc, Dpc!TypeOK
  <2>2. /\ dpcListHead' \in Seq(Dpcs) /\ dpcQueueDepth' \in 0 .. Word - 1
        /\ dpcData' \subseteq Dpcs /\ dpcInterruptRequested' \in BOOLEAN
        /\ softwareInterrupt' \in BOOLEAN /\ Dpc!QueueMatchesDepth'
    BY <2>1, EntersOnce
  <2> QED
    BY <1>2, <2>2 DEF Dpc!KeInsertQueueDpc, Dpc!TypeOK
<1>3. ASSUME NEW d \in Dpcs, Dpc!KeRemoveQueueDpc(d)
      PROVE  Dpc!TypeOK' /\ Dpc!QueueMatchesDepth'
  <2>1. /\ d \in Members(dpcListHead) /\ dpcListHead' = Unlink(dpcListHead, d)
        /\ dpcQueueDepth' = Dpc!Shallower(Len(dpcListHead)) /\ dpcData' = dpcData
    BY <1>0, <1>3, SameLists DEF Dpc!KeRemoveQueueDpc
  <2>2. /\ Unlink(dpcListHead, d) \in Seq(Dpcs) /\ NoDuplicates(Unlink(dpcListHead, d))
        /\ Members(Unlink(dpcListHead, d)) = Members(dpcListHead) \ {d}
    BY <1>0, UnlinkRemoves
  <2>3. Len(Unlink(dpcListHead, d)) = Len(dpcListHead) - 1 /\ Len(dpcListHead) > 0
    <3>1. Len(dpcListHead) \in Nat /\ DOMAIN dpcListHead = 1 .. Len(dpcListHead)
      BY <1>0
    <3>2. Len(dpcListHead) > 0
      BY <2>1, <3>1 DEF Members
    <3>3. DOMAIN Unlink(dpcListHead, d) = 1 .. Len(dpcListHead) - 1
      BY <2>1 DEF Unlink
    <3>4. Len(Unlink(dpcListHead, d)) \in Nat
          /\ DOMAIN Unlink(dpcListHead, d) = 1 .. Len(Unlink(dpcListHead, d))
      BY <2>2, LenProperties
    <3>5. PICK m \in Nat : Len(Unlink(dpcListHead, d)) = m
      BY <3>4
    <3>6. PICK n \in Nat : Len(dpcListHead) = n
      BY <3>1
    <3>7. 1 .. m = 1 .. n - 1 /\ n > 0
      BY <3>2, <3>3, <3>4, <3>5, <3>6
    <3>8. m = n - 1
      BY <3>7
    <3> QED
      BY <3>2, <3>5, <3>6, <3>8
  <2>4. dpcQueueDepth' = Len(dpcListHead')
    BY <1>0, <2>1, <2>3, DepthCounts
  <2>5. dpcListHead' \in Seq(Dpcs) /\ dpcQueueDepth' \in 0 .. Word - 1
    BY <2>1, <2>2, <2>4, DepthCounts
  <2>6. Dpc!QueueMatchesDepth'
    BY <1>0, <2>1, <2>2, <2>4, SameLists DEF Dpc!QueueMatchesDepth
  <2> QED
    BY <1>3, <2>5, <2>6 DEF Dpc!KeRemoveQueueDpc, Dpc!TypeOK, Dpc!flags
<1>4. ASSUME NEW d \in Dpcs, NEW i \in Importances, Dpc!KeSetImportanceDpc(d, i)
      PROVE  Dpc!TypeOK' /\ Dpc!QueueMatchesDepth'
  BY <1>1, <1>4 DEF Dpc!KeSetImportanceDpc, Dpc!TypeOK, Dpc!flags
<1>5. ASSUME Dpc!KeFlushQueuedDpcs PROVE Dpc!TypeOK' /\ Dpc!QueueMatchesDepth'
  BY <1>1, <1>5 DEF Dpc!KeFlushQueuedDpcs, Dpc!TypeOK
<1>6. ASSUME NEW ends \in BOOLEAN, Dpc!ClockInterrupt(ends, KiExpireTimerDpc)
      PROVE  Dpc!TypeOK' /\ Dpc!QueueMatchesDepth'
  <2>1. Dpc!RunTimeRequests(ends) \in BOOLEAN
    BY DEF Dpc!RunTimeRequests
  <2>2. quantumEnd' \in BOOLEAN
    BY <1>6 DEF Dpc!ClockInterrupt
  <2>3. CASE Dpc!Claims(KiExpireTimerDpc)
    <3>1. Dpc!EntersQueue(KiExpireTimerDpc, Dpc!RunTimeRequests(ends))
      BY <1>6, <2>3 DEF Dpc!ClockInterrupt
    <3>2. /\ dpcListHead' \in Seq(Dpcs) /\ dpcQueueDepth' \in 0 .. Word - 1
          /\ dpcData' \subseteq Dpcs /\ dpcInterruptRequested' \in BOOLEAN
          /\ softwareInterrupt' \in BOOLEAN /\ Dpc!QueueMatchesDepth'
      BY <2>1, <2>3, <3>1, EntersOnce, DpcConstants
    <3> QED
      BY <1>6, <2>2, <3>2 DEF Dpc!ClockInterrupt, Dpc!TypeOK
  <2>4. CASE ~Dpc!Claims(KiExpireTimerDpc)
    BY <1>1, <1>6, <2>1, <2>2, <2>4 DEF Dpc!ClockInterrupt, Dpc!TypeOK
  <2> QED
    BY <2>3, <2>4
<1>7. ASSUME Dpc!KfRaiseIrql \/ Dpc!KfLowerIrql
      PROVE  Dpc!TypeOK' /\ Dpc!QueueMatchesDepth'
  BY <1>1, <1>7 DEF Dpc!KfRaiseIrql, Dpc!KfLowerIrql, Dpc!TypeOK, Dpc!flags, Dpc!Processor
<1>8. ASSUME Dpc!KiDispatchInterrupt PROVE Dpc!TypeOK' /\ Dpc!QueueMatchesDepth'
  BY <1>1, <1>8 DEF Dpc!KiDispatchInterrupt, Dpc!TypeOK, Dpc!Processor
<1>9. ASSUME Dpc!CallDpc PROVE Dpc!TypeOK' /\ Dpc!QueueMatchesDepth'
  <2>1. /\ dpcListHead # << >> /\ dpcListHead' = Tail(dpcListHead)
        /\ dpcData' = dpcData \ {Head(dpcListHead)}
        /\ dpcQueueDepth' = Dpc!Shallower(Len(dpcListHead))
    BY <1>0, <1>9 DEF Dpc!CallDpc
  <2>2. /\ Tail(dpcListHead) \in Seq(Dpcs) /\ NoDuplicates(Tail(dpcListHead))
        /\ Members(Tail(dpcListHead)) = Members(dpcListHead) \ {Head(dpcListHead)}
    BY <1>0, <2>1, TailDrops
  <2>3. Len(Tail(dpcListHead)) = Len(dpcListHead) - 1 /\ Len(dpcListHead) > 0
    BY <1>0, <2>1, HeadTailProperties, EmptySeq
  <2>4. dpcQueueDepth' = Len(dpcListHead')
    BY <1>0, <2>1, <2>3, DepthCounts
  <2>5. dpcListHead' \in Seq(Dpcs) /\ dpcQueueDepth' \in 0 .. Word - 1
    BY <2>1, <2>2, <2>4, DepthCounts
  <2>6. Dpc!QueueMatchesDepth'
    BY <1>0, <2>1, <2>2, <2>4, SameLists DEF Dpc!QueueMatchesDepth
  <2> QED
    BY <1>9, <2>1, <2>5, <2>6 DEF Dpc!CallDpc, Dpc!TypeOK, Dpc!flags, Dpc!Processor
<1>10. ASSUME Dpc!ReturnFromDpc PROVE Dpc!TypeOK' /\ Dpc!QueueMatchesDepth'
  BY <1>1, <1>10 DEF Dpc!ReturnFromDpc, Dpc!TypeOK, Dpc!flags, Dpc!Processor
<1>11. ASSUME Dpc!EndDispatch PROVE Dpc!TypeOK' /\ Dpc!QueueMatchesDepth'
  BY <1>1, <1>11 DEF Dpc!EndDispatch, Dpc!TypeOK, Dpc!Processor
<1>12. ASSUME UNCHANGED Dpc!vars PROVE Dpc!TypeOK' /\ Dpc!QueueMatchesDepth'
  BY <1>1, <1>12 DEF Dpc!vars, Dpc!flags, Dpc!TypeOK
<1> QED
  BY <1>2, <1>3, <1>4, <1>5, <1>6, <1>7, <1>8, <1>9, <1>10, <1>11, <1>12 DEF Dpc!Next

\* KeClock implements KeDpc: what is shown of KeDpc's steps holds with the clock and the
\* timers on top of it.
THEOREM DpcsImplemented == Spec => Dpc!Spec
<1>1. Init => Dpc!Init
  BY DEF Init
<1> QED
  BY <1>1, StepsOfDpc, PTL DEF Spec, Dpc!Spec

LEMMA DpcQueueKept ==
  ~RemovesAgain => (Spec => [](Dpc!TypeOK /\ Dpc!QueueMatchesDepth))
<1> SUFFICES ASSUME ~RemovesAgain PROVE Spec => [](Dpc!TypeOK /\ Dpc!QueueMatchesDepth)
  OBVIOUS
<1>0. Dpc!TypeOK /\ Dpc!QueueMatchesDepth /\ [Dpc!Next]_(Dpc!vars)
        => Dpc!TypeOK' /\ Dpc!QueueMatchesDepth'
  BY DpcStep
<1>1. Dpc!Spec => [](Dpc!TypeOK /\ Dpc!QueueMatchesDepth)
  BY <1>0, DpcInit, PTL DEF Dpc!Spec
<1> QED
  BY <1>1, DpcsImplemented
-------------------------------------------------------------------------------
(* The lists of timers. *)

\* What the holder of the dispatcher lock does.
LEMMA Locks ==
  /\ Timer!Free.doing = "Nothing" /\ Timer!Expiring.doing = "Expire"
  /\ Timer!Free # Timer!Expiring
  /\ \A t, d : /\ Timer!Inserting(t, d).doing = "Insert"
               /\ Timer!Inserting(t, d).timer = t /\ Timer!Inserting(t, d).delay = d
<1>1. Timer!Free.doing = "Nothing" /\ Timer!Expiring.doing = "Expire"
  BY DEF Timer!Free, Timer!Expiring
<1> QED
  BY <1>1 DEF Timer!Inserting

LEMMA TimerConstants ==
  /\ Synchronization \subseteq Timers /\ WithDpc \subseteq Timers
  /\ Delays \subseteq Nat \ {0} /\ DueTimes \subseteq Nat /\ Periods \subseteq Nat
  /\ PerMsec \in Nat \ {0} /\ Half \in Nat \ {0} /\ BootTime \in Nat
  /\ SetTimes \subseteq Nat /\ MaxTime \in Nat
BY ClockAssumption DEF Timer!TimerAssumption

\* No period wraps to a due time sooner than itself: 2^32 units of 100 ns are 429 seconds.
PeriodsFit == \A p \in Periods : p * PerMsec <= 2 * Half

\* A period of p milliseconds as a due time is an integer, and it is minus the period
\* when the period fits.
LEMMA PeriodIsDueTime ==
  ASSUME NEW p \in Nat
  PROVE  /\ Timer!PeriodAsDueTime(p) \in Int
         /\ p * PerMsec \in Nat
         /\ p * PerMsec <= 2 * Half /\ Timer!PeriodAsDueTime(p) < 0
              => Timer!PeriodAsDueTime(p) = -(p * PerMsec)
<1>1. p * PerMsec \in Nat /\ Half \in Nat \ {0}
  BY TimerConstants
<1>2. PICK x \in Nat : p * PerMsec = x
  BY <1>1
<1>3. PICK h \in Nat \ {0} : Half = h
  BY <1>1
<1>4. Timer!PeriodAsDueTime(p) = ((h - x) % (2 * h)) - h
  BY <1>2, <1>3 DEF Timer!PeriodAsDueTime
<1>5. (h - x) % (2 * h) \in Int
  OBVIOUS
<1>6. CASE x <= h
  <2>1. (h - x) % (2 * h) = h - x
    BY <1>6
  <2> QED
    BY <1>1, <1>2, <1>3, <1>4, <2>1
<1>7. CASE x > h /\ x <= 2 * h
  <2>1. (h - x) % (2 * h) = 3 * h - x
    BY <1>7
  <2> QED
    BY <1>1, <1>2, <1>3, <1>4, <1>7, <2>1
<1>8. CASE x > 2 * h
  BY <1>1, <1>2, <1>3, <1>4, <1>5, <1>8
<1> QED
  BY <1>6, <1>7, <1>8

\* KiInsertTimer keeps the list in order.
LEMMA EntersInOrder ==
  ASSUME NEW list \in Seq(Timers), NoDuplicates(list), SortedBy(list, due),
         due \in [Timers -> Nat], interruptTime \in Nat,
         NEW t \in Timers, t \notin Members(list), NEW delay \in Nat \ {0},
         Timer!Enter(t, list, delay)
  PROVE  /\ timerList' \in Seq(Timers) /\ NoDuplicates(timerList')
         /\ Members(timerList') = Members(list) \union {t}
         /\ SortedBy(timerList', due')
         /\ due' \in [Timers -> Nat]
         /\ due'[t] = interruptTime + delay
         /\ \A u \in Timers : u # t => due'[u] = due[u]
<1> DEFINE d == interruptTime + delay
           P == {i \in DOMAIN list : \A j \in 1 .. i : due[list[j]] < d}
           n == Cardinality(P)
<1>1. /\ Len(list) \in Nat /\ DOMAIN list = 1 .. Len(list)
      /\ \A i \in 1 .. Len(list) : list[i] \in Timers /\ due[list[i]] \in Nat
      /\ d \in Nat
  OBVIOUS
<1> HIDE DEF d
<1>2. n \in 0 .. Len(list) /\ P = 1 .. n
  <2>1. P \in SUBSET (1 .. Len(list)) /\ \A i \in P : 1 .. i \subseteq P
    BY <1>1, SMTT(30)
  <2> QED
    BY <1>1, <2>1, PrefixCount
<1>3. \A i \in 1 .. n : due[list[i]] < d
  BY <1>1, <1>2
<1>4. n < Len(list) => d <= due[list[n + 1]]
  <2> SUFFICES ASSUME n < Len(list), ~(d <= due[list[n + 1]]) PROVE FALSE
    OBVIOUS
  <2>1. n + 1 \in DOMAIN list /\ n + 1 \notin 1 .. n
    BY <1>1, <1>2
  <2>2. due[list[n + 1]] < d
    BY <1>1, <2>1
  <2>3. \A j \in 1 .. n + 1 : due[list[j]] < d
    <3> TAKE j \in 1 .. n + 1
    <3>1. j \in 1 .. n \/ j = n + 1
      BY <1>2
    <3> QED
      BY <1>3, <2>2, <3>1
  <2> QED
    BY <1>2, <2>1, <2>3
<1>5. timerList' = InsertAfter(list, n, t)
  BY SameLists, SameSizes DEF Timer!Enter, Timer!InsertAscending, d
<1>6. due' = [due EXCEPT ![t] = d]
  BY DEF Timer!Enter, d
<1> HIDE DEF P, n
<1>7. /\ InsertAfter(list, n, t) \in Seq(Timers) /\ NoDuplicates(InsertAfter(list, n, t))
      /\ Members(InsertAfter(list, n, t)) = Members(list) \union {t}
  BY <1>2, InsertAdds
<1>8. SortedBy(InsertAfter(list, n, t), [due EXCEPT ![t] = d])
  <2>1. due \in [Timers -> Int] /\ d \in Int
    BY <1>1
  <2>2. \A i \in 1 .. n : due[list[i]] <= d
    BY <1>1, <1>2, <1>3
  <2> QED
    BY <1>2, <1>4, <2>1, <2>2, InsertKeepsOrder
<1> QED
  BY <1>1, <1>5, <1>6, <1>7, <1>8 DEF d

\* KiExpireTimers takes exactly the timers that are due.
LEMMA ExpiresTheDue ==
  ASSUME NEW list \in Seq(Timers), SortedBy(list, due),
         due \in [Timers -> Nat], interruptTime \in Nat
  PROVE  LET n == Cardinality({i \in DOMAIN list : \A j \in 1 .. i : Timer!DueNow(list[j])})
         IN  /\ n \in 0 .. Len(list)
             /\ \A i \in 1 .. n : interruptTime >= due[list[i]]
             /\ \A i \in n + 1 .. Len(list) : interruptTime < due[list[i]]
<1> DEFINE P == {i \in DOMAIN list : \A j \in 1 .. i : Timer!DueNow(list[j])}
           n == Cardinality(P)
<1>1. /\ Len(list) \in Nat /\ DOMAIN list = 1 .. Len(list)
      /\ \A i \in 1 .. Len(list) : list[i] \in Timers /\ due[list[i]] \in Nat
  OBVIOUS
<1>2. n \in 0 .. Len(list) /\ P = 1 .. n
  <2>1. P \in SUBSET (1 .. Len(list)) /\ \A i \in P : 1 .. i \subseteq P
    BY <1>1
  <2> QED
    BY <1>1, <2>1, PrefixCount
<1>3. \A i \in 1 .. n : interruptTime >= due[list[i]]
  BY <1>1, <1>2 DEF Timer!DueNow
<1>4. ASSUME NEW i \in n + 1 .. Len(list) PROVE interruptTime < due[list[i]]
  <2>1. n + 1 \in DOMAIN list /\ n + 1 \notin 1 .. n /\ i \in DOMAIN list
        /\ (n + 1 < i \/ i = n + 1)
    BY <1>1, <1>2
  <2>2. interruptTime < due[list[n + 1]]
    <3> SUFFICES ASSUME interruptTime >= due[list[n + 1]] PROVE FALSE
      BY <1>1, <2>1
    <3>1. \A j \in 1 .. n + 1 : Timer!DueNow(list[j])
      BY <1>1, <1>2, <1>3, SMTT(30) DEF Timer!DueNow
    <3> QED
      BY <1>2, <2>1, <3>1
  <2>3. due[list[n + 1]] <= due[list[i]]
    BY <1>1, <2>1 DEF SortedBy
  <2> QED
    BY <1>1, <2>1, <2>2, <2>3
<1> QED
  BY <1>2, <1>3, <1>4
-------------------------------------------------------------------------------
(* What is kept of the timers. *)

\* The timer KeSetTimerEx is about to enter into the list.
Entering == IF lock.doing = "Insert" THEN {lock.timer} ELSE {}

\* InsertedIsLinked with the lists as sets.
Linked ==
  /\ NoDuplicates(timerList) /\ NoDuplicates(expiredList)
  /\ Members(timerList) \cap Members(expiredList) = {}
  /\ \A t \in Timers :
       inserted[t] <=> t \in Members(timerList) \union Members(expiredList) \union Entering
  /\ (Members(timerList) \union Members(expiredList)) \cap Entering = {}

InOrder == SortedBy(timerList, due)

\* NothingOverdue, whatever the lock is held for.
NoneIsDue ==
  KiExpireTimerDpc \in Dpc!Members(dpcListHead)
    \/ \A t \in Members(timerList) : interruptTime < due[t]

\* NobodyWaitsForSignaled, whatever the lock is held for.
NoneIsSignaled == \A t \in waiting : ~signaled[t]

TimersKept == Timer!TypeOK /\ Linked /\ InOrder /\ NoneIsDue /\ NoneIsSignaled

\* With the lock free no list but timerList has timers.
LEMMA WhenFree ==
  ASSUME TimersKept, lock = Timer!Free
  PROVE  /\ expiredList = << >> /\ Members(expiredList) = {} /\ Entering = {}
         /\ \A t \in Timers : inserted[t] <=> t \in Members(timerList)
<1>1. expiredList = << >>
  BY Locks DEF TimersKept, Timer!TypeOK
<1>2. Members(expiredList) = {}
  BY <1>1, EmptyHasNone
<1>3. Entering = {}
  BY Locks DEF Entering
<1> QED
  BY <1>1, <1>2, <1>3 DEF TimersKept, Linked

\* timerList without a timer.
LEMMA Unlinked ==
  ASSUME TimersKept, NEW t \in Timers
  PROVE  LET list == Timer!Unlink(timerList, t)
         IN  /\ list \in Seq(Timers) /\ NoDuplicates(list) /\ SortedBy(list, due)
             /\ Members(list) = Members(timerList) \ {t}
<1>1. timerList \in Seq(Timers) /\ NoDuplicates(timerList) /\ SortedBy(timerList, due)
  BY DEF TimersKept, Timer!TypeOK, Linked, InOrder
<1>2. /\ Unlink(timerList, t) \in Seq(Timers) /\ NoDuplicates(Unlink(timerList, t))
      /\ Members(Unlink(timerList, t)) = Members(timerList) \ {t}
  BY <1>1, UnlinkRemoves
<1>3. SortedBy(Unlink(timerList, t), due)
  BY <1>1, UnlinkKeepsOrder
<1> QED
  BY <1>2, <1>3, SameLists

\* A timer that has expired is entered again or is on no list.
LEMMA Rearmed ==
  ASSUME Timer!TypeOK, NEW list \in Seq(Timers), NoDuplicates(list), SortedBy(list, due),
         NEW t \in Timers, t \notin Members(list), NEW p \in Periods \union {0},
         Timer!Rearm(t, list, p)
  PROVE  /\ timerList' \in Seq(Timers) /\ NoDuplicates(timerList')
         /\ SortedBy(timerList', due')
         /\ Members(timerList') \ {t} = Members(list)
         /\ t \in Members(timerList') => interruptTime < due'[t]
         /\ due' \in [Timers -> Nat] /\ \A u \in Timers : u # t => due'[u] = due[u]
         /\ inserted' \in [Timers -> BOOLEAN]
         /\ inserted'[t] <=> t \in Members(timerList')
         /\ \A u \in Timers : u # t => inserted'[u] = inserted[u]
         /\ signaled' \in [Timers -> BOOLEAN]
         /\ \A u \in Timers : u # t => signaled'[u] = signaled[u]
         /\ notBefore' \in [Timers -> Nat]
         /\ \A u \in Timers : u # t => notBefore'[u] = notBefore[u]
         /\ p = 0 => UNCHANGED notBefore /\ t \notin Members(timerList')
         /\ PeriodsFit => t \notin Members(timerList') \/ notBefore'[t] <= due'[t]
<1>1. /\ due \in [Timers -> Nat] /\ interruptTime \in Nat /\ notBefore \in [Timers -> Nat]
      /\ inserted \in [Timers -> BOOLEAN] /\ signaled \in [Timers -> BOOLEAN]
  BY TimerConstants DEF Timer!TypeOK
<1>2. p \in Nat /\ p * PerMsec \in Nat /\ Timer!PeriodAsDueTime(p) \in Int
  <2>1. p \in Nat
    BY TimerConstants
  <2> QED
    BY <2>1, PeriodIsDueTime
<1>3. Timer!StaysSignaled(t) \in BOOLEAN
  BY DEF Timer!StaysSignaled
<1>4. CASE p = 0 \/ ~(Timer!PeriodAsDueTime(p) < 0)
  <2>1. /\ signaled' \in [Timers -> BOOLEAN]
        /\ \A u \in Timers : u # t => signaled'[u] = signaled[u]
    BY <1>1, <1>2, <1>3, <1>4 DEF Timer!Rearm
  <2>2. /\ inserted' = [inserted EXCEPT ![t] = FALSE] /\ timerList' = list
        /\ due' = due /\ notBefore' = notBefore
    BY <1>2, <1>4 DEF Timer!Rearm
  <2> QED
    BY <1>1, <2>1, <2>2
<1>5. CASE p # 0 /\ Timer!PeriodAsDueTime(p) < 0
  <2>1. /\ signaled' = [signaled EXCEPT ![t] = Timer!StaysSignaled(t)]
        /\ notBefore' = [notBefore EXCEPT ![t] = interruptTime + p * PerMsec]
        /\ Timer!Enter(t, list, -Timer!PeriodAsDueTime(p))
    BY <1>2, <1>5 DEF Timer!Rearm
  <2>2. -Timer!PeriodAsDueTime(p) \in Nat \ {0}
    BY <1>2, <1>5
  <2>3. /\ timerList' \in Seq(Timers) /\ NoDuplicates(timerList')
        /\ Members(timerList') = Members(list) \union {t}
        /\ SortedBy(timerList', due') /\ due' \in [Timers -> Nat]
        /\ due'[t] = interruptTime + (-Timer!PeriodAsDueTime(p))
        /\ \A u \in Timers : u # t => due'[u] = due[u]
    BY <1>1, <2>1, <2>2, EntersInOrder
  <2>4. interruptTime < due'[t]
    BY <1>1, <2>2, <2>3
  <2>5. inserted' = [inserted EXCEPT ![t] = TRUE]
    BY <2>1 DEF Timer!Enter
  <2>6. interruptTime + p * PerMsec \in Nat
    BY <1>1, <1>2
  <2>7. /\ notBefore' \in [Timers -> Nat]
        /\ notBefore'[t] = interruptTime + p * PerMsec
        /\ \A u \in Timers : u # t => notBefore'[u] = notBefore[u]
    BY <1>1, <2>1, <2>6
  <2>8. /\ signaled' \in [Timers -> BOOLEAN]
        /\ \A u \in Timers : u # t => signaled'[u] = signaled[u]
    BY <1>1, <1>3, <2>1
  <2>9. /\ inserted' \in [Timers -> BOOLEAN] /\ inserted'[t]
        /\ \A u \in Timers : u # t => inserted'[u] = inserted[u]
    BY <1>1, <2>5
  <2>10. ASSUME PeriodsFit PROVE notBefore'[t] <= due'[t]
    <3>1. p * PerMsec <= 2 * Half
      BY <1>5, <2>10 DEF PeriodsFit
    <3>2. Timer!PeriodAsDueTime(p) = -(p * PerMsec)
      BY <1>2, <1>5, <3>1, PeriodIsDueTime
    <3>3. -Timer!PeriodAsDueTime(p) = p * PerMsec
      BY <1>2, <3>2
    <3> QED
      BY <1>1, <1>2, <2>3, <2>6, <2>7, <3>3
  <2> QED
    BY <1>5, <2>3, <2>4, <2>7, <2>8, <2>9, <2>10
<1> QED
  BY <1>4, <1>5

\* A timer that was on no list but timerList has been entered into it, or not.
LEMMA HandledOne ==
  ASSUME TimersKept, NEW t \in Timers, NEW p \in Periods \union {0}, NEW list \in Seq(Timers),
         NoDuplicates(list), SortedBy(list, due), Members(list) = Members(timerList) \ {t},
         Timer!KiHandleExpiredTimer(t, list, p),
         NoDuplicates(expiredList'),
         Members(expiredList') = Members(expiredList) \ {t},
         lock' = lock, t \notin Entering, UNCHANGED interruptTime,
         (KiExpireTimerDpc \in Dpc!Members(dpcListHead)) =>
           (KiExpireTimerDpc \in Dpc!Members(dpcListHead))'
  PROVE  /\ Linked' /\ InOrder' /\ NoneIsDue' /\ NoneIsSignaled'
         /\ timerList' \in Seq(Timers) /\ due' \in [Timers -> Nat]
         /\ inserted' \in [Timers -> BOOLEAN] /\ signaled' \in [Timers -> BOOLEAN]
         /\ notBefore' \in [Timers -> Nat] /\ waiting' \subseteq Timers
<1>1. Timer!TypeOK /\ Timer!Rearm(t, list, p) /\ t \notin Members(list)
      /\ waiting' = waiting \ {t}
  BY DEF TimersKept, Timer!KiHandleExpiredTimer
<1>2. /\ timerList' \in Seq(Timers) /\ NoDuplicates(timerList')
      /\ SortedBy(timerList', due')
      /\ Members(timerList') \ {t} = Members(list)
      /\ t \in Members(timerList') => interruptTime < due'[t]
      /\ due' \in [Timers -> Nat] /\ \A u \in Timers : u # t => due'[u] = due[u]
      /\ inserted' \in [Timers -> BOOLEAN]
      /\ inserted'[t] <=> t \in Members(timerList')
      /\ \A u \in Timers : u # t => inserted'[u] = inserted[u]
      /\ signaled' \in [Timers -> BOOLEAN]
      /\ \A u \in Timers : u # t => signaled'[u] = signaled[u]
      /\ notBefore' \in [Timers -> Nat]
  BY <1>1, Rearmed
<1>3. /\ \A u \in Members(timerList) : u \in Timers
      /\ waiting \subseteq Timers
  BY DEF Members, TimersKept, Timer!TypeOK
<1>4. Entering' = Entering
  BY DEF Entering
<1>5. Linked'
  <2>1. Members(timerList') \cap Members(expiredList') = {}
    BY <1>2 DEF TimersKept, Linked
  <2>2. ASSUME NEW u \in Timers
        PROVE  inserted'[u]
                 <=> u \in Members(timerList') \union Members(expiredList') \union Entering'
    <3>1. CASE u = t
      BY <1>2, <1>4, <3>1
    <3>2. CASE u # t
      BY <1>2, <1>4, <3>2 DEF TimersKept, Linked
    <3> QED
      BY <3>1, <3>2
  <2>3. (Members(timerList') \union Members(expiredList')) \cap Entering' = {}
    BY <1>2, <1>4 DEF TimersKept, Linked
  <2> QED
    BY <1>2, <2>1, <2>2, <2>3 DEF Linked
<1>6. NoneIsDue'
  BY <1>2, <1>3 DEF TimersKept, NoneIsDue
<1>7. NoneIsSignaled'
  BY <1>1, <1>2, <1>3 DEF TimersKept, NoneIsSignaled
<1> QED
  BY <1>1, <1>2, <1>3, <1>5, <1>6, <1>7 DEF InOrder

LEMMA TimerStep == TimersKept /\ [Timer!Next]_(Timer!vars) => TimersKept'
<1> SUFFICES ASSUME TimersKept, [Timer!Next]_(Timer!vars) PROVE TimersKept'
  OBVIOUS
<1>0. /\ timerList \in Seq(Timers) /\ NoDuplicates(timerList) /\ SortedBy(timerList, due)
      /\ due \in [Timers -> Nat] /\ interruptTime \in Nat /\ systemTime \in Nat
      /\ \A u \in Members(timerList) : u \in Timers
  BY TimerConstants DEF TimersKept, Timer!TypeOK, Linked, InOrder, Members
<1>1. ASSUME NEW t \in Timers, Timer!KeCancelTimer(t) PROVE TimersKept'
  <2>1. /\ lock = Timer!Free /\ timerList' = Timer!Unlink(timerList, t)
        /\ inserted' = [inserted EXCEPT ![t] = FALSE]
        /\ UNCHANGED <<expiredList, lock, due, interruptTime, waiting, signaled>>
        /\ (KiExpireTimerDpc \in Dpc!Members(dpcListHead))' =
             (KiExpireTimerDpc \in Dpc!Members(dpcListHead))
    BY <1>1 DEF Timer!KeCancelTimer, Timer!clocks
  <2>2. /\ timerList' \in Seq(Timers) /\ NoDuplicates(timerList') /\ SortedBy(timerList', due')
        /\ Members(timerList') = Members(timerList) \ {t}
    BY <2>1, Unlinked
  <2>3. Timer!TypeOK'
    BY <1>1, <2>2 DEF TimersKept, Timer!TypeOK, Timer!KeCancelTimer, Timer!clocks
  <2>4. Linked'
    BY <2>1, <2>2, WhenFree DEF TimersKept, Linked, Timer!TypeOK, Entering
  <2>5. NoneIsDue'
    BY <2>1, <2>2 DEF TimersKept, NoneIsDue
  <2>6. NoneIsSignaled'
    BY <2>1 DEF TimersKept, NoneIsSignaled
  <2> QED
    BY <2>2, <2>3, <2>4, <2>5, <2>6 DEF TimersKept, InOrder
<1>2. ASSUME NEW t \in Timers, Timer!KeWaitForTimer(t) PROVE TimersKept'
  <2>1. /\ UNCHANGED <<timerList, expiredList, lock, due, interruptTime, inserted>>
        /\ (KiExpireTimerDpc \in Dpc!Members(dpcListHead))' =
             (KiExpireTimerDpc \in Dpc!Members(dpcListHead))
    BY <1>2 DEF Timer!KeWaitForTimer, Timer!clocks, Timer!lists
  <2>2. Timer!TypeOK'
    BY <1>2 DEF TimersKept, Timer!TypeOK, Timer!KeWaitForTimer, Timer!clocks, Timer!lists
  <2>3. Linked' /\ NoneIsDue' /\ InOrder'
    BY <2>1 DEF TimersKept, Linked, NoneIsDue, InOrder, Entering
  <2>4. NoneIsSignaled'
    BY <1>2 DEF TimersKept, NoneIsSignaled, Timer!KeWaitForTimer, Timer!TypeOK
  <2> QED
    BY <2>2, <2>3, <2>4 DEF TimersKept
<1>3. ASSUME NEW t \in Timers, NEW p \in Periods, NEW d \in Delays,
             Timer!KeSetTimerRelative(t, d, p)
      PROVE  TimersKept'
  <2> DEFINE list == Timer!Unlink(timerList, t)
  <2>1. /\ lock = Timer!Free /\ Timer!Enter(t, list, d)
        /\ signaled' = [signaled EXCEPT ![t] = FALSE]
        /\ notBefore' = [notBefore EXCEPT ![t] = interruptTime + d]
        /\ inserted' = [inserted EXCEPT ![t] = TRUE]
        /\ UNCHANGED <<expiredList, lock, interruptTime, waiting>>
        /\ (KiExpireTimerDpc \in Dpc!Members(dpcListHead))' =
             (KiExpireTimerDpc \in Dpc!Members(dpcListHead))
    BY <1>3 DEF Timer!KeSetTimerRelative, Timer!clocks, Timer!Enter
  <2>2. /\ list \in Seq(Timers) /\ NoDuplicates(list) /\ SortedBy(list, due)
        /\ Members(list) = Members(timerList) \ {t} /\ t \notin Members(list)
        /\ d \in Nat \ {0}
    BY Unlinked, TimerConstants
  <2> HIDE DEF list
  <2>3. /\ timerList' \in Seq(Timers) /\ NoDuplicates(timerList')
        /\ Members(timerList') = Members(list) \union {t}
        /\ SortedBy(timerList', due') /\ due' \in [Timers -> Nat]
        /\ due'[t] = interruptTime + d
        /\ \A u \in Timers : u # t => due'[u] = due[u]
    BY <1>0, <2>1, <2>2, EntersInOrder
  <2>4. interruptTime + d \in Nat /\ interruptTime < due'[t]
    BY <1>0, <2>2, <2>3
  <2>5. /\ inserted' \in [Timers -> BOOLEAN] /\ signaled' \in [Timers -> BOOLEAN]
        /\ notBefore' \in [Timers -> Nat]
    BY <2>1, <2>4 DEF TimersKept, Timer!TypeOK
  <2>6. Timer!TypeOK'
    BY <1>3, <2>3, <2>5 DEF TimersKept, Timer!TypeOK, Timer!KeSetTimerRelative, Timer!clocks
  <2>7. Linked'
    BY <2>1, <2>2, <2>3, WhenFree DEF TimersKept, Linked, Timer!TypeOK, Entering
  <2>8. NoneIsDue'
    BY <1>0, <2>1, <2>2, <2>3, <2>4 DEF TimersKept, NoneIsDue
  <2>9. NoneIsSignaled'
    BY <2>1 DEF TimersKept, NoneIsSignaled, Timer!TypeOK
  <2> QED
    BY <2>3, <2>6, <2>7, <2>8, <2>9 DEF TimersKept, InOrder
<1>4. ASSUME NEW t \in Timers, NEW p \in Periods, NEW d \in DueTimes,
             Timer!KeSetTimerAbsolute(t, d, p)
      PROVE  TimersKept'
  <2> DEFINE list == Timer!Unlink(timerList, t)
  <2>1. /\ lock = Timer!Free
        /\ UNCHANGED <<expiredList, interruptTime, systemTime>>
        /\ (KiExpireTimerDpc \in Dpc!Members(dpcListHead))' =
             (KiExpireTimerDpc \in Dpc!Members(dpcListHead))
        /\ period' = [period EXCEPT ![t] = p]
    BY <1>4 DEF Timer!KeSetTimerAbsolute, Timer!clocks
  <2>2. /\ list \in Seq(Timers) /\ NoDuplicates(list) /\ SortedBy(list, due)
        /\ Members(list) = Members(timerList) \ {t} /\ d \in Nat
    BY Unlinked, TimerConstants
  <2>3. /\ Members(expiredList) = {} /\ Entering = {} /\ expiredList = << >>
    BY <2>1, WhenFree
  <2>4. CASE systemTime >= d
    <3>1. /\ Timer!KiHandleExpiredTimer(t, list, p) /\ lock' = lock
          /\ absolute' = [absolute EXCEPT ![t] = FALSE]
      BY <1>4, <2>4 DEF Timer!KeSetTimerAbsolute
    <3>2. NoDuplicates(expiredList') /\ Members(expiredList') = Members(expiredList) \ {t}
      BY <2>1, <2>3 DEF TimersKept, Linked
    <3> HIDE DEF list
    <3>3. /\ Linked' /\ InOrder' /\ NoneIsDue' /\ NoneIsSignaled'
          /\ timerList' \in Seq(Timers) /\ due' \in [Timers -> Nat]
          /\ inserted' \in [Timers -> BOOLEAN] /\ signaled' \in [Timers -> BOOLEAN]
          /\ notBefore' \in [Timers -> Nat] /\ waiting' \subseteq Timers
      BY <2>1, <2>2, <2>3, <3>1, <3>2, HandledOne
    <3>4. Timer!TypeOK'
      BY <2>1, <3>1, <3>3 DEF TimersKept, Timer!TypeOK
    <3> QED
      BY <3>3, <3>4 DEF TimersKept
  <2>5. CASE ~(systemTime >= d)
    <3>1. /\ signaled' = [signaled EXCEPT ![t] = FALSE]
          /\ inserted' = [inserted EXCEPT ![t] = TRUE]
          /\ absolute' = [absolute EXCEPT ![t] = TRUE]
          /\ notBefore' = [notBefore EXCEPT ![t] = d]
          /\ timerList' = list
          /\ lock' = Timer!Inserting(t, d - systemTime)
          /\ due' = due /\ waiting' = waiting
      BY <1>4, <2>5 DEF Timer!KeSetTimerAbsolute
    <3> HIDE DEF list
    <3>2. /\ lock'.doing = "Insert" /\ lock'.timer = t /\ lock'.delay = d - systemTime
          /\ d - systemTime \in Nat \ {0} /\ lock' # Timer!Expiring
      BY <1>0, <2>2, <2>5, <3>1, Locks
    <3>3. Timer!TypeOK'
      <4>1. /\ signaled' \in [Timers -> BOOLEAN] /\ inserted' \in [Timers -> BOOLEAN]
            /\ absolute' \in [Timers -> BOOLEAN] /\ notBefore' \in [Timers -> Nat]
            /\ period' \in [Timers -> Periods \union {0}] /\ timerList' \in Seq(Timers)
        BY <2>1, <2>2, <3>1 DEF TimersKept, Timer!TypeOK
      <4>2. UNCHANGED <<interruptTime, systemTime, expiredList, due, waiting>>
        BY <2>1, <3>1
      <4> QED
        BY <2>3, <3>2, <4>1, <4>2 DEF TimersKept, Timer!TypeOK
    <3>4. Entering' = {t}
      BY <3>2 DEF Entering
    <3>5. Linked'
      BY <2>1, <2>2, <2>3, <3>1, <3>4 DEF TimersKept, Linked, Timer!TypeOK
    <3>6. NoneIsDue'
      BY <2>1, <2>2, <3>1 DEF TimersKept, NoneIsDue
    <3>7. NoneIsSignaled'
      BY <3>1 DEF TimersKept, NoneIsSignaled, Timer!TypeOK
    <3> QED
      BY <2>2, <3>1, <3>3, <3>5, <3>6, <3>7 DEF TimersKept, InOrder
  <2> QED
    BY <2>4, <2>5
<1>5. ASSUME Timer!InsertTimer PROVE TimersKept'
  <2>1. /\ lock.doing = "Insert" /\ Timer!Enter(lock.timer, timerList, lock.delay)
        /\ lock' = Timer!Free
        /\ UNCHANGED <<interruptTime, expiredList, waiting, signaled>>
        /\ (KiExpireTimerDpc \in Dpc!Members(dpcListHead))' =
             (KiExpireTimerDpc \in Dpc!Members(dpcListHead))
        /\ inserted' = [inserted EXCEPT ![lock.timer] = TRUE]
    BY <1>5 DEF Timer!InsertTimer, Timer!clocks, Timer!Enter
  <2>2. lock.timer \in Timers /\ lock.delay \in Nat \ {0} /\ lock # Timer!Expiring
    BY <2>1, Locks DEF TimersKept, Timer!TypeOK
  <2>3. Entering = {lock.timer} /\ Entering' = {}
    BY <2>1, Locks DEF Entering
  <2>4. lock.timer \notin Members(timerList) /\ lock.timer \notin Members(expiredList)
    BY <2>3 DEF TimersKept, Linked
  <2>5. /\ timerList' \in Seq(Timers) /\ NoDuplicates(timerList')
        /\ Members(timerList') = Members(timerList) \union {lock.timer}
        /\ SortedBy(timerList', due') /\ due' \in [Timers -> Nat]
        /\ due'[lock.timer] = interruptTime + lock.delay
        /\ \A u \in Timers : u # lock.timer => due'[u] = due[u]
    BY <1>0, <2>1, <2>2, <2>4, EntersInOrder
  <2>6. Timer!TypeOK'
    BY <1>5, <2>1, <2>2, <2>5 DEF TimersKept, Timer!TypeOK, Timer!InsertTimer, Timer!clocks
  <2>7. Linked'
    BY <2>1, <2>2, <2>3, <2>4, <2>5 DEF TimersKept, Linked, Timer!TypeOK
  <2>8. interruptTime < due'[lock.timer]
    BY <1>0, <2>2, <2>5
  <2>9. NoneIsDue'
    BY <1>0, <2>1, <2>4, <2>5, <2>8 DEF TimersKept, NoneIsDue
  <2>10. NoneIsSignaled'
    BY <2>1 DEF TimersKept, NoneIsSignaled
  <2> QED
    BY <2>5, <2>6, <2>7, <2>9, <2>10 DEF TimersKept, InOrder
<1>6. ASSUME Timer!KiExpireTimers PROVE TimersKept'
  <2> DEFINE n == Cardinality({i \in DOMAIN timerList :
                                \A j \in 1 .. i : Timer!DueNow(timerList[j])})
  <2>1. /\ lock = Timer!Free /\ lock' = Timer!Expiring
        /\ expiredList' = SubSeq(timerList, 1, n)
        /\ timerList' = SubSeq(timerList, n + 1, Len(timerList))
        /\ UNCHANGED <<interruptTime, systemTime, inserted, absolute, signaled, due, period,
                       notBefore, waiting>>
    BY <1>6, SameSizes DEF Timer!KiExpireTimers, Timer!timer
  <2>2. /\ n \in 0 .. Len(timerList)
        /\ \A i \in n + 1 .. Len(timerList) : interruptTime < due[timerList[i]]
    BY <1>0, ExpiresTheDue
  <2> HIDE DEF n
  <2>3. /\ expiredList' \in Seq(Timers) /\ timerList' \in Seq(Timers)
        /\ Len(timerList') = Len(timerList) - n
        /\ \A i \in 1 .. Len(timerList) - n : timerList'[i] = timerList[n + i]
        /\ NoDuplicates(expiredList') /\ NoDuplicates(timerList')
        /\ Members(timerList) = Members(expiredList') \union Members(timerList')
        /\ Members(expiredList') \cap Members(timerList') = {}
    BY <1>0, <2>1, <2>2, SplitDivides
  <2>4. InOrder'
    BY <1>0, <2>1, <2>2, SplitKeepsOrder DEF InOrder
  <2>5. Entering' = {}
    BY <2>1, Locks DEF Entering
  <2>6. Timer!TypeOK'
    BY <2>1, <2>3 DEF TimersKept, Timer!TypeOK
  <2>7. Linked'
    BY <2>1, <2>3, <2>5, WhenFree DEF Linked
  <2>8. NoneIsDue'
    <3>1. ASSUME NEW i \in DOMAIN timerList' PROVE interruptTime < due[timerList'[i]]
      <4>1. i \in 1 .. Len(timerList) - n
        BY <2>3, LenProperties
      <4>2. n + i \in n + 1 .. Len(timerList)
        BY <1>0, <2>2, <4>1
      <4> QED
        BY <2>2, <2>3, <4>1, <4>2
    <3> QED
      BY <2>1, <3>1 DEF NoneIsDue, Members
  <2>9. NoneIsSignaled'
    BY <2>1 DEF TimersKept, NoneIsSignaled
  <2> QED
    BY <2>4, <2>6, <2>7, <2>8, <2>9 DEF TimersKept
<1>7. ASSUME Timer!ExpireNext PROVE TimersKept'
  <2> DEFINE t == Head(expiredList)
  <2>1. /\ lock = Timer!Expiring /\ expiredList # << >> /\ expiredList' = Tail(expiredList)
        /\ absolute' = [absolute EXCEPT ![t] = @ /\ period[t] = 0]
        /\ Timer!KiHandleExpiredTimer(t, timerList, period[t])
        /\ UNCHANGED <<interruptTime, systemTime, period, lock>>
        /\ (KiExpireTimerDpc \in Dpc!Members(dpcListHead))' =
             (KiExpireTimerDpc \in Dpc!Members(dpcListHead))
    BY <1>7 DEF Timer!ExpireNext, Timer!clocks
  <2>2. expiredList \in Seq(Timers) /\ NoDuplicates(expiredList)
    BY DEF TimersKept, Timer!TypeOK, Linked
  <2>3. t \in Timers /\ t \in Members(expiredList)
    BY <2>1, <2>2, HeadIsMember
  <2>4. /\ expiredList' \in Seq(Timers) /\ NoDuplicates(expiredList')
        /\ Members(expiredList') = Members(expiredList) \ {t}
    BY <2>1, <2>2, TailDrops
  <2> HIDE DEF t
  <2>5. Entering = {}
    BY <2>1, Locks DEF Entering
  <2>6. t \notin Members(timerList) /\ period[t] \in Periods \union {0}
    BY <2>3 DEF TimersKept, Linked, Timer!TypeOK
  <2>7. Members(timerList) = Members(timerList) \ {t}
    BY <2>6
  <2>8. /\ Linked' /\ InOrder' /\ NoneIsDue' /\ NoneIsSignaled'
        /\ timerList' \in Seq(Timers) /\ due' \in [Timers -> Nat]
        /\ inserted' \in [Timers -> BOOLEAN] /\ signaled' \in [Timers -> BOOLEAN]
        /\ notBefore' \in [Timers -> Nat] /\ waiting' \subseteq Timers
    BY <1>0, <2>1, <2>3, <2>4, <2>5, <2>6, <2>7, HandledOne
  <2>9. absolute' \in [Timers -> BOOLEAN]
    BY <2>1, <2>3 DEF TimersKept, Timer!TypeOK
  <2>10. Timer!TypeOK'
    BY <2>1, <2>4, <2>8, <2>9 DEF TimersKept, Timer!TypeOK
  <2> QED
    BY <2>8, <2>10 DEF TimersKept
<1>8. ASSUME Timer!EndExpire PROVE TimersKept'
  <2>1. /\ lock = Timer!Expiring /\ lock' = Timer!Free /\ expiredList = << >>
        /\ UNCHANGED <<interruptTime, systemTime, timerList, expiredList, inserted, absolute,
                       signaled, due, period, notBefore, waiting>>
        /\ (KiExpireTimerDpc \in Dpc!Members(dpcListHead))' =
             (KiExpireTimerDpc \in Dpc!Members(dpcListHead))
    BY <1>8 DEF Timer!EndExpire, Timer!clocks, Timer!lists, Timer!timer
  <2>2. Entering = {} /\ Entering' = {}
    BY <2>1, Locks DEF Entering
  <2>3. Timer!TypeOK'
    BY <2>1, Locks DEF TimersKept, Timer!TypeOK
  <2>4. Linked' /\ InOrder' /\ NoneIsDue' /\ NoneIsSignaled'
    BY <2>1, <2>2 DEF TimersKept, Linked, InOrder, NoneIsDue, NoneIsSignaled
  <2> QED
    BY <2>3, <2>4 DEF TimersKept
<1>9. ASSUME Timer!KeUpdateSystemTime PROVE TimersKept'
  <2>1. /\ (KiExpireTimerDpc \in Dpc!Members(dpcListHead))'
        /\ UNCHANGED <<timerList, expiredList, inserted, absolute, signaled, due, period,
                       notBefore, waiting, lock>>
    BY <1>9 DEF Timer!KeUpdateSystemTime, Timer!lists, Timer!timer
  <2>2. interruptTime' \in 0 .. MaxTime /\ systemTime' \in Nat
    BY <1>9, TimerConstants DEF Timer!KeUpdateSystemTime, TimersKept, Timer!TypeOK
  <2>3. Timer!TypeOK'
    BY <2>1, <2>2 DEF TimersKept, Timer!TypeOK
  <2>4. Linked' /\ InOrder' /\ NoneIsDue' /\ NoneIsSignaled'
    BY <2>1 DEF TimersKept, Linked, InOrder, NoneIsDue, NoneIsSignaled, Entering
  <2> QED
    BY <2>3, <2>4 DEF TimersKept
<1>10. ASSUME NEW time \in SetTimes, Timer!KiSetSystemTime(time) PROVE TimersKept'
  <2>1. /\ systemTime' \in Nat
        /\ UNCHANGED <<interruptTime, timerList, expiredList, inserted, absolute, signaled, due,
                       period, notBefore, waiting, lock>>
        /\ (KiExpireTimerDpc \in Dpc!Members(dpcListHead))' =
             (KiExpireTimerDpc \in Dpc!Members(dpcListHead))
    BY <1>10, TimerConstants DEF Timer!KiSetSystemTime, Timer!lists, Timer!timer
  <2>2. Timer!TypeOK'
    BY <2>1 DEF TimersKept, Timer!TypeOK
  <2>3. Linked' /\ InOrder' /\ NoneIsDue' /\ NoneIsSignaled'
    BY <2>1 DEF TimersKept, Linked, InOrder, NoneIsDue, NoneIsSignaled, Entering
  <2> QED
    BY <2>2, <2>3 DEF TimersKept
<1>11. ASSUME \/ \E t \in Timers : Timer!RunTimerDpc(t)
              \/ UNCHANGED Timer!vars
       PROVE  TimersKept'
  <2>1. /\ UNCHANGED <<interruptTime, systemTime, timerList, expiredList, inserted, absolute,
                       signaled, due, period, notBefore, waiting, lock>>
        /\ (KiExpireTimerDpc \in Dpc!Members(dpcListHead))' =
             (KiExpireTimerDpc \in Dpc!Members(dpcListHead))
    BY <1>11 DEF Timer!RunTimerDpc, Timer!vars, Timer!clocks, Timer!lists, Timer!timer
  <2>2. Timer!TypeOK'
    BY <2>1 DEF TimersKept, Timer!TypeOK
  <2>3. Linked' /\ InOrder' /\ NoneIsDue' /\ NoneIsSignaled'
    BY <2>1 DEF TimersKept, Linked, InOrder, NoneIsDue, NoneIsSignaled, Entering
  <2> QED
    BY <2>2, <2>3 DEF TimersKept
<1> QED
  BY <1>1, <1>2, <1>3, <1>4, <1>5, <1>6, <1>7, <1>8, <1>9, <1>10, <1>11 DEF Timer!Next

LEMMA TimerInit == Timer!Init => TimersKept
<1> SUFFICES ASSUME Timer!Init PROVE TimersKept
  OBVIOUS
<1>1. /\ timerList \in Seq(Timers) /\ NoDuplicates(timerList) /\ Members(timerList) = {}
      /\ expiredList \in Seq(Timers) /\ NoDuplicates(expiredList) /\ Members(expiredList) = {}
      /\ SortedBy(timerList, due) /\ expiredList = << >>
  BY DEF Timer!Init, NoDuplicates, Members, SortedBy
<1>2. Entering = {}
  BY Locks DEF Timer!Init, Entering
<1>3. Timer!TypeOK
  BY <1>1, TimerConstants DEF Timer!Init, Timer!TypeOK
<1>4. Linked /\ InOrder /\ NoneIsDue /\ NoneIsSignaled
  BY <1>1, <1>2 DEF Linked, InOrder, NoneIsDue, NoneIsSignaled, Timer!Init
<1> QED
  BY <1>3, <1>4 DEF TimersKept

\* Nothing else comes between KeTimer and what it says of itself: the DPCs it counts as
\* queued are in the queue of KeDpc and leave it where KeTimer says.
LEMMA StepsOfTimer ==
  ~RemovesAgain /\ Dpc!TypeOK /\ Dpc!QueueMatchesDepth /\ [Next]_vars
    => [Timer!Next]_(Timer!vars)
<1> SUFFICES ASSUME ~RemovesAgain, Dpc!TypeOK, Dpc!QueueMatchesDepth, [Next]_vars
             PROVE  [Timer!Next]_(Timer!vars)
  OBVIOUS
<1>1. ASSUME UNCHANGED timerVars,
             \A t \in {KiExpireTimerDpc} \union WithDpc :
               t \in Members(dpcListHead') <=> t \in Members(dpcListHead)
      PROVE  UNCHANGED Timer!vars
  <2>1. (KiExpireTimerDpc \in Dpc!Members(dpcListHead))' =
          (KiExpireTimerDpc \in Dpc!Members(dpcListHead))
    BY <1>1, SameLists
  <2>2. (Dpc!Members(dpcListHead) \intersect WithDpc)' = Dpc!Members(dpcListHead) \intersect WithDpc
    BY <1>1, SameLists
  <2>3. UNCHANGED <<interruptTime, systemTime, timerList, expiredList, inserted, absolute,
                    signaled, due, period, notBefore, waiting, lock>>
    BY <1>1 DEF timerVars
  <2> QED
    BY <2>1, <2>2, <2>3 DEF Timer!vars, Timer!clocks, Timer!lists, Timer!timer
<1>2. ASSUME UNCHANGED timerVars, dpcListHead' = dpcListHead PROVE UNCHANGED Timer!vars
  BY <1>1, <1>2
<1>3. /\ dpcListHead \in Seq(Dpcs) /\ NoDuplicates(dpcListHead)
      /\ Drivers \subseteq Dpcs /\ Drivers \intersect ({KiExpireTimerDpc} \union WithDpc) = {}
  BY SameLists, DpcConstants DEF Dpc!TypeOK, Dpc!QueueMatchesDepth, Dpcs
<1>4. CASE \E t \in Timers : KeCancelTimer(t) \/ KeWaitForTimer(t) \/ CallTimerDpc(t)
  BY <1>4 DEF KeCancelTimer, KeWaitForTimer, CallTimerDpc, Timer!Next
<1>5. CASE \E t \in Timers, p \in Periods, d \in Delays : KeSetTimerRelative(t, d, p)
  BY <1>5 DEF KeSetTimerRelative, Timer!Next
<1>6. CASE \E t \in Timers, p \in Periods, d \in DueTimes : KeSetTimerAbsolute(t, d, p)
  BY <1>6 DEF KeSetTimerAbsolute, Timer!Next
<1>7. CASE InsertTimer \/ EndExpire \/ ExpireNext
  BY <1>7 DEF InsertTimer, EndExpire, ExpireNext, Timer!Next
<1>8. CASE \E ends \in BOOLEAN : KeUpdateSystemTime(ends)
  BY <1>8 DEF KeUpdateSystemTime, Timer!Next
<1>9. CASE \E time \in SetTimes : KiSetSystemTime(time)
  BY <1>9 DEF KiSetSystemTime, Timer!Next
<1>10. CASE CallExpiry
  BY <1>10 DEF CallExpiry, Timer!Next
<1>11. CASE CallDriver
  <2>1. /\ dpcListHead # << >> /\ Head(dpcListHead) \in Drivers
        /\ dpcListHead' = Tail(dpcListHead) /\ UNCHANGED timerVars
    BY <1>11 DEF CallDriver, Dpc!CallDpc
  <2>2. Members(dpcListHead') = Members(dpcListHead) \ {Head(dpcListHead)}
    BY <1>3, <2>1, TailDrops
  <2> QED
    BY <1>1, <1>3, <2>1, <2>2
<1>12. CASE KfLowerIrql \/ ReturnFromDpc
  BY <1>2, <1>12 DEF KfLowerIrql, ReturnFromDpc, Dpc!KfLowerIrql, Dpc!ReturnFromDpc
<1>13. CASE DriverStep
  <2>1. CASE \E d \in Drivers : Dpc!KeInsertQueueDpc(d)
    <3>1. PICK d \in Drivers : Dpc!KeInsertQueueDpc(d)
      BY <2>1
    <3>2. /\ Dpc!Claims(d) /\ Dpc!EntersQueue(d, softwareInterrupt)
          /\ softwareInterrupt \in BOOLEAN /\ d \in Dpcs
      BY <1>3, <3>1 DEF Dpc!KeInsertQueueDpc, Dpc!TypeOK
    <3>3. Members(dpcListHead') = Members(dpcListHead) \union {d}
      BY <3>2, EntersOnce
    <3> QED
      BY <1>1, <1>3, <1>13, <3>1, <3>3 DEF DriverStep
  <2>2. CASE \E d \in Drivers : Dpc!KeRemoveQueueDpc(d)
    <3>1. PICK d \in Drivers : Dpc!KeRemoveQueueDpc(d)
      BY <2>2
    <3>2. dpcListHead' = Unlink(dpcListHead, d)
      BY <3>1, SameLists DEF Dpc!KeRemoveQueueDpc
    <3>3. Members(dpcListHead') = Members(dpcListHead) \ {d}
      BY <1>3, <3>2, UnlinkRemoves
    <3> QED
      BY <1>1, <1>3, <1>13, <3>1, <3>3 DEF DriverStep
  <2>3. CASE \/ \E d \in Dpcs, i \in Importances : Dpc!KeSetImportanceDpc(d, i)
             \/ Dpc!KeFlushQueuedDpcs
    BY <1>2, <1>13, <2>3 DEF DriverStep, Dpc!KeSetImportanceDpc, Dpc!KeFlushQueuedDpcs
  <2> QED
    BY <1>13, <2>1, <2>2, <2>3 DEF DriverStep
<1>14. CASE DispatchStep
  BY <1>2, <1>14 DEF DispatchStep, Dpc!KfRaiseIrql, Dpc!KiDispatchInterrupt, Dpc!EndDispatch
<1>15. CASE UNCHANGED vars
  BY <1>2, <1>15 DEF vars, dpcVars
<1> QED
  BY <1>4, <1>5, <1>6, <1>7, <1>8, <1>9, <1>10, <1>11, <1>12, <1>13, <1>14, <1>15 DEF Next

\* Where no DPC is removed twice, KeClock implements KeTimer, with the queue of KeDpc for the
\* flag of the expiry DPC and the set of queued timer DPCs.
THEOREM TimersImplemented == ~RemovesAgain => (Spec => Timer!Spec)
<1> SUFFICES ASSUME ~RemovesAgain PROVE Spec => Timer!Spec
  OBVIOUS
<1>0. Dpc!TypeOK /\ Dpc!QueueMatchesDepth /\ [Next]_vars => [Timer!Next]_(Timer!vars)
  BY StepsOfTimer
<1>1. Init => Timer!Init
  BY DEF Init
<1> QED
  BY <1>0, <1>1, DpcQueueKept, PTL DEF Spec, Timer!Spec

LEMMA TimersAreKept == ~RemovesAgain => (Spec => []TimersKept)
<1> SUFFICES ASSUME ~RemovesAgain PROVE Spec => []TimersKept
  OBVIOUS
<1>1. Timer!Spec => []TimersKept
  BY TimerInit, TimerStep, PTL DEF Timer!Spec
<1> QED
  BY <1>1, TimersImplemented

LEMMA TimersSound ==
  TimersKept => Timer!InsertedIsLinked /\ Timer!NobodyWaitsForSignaled /\ Timer!NothingOverdue
<1> SUFFICES ASSUME TimersKept
             PROVE  Timer!InsertedIsLinked /\ Timer!NobodyWaitsForSignaled /\ Timer!NothingOverdue
  OBVIOUS
<1>1. /\ timerList \o expiredList \in Seq(Timers) /\ NoDuplicates(timerList \o expiredList)
      /\ Members(timerList \o expiredList) = Members(timerList) \union Members(expiredList)
  BY ConcatJoins DEF TimersKept, Timer!TypeOK, Linked
<1>2. Timer!InsertedIsLinked
  BY <1>1, SameLists DEF TimersKept, Linked, Entering, Timer!InsertedIsLinked
<1>3. Timer!NobodyWaitsForSignaled
  BY DEF TimersKept, NoneIsSignaled, Timer!NobodyWaitsForSignaled
<1>4. Timer!NothingOverdue
  BY SameLists DEF TimersKept, NoneIsDue, Timer!NothingOverdue
<1> QED
  BY <1>2, <1>3, <1>4

\* With the clock, the expiry and drivers queuing DPCs into the loop that empties it, for any
\* number of timers and DPCs, as long as no driver removes a DPC that it has removed before
\* (the depth would be lowered again and the stale links be followed): the depth of the DPC queue is its length and no DPC is in it
\* twice; a timer counts as inserted exactly while it is linked, once, or about to be; nobody
\* waits for a timer that is signaled.
THEOREM QueuesSound == ~RemovesAgain => (Spec => []QueuesAreSound)
<1> SUFFICES ASSUME ~RemovesAgain PROVE Spec => []QueuesAreSound
  OBVIOUS
<1>1. TimersKept /\ Dpc!TypeOK /\ Dpc!QueueMatchesDepth => QueuesAreSound
  BY TimersSound DEF QueuesAreSound, TimersKept
<1> QED
  BY <1>1, TimersAreKept, DpcQueueKept, PTL
-------------------------------------------------------------------------------
(* Nothing expires early. *)

\* A system time that is set back is past every absolute due time: KiSetSystemTime does not
\* update the absolute timers, and one that is moved away from them finds them early.
SetBackHarmlessly == systemTime' < systemTime => \A d \in DueTimes : d <= systemTime'

\* A timer in the list is due no sooner than it was set for: the time left until it is due
\* is at least what the clock it was set on still has to go.
DueInTime(t) ==
  IF absolute[t]
    THEN systemTime >= notBefore[t] \/ notBefore[t] - systemTime <= due[t] - interruptTime
    ELSE notBefore[t] <= due[t]

\* Between the two readings of the time in KeSetTimerEx the delay can only become too long.
InTime ==
  /\ \A t \in Members(timerList) : DueInTime(t)
  /\ \A t \in Members(expiredList) :
       IF absolute[t] THEN systemTime >= notBefore[t] ELSE interruptTime >= notBefore[t]
  /\ lock.doing = "Insert" =>
       absolute[lock.timer] /\ notBefore[lock.timer] - systemTime <= lock.delay
  /\ \A t \in Timers : absolute[t] => notBefore[t] \in DueTimes

LEMMA InTimeStep ==
  ASSUME PeriodsFit, TimersKept, TimersKept', InTime, [Timer!Next]_(Timer!vars),
         [SetBackHarmlessly]_vars
  PROVE  InTime'
<1>0. /\ timerList \in Seq(Timers) /\ NoDuplicates(timerList) /\ SortedBy(timerList, due)
      /\ due \in [Timers -> Nat] /\ notBefore \in [Timers -> Nat]
      /\ absolute \in [Timers -> BOOLEAN]
      /\ interruptTime \in Nat /\ systemTime \in Nat /\ systemTime' \in Nat
      /\ \A u \in Members(timerList) : u \in Timers
      /\ \A u \in Members(expiredList) : u \in Timers
  <2>1. systemTime' \in Nat
    BY DEF TimersKept, Timer!TypeOK
  <2>2. timerList \in Seq(Timers) /\ expiredList \in Seq(Timers) /\ Timer!TypeOK
    BY DEF TimersKept, Timer!TypeOK
  <2>3. NoDuplicates(timerList) /\ SortedBy(timerList, due)
    BY DEF TimersKept, Linked, InOrder
  <2>4. /\ \A u \in Members(timerList) : u \in Timers
        /\ \A u \in Members(expiredList) : u \in Timers
    BY <2>2 DEF Members
  <2>5. /\ due \in [Timers -> Nat] /\ notBefore \in [Timers -> Nat]
        /\ absolute \in [Timers -> BOOLEAN] /\ interruptTime \in Nat /\ systemTime \in Nat
    BY <2>2, TimerConstants DEF Timer!TypeOK
  <2> QED
    BY <2>1, <2>2, <2>3, <2>4, <2>5
<1>1. ASSUME NEW t \in Timers, Timer!KeCancelTimer(t) PROVE InTime'
  <2>1. /\ lock' = lock /\ timerList' = Timer!Unlink(timerList, t)
        /\ UNCHANGED <<expiredList, due, interruptTime, systemTime, absolute, notBefore>>
    BY <1>1 DEF Timer!KeCancelTimer, Timer!clocks
  <2>2. Members(timerList') = Members(timerList) \ {t}
    BY <2>1, Unlinked
  <2> QED
    BY <2>1, <2>2 DEF InTime, DueInTime
<1>2. ASSUME NEW t \in Timers, NEW p \in Periods, NEW d \in Delays,
             Timer!KeSetTimerRelative(t, d, p)
      PROVE  InTime'
  <2> DEFINE list == Timer!Unlink(timerList, t)
  <2>1. /\ lock = Timer!Free /\ lock' = lock /\ Timer!Enter(t, list, d)
        /\ absolute' = [absolute EXCEPT ![t] = FALSE]
        /\ notBefore' = [notBefore EXCEPT ![t] = interruptTime + d]
        /\ UNCHANGED <<expiredList, interruptTime, systemTime>>
    BY <1>2 DEF Timer!KeSetTimerRelative, Timer!clocks
  <2>2. /\ list \in Seq(Timers) /\ NoDuplicates(list) /\ SortedBy(list, due)
        /\ Members(list) = Members(timerList) \ {t} /\ t \notin Members(list)
        /\ d \in Nat \ {0}
    BY Unlinked, TimerConstants
  <2> HIDE DEF list
  <2>3. /\ Members(timerList') = Members(list) \union {t}
        /\ due'[t] = interruptTime + d
        /\ \A u \in Timers : u # t => due'[u] = due[u]
    BY <1>0, <2>1, <2>2, EntersInOrder
  <2>4. /\ Members(expiredList') = {} /\ lock'.doing # "Insert"
    BY <2>1, WhenFree, Locks
  <2>5. \A u \in Timers : u # t => absolute'[u] = absolute[u] /\ notBefore'[u] = notBefore[u]
    BY <1>0, <2>1
  <2>6. ~absolute'[t] /\ notBefore'[t] = due'[t] /\ due'[t] \in Nat
    BY <1>0, <2>1, <2>2, <2>3
  <2>7. \A u \in Members(timerList') : DueInTime(u)'
    BY <1>0, <2>1, <2>2, <2>3, <2>5, <2>6 DEF InTime, DueInTime
  <2>8. \A u \in Timers : absolute'[u] => notBefore'[u] \in DueTimes
    BY <2>5, <2>6 DEF InTime
  <2> QED
    BY <2>4, <2>7, <2>8 DEF InTime
<1>3. ASSUME NEW t \in Timers, NEW p \in Periods, NEW d \in DueTimes,
             Timer!KeSetTimerAbsolute(t, d, p)
      PROVE  InTime'
  <2> DEFINE list == Timer!Unlink(timerList, t)
  <2>1. lock = Timer!Free /\ UNCHANGED <<expiredList, interruptTime, systemTime>>
    BY <1>3 DEF Timer!KeSetTimerAbsolute, Timer!clocks
  <2>2. /\ list \in Seq(Timers) /\ NoDuplicates(list) /\ SortedBy(list, due)
        /\ Members(list) = Members(timerList) \ {t} /\ t \notin Members(list) /\ d \in Nat
    BY Unlinked, TimerConstants
  <2>3. Members(expiredList') = {}
    BY <2>1, WhenFree
  <2>4. CASE systemTime >= d
    <3>1. /\ Timer!KiHandleExpiredTimer(t, list, p) /\ lock' = lock
          /\ absolute' = [absolute EXCEPT ![t] = FALSE]
      BY <1>3, <2>4 DEF Timer!KeSetTimerAbsolute
    <3> HIDE DEF list
    <3>2. Timer!Rearm(t, list, p)
      BY <3>1 DEF Timer!KiHandleExpiredTimer
    <3>3. /\ Members(timerList') \ {t} = Members(list)
          /\ \A u \in Timers : u # t => due'[u] = due[u]
          /\ \A u \in Timers : u # t => notBefore'[u] = notBefore[u]
          /\ t \notin Members(timerList') \/ notBefore'[t] <= due'[t]
      BY <2>2, <3>2, Rearmed DEF TimersKept
    <3>4. ~absolute'[t] /\ \A u \in Timers : u # t => absolute'[u] = absolute[u]
      BY <1>0, <3>1
    <3>5. \A u \in Members(timerList') : DueInTime(u)'
      BY <1>0, <2>1, <2>2, <3>3, <3>4 DEF InTime, DueInTime
    <3>6. \A u \in Timers : absolute'[u] => notBefore'[u] \in DueTimes
      BY <3>3, <3>4 DEF InTime
    <3>7. lock'.doing # "Insert"
      BY <2>1, <3>1, Locks
    <3> QED
      BY <2>3, <3>5, <3>6, <3>7 DEF InTime
  <2>5. CASE ~(systemTime >= d)
    <3>1. /\ absolute' = [absolute EXCEPT ![t] = TRUE]
          /\ notBefore' = [notBefore EXCEPT ![t] = d]
          /\ timerList' = list /\ due' = due
          /\ lock' = Timer!Inserting(t, d - systemTime)
      BY <1>3, <2>5 DEF Timer!KeSetTimerAbsolute
    <3> HIDE DEF list
    <3>2. lock'.timer = t /\ lock'.delay = d - systemTime
      BY <3>1, Locks
    <3>3. /\ absolute'[t] /\ notBefore'[t] = d
          /\ \A u \in Timers : u # t => absolute'[u] = absolute[u] /\ notBefore'[u] = notBefore[u]
      BY <1>0, <3>1
    <3>4. \A u \in Members(timerList') : DueInTime(u)'
      BY <1>0, <2>1, <2>2, <3>1, <3>3 DEF InTime, DueInTime
    <3>5. \A u \in Timers : absolute'[u] => notBefore'[u] \in DueTimes
      BY <3>3 DEF InTime
    <3>6. absolute'[lock'.timer] /\ notBefore'[lock'.timer] - systemTime' <= lock'.delay
      BY <1>0, <2>1, <2>2, <3>2, <3>3
    <3> QED
      BY <2>3, <3>4, <3>5, <3>6 DEF InTime
  <2> QED
    BY <2>4, <2>5
<1>4. ASSUME Timer!InsertTimer PROVE InTime'
  <2>1. PICK t, delay : t = lock.timer /\ delay = lock.delay
    OBVIOUS
  <2>2. /\ lock.doing = "Insert" /\ Timer!Enter(t, timerList, delay)
        /\ lock' = Timer!Free
        /\ UNCHANGED <<interruptTime, systemTime, expiredList, absolute, notBefore>>
    BY <1>4, <2>1 DEF Timer!InsertTimer, Timer!clocks
  <2>3. t \in Timers /\ delay \in Nat \ {0} /\ t \notin Members(timerList)
    BY <2>1, <2>2, Locks DEF TimersKept, Timer!TypeOK, Linked, Entering
  <2>4. /\ Members(timerList') = Members(timerList) \union {t}
        /\ due'[t] = interruptTime + delay
        /\ \A u \in Timers : u # t => due'[u] = due[u]
    BY <1>0, <2>2, <2>3, EntersInOrder
  <2>5. absolute[t] /\ notBefore[t] - systemTime <= delay
    BY <2>1, <2>2 DEF InTime
  <2>6. due'[t] - interruptTime = delay
    BY <1>0, <2>3, <2>4
  <2>7. DueInTime(t)'
    BY <2>2, <2>5, <2>6 DEF DueInTime
  <2>8. \A u \in Members(timerList) : DueInTime(u)'
    BY <1>0, <2>2, <2>3, <2>4 DEF InTime, DueInTime
  <2>9. lock'.doing # "Insert"
    BY <2>2, Locks
  <2> QED
    BY <2>2, <2>4, <2>7, <2>8, <2>9 DEF InTime
<1>5. ASSUME Timer!KiExpireTimers PROVE InTime'
  <2> DEFINE n == Cardinality({i \in DOMAIN timerList :
                                \A j \in 1 .. i : Timer!DueNow(timerList[j])})
  <2>1. /\ lock' = Timer!Expiring
        /\ expiredList' = SubSeq(timerList, 1, n)
        /\ timerList' = SubSeq(timerList, n + 1, Len(timerList))
        /\ UNCHANGED <<interruptTime, systemTime, absolute, due, notBefore>>
    BY <1>5, SameSizes DEF Timer!KiExpireTimers, Timer!timer
  <2>2. n \in 0 .. Len(timerList) /\ \A i \in 1 .. n : interruptTime >= due[timerList[i]]
    BY <1>0, ExpiresTheDue
  <2> HIDE DEF n
  <2>3. /\ expiredList' \in Seq(Timers) /\ Len(expiredList') = n
        /\ \A i \in 1 .. n : expiredList'[i] = timerList[i]
        /\ Members(timerList) = Members(expiredList') \union Members(timerList')
    BY <1>0, <2>1, <2>2, SplitDivides
  <2>4. ASSUME NEW u \in Members(expiredList')
        PROVE  IF absolute[u] THEN systemTime >= notBefore[u] ELSE interruptTime >= notBefore[u]
    <3>1. PICK i \in 1 .. n : u = timerList[i]
      BY <2>3, LenProperties DEF Members
    <3>2. interruptTime >= due[u] /\ u \in Members(timerList) /\ u \in Timers
      BY <1>0, <2>2, <2>3, <3>1
    <3>3. DueInTime(u)
      BY <3>2 DEF InTime
    <3>4. due[u] \in Nat /\ notBefore[u] \in Nat
      BY <1>0, <3>2
    <3> QED
      BY <1>0, <3>2, <3>3, <3>4 DEF DueInTime
  <2>5. \A u \in Members(timerList') : DueInTime(u)'
    BY <2>1, <2>3 DEF InTime, DueInTime
  <2>6. lock'.doing # "Insert"
    BY <2>1, Locks
  <2> QED
    BY <2>1, <2>4, <2>5, <2>6 DEF InTime
<1>6. ASSUME Timer!ExpireNext PROVE InTime'
  <2> DEFINE t == Head(expiredList)
  <2>1. /\ lock = Timer!Expiring /\ expiredList # << >> /\ expiredList' = Tail(expiredList)
        /\ absolute' = [absolute EXCEPT ![t] = @ /\ period[t] = 0]
        /\ Timer!KiHandleExpiredTimer(t, timerList, period[t])
        /\ UNCHANGED <<interruptTime, systemTime, lock>>
    BY <1>6 DEF Timer!ExpireNext, Timer!clocks
  <2>2. expiredList \in Seq(Timers) /\ NoDuplicates(expiredList)
    BY DEF TimersKept, Timer!TypeOK, Linked
  <2>3. t \in Timers /\ t \in Members(expiredList)
    BY <2>1, <2>2, HeadIsMember
  <2>4. Members(expiredList') = Members(expiredList) \ {t}
    BY <2>1, <2>2, TailDrops
  <2> HIDE DEF t
  <2>5. t \notin Members(timerList) /\ period[t] \in Periods \union {0}
    BY <2>3 DEF TimersKept, Linked, Timer!TypeOK
  <2>6. Timer!Rearm(t, timerList, period[t])
    BY <2>1 DEF Timer!KiHandleExpiredTimer
  <2>7. /\ Members(timerList') \ {t} = Members(timerList)
        /\ \A u \in Timers : u # t => due'[u] = due[u]
        /\ \A u \in Timers : u # t => notBefore'[u] = notBefore[u]
        /\ period[t] = 0 => UNCHANGED notBefore /\ t \notin Members(timerList')
        /\ t \notin Members(timerList') \/ notBefore'[t] <= due'[t]
    BY <1>0, <2>3, <2>5, <2>6, Rearmed DEF TimersKept
  <2>8. /\ absolute'[t] => absolute[t] /\ period[t] = 0
        /\ \A u \in Timers : u # t => absolute'[u] = absolute[u]
    BY <1>0, <2>1, <2>3
  <2>9. \A u \in Members(timerList') : DueInTime(u)'
    BY <1>0, <2>1, <2>7, <2>8 DEF InTime, DueInTime
  <2>10. \A u \in Members(expiredList') :
           IF absolute'[u] THEN systemTime' >= notBefore'[u] ELSE interruptTime' >= notBefore'[u]
    BY <1>0, <2>1, <2>4, <2>7, <2>8 DEF InTime
  <2>11. \A u \in Timers : absolute'[u] => notBefore'[u] \in DueTimes
    BY <2>7, <2>8 DEF InTime
  <2>12. lock'.doing # "Insert"
    BY <2>1, Locks
  <2> QED
    BY <2>9, <2>10, <2>11, <2>12 DEF InTime
<1>7. ASSUME Timer!EndExpire PROVE InTime'
  <2>1. /\ lock' = Timer!Free
        /\ UNCHANGED <<interruptTime, systemTime, timerList, expiredList, absolute, due, notBefore>>
    BY <1>7 DEF Timer!EndExpire, Timer!clocks, Timer!lists, Timer!timer
  <2> QED
    BY <2>1, Locks DEF InTime, DueInTime
<1>8. ASSUME Timer!KeUpdateSystemTime PROVE InTime'
  <2>1. UNCHANGED <<timerList, expiredList, absolute, due, notBefore, lock>>
    BY <1>8 DEF Timer!KeUpdateSystemTime, Timer!lists, Timer!timer
  <2>2. \/ interruptTime' = interruptTime + 1 /\ systemTime' = systemTime + 1
        \/ UNCHANGED <<interruptTime, systemTime>>
    BY <1>8 DEF Timer!KeUpdateSystemTime
  <2>3. ASSUME NEW u \in Timers, DueInTime(u) PROVE DueInTime(u)'
    <3>1. due[u] \in Nat /\ notBefore[u] \in Nat
      BY <1>0
    <3> QED
      BY <1>0, <2>1, <2>2, <2>3, <3>1 DEF DueInTime
  <2>4. \A u \in Members(expiredList') :
          IF absolute'[u] THEN systemTime' >= notBefore'[u] ELSE interruptTime' >= notBefore'[u]
    BY <1>0, <2>1, <2>2 DEF InTime
  <2>5. ASSUME lock.doing = "Insert"
        PROVE  notBefore[lock.timer] - systemTime' <= lock.delay
    <3>1. lock.timer \in Timers /\ lock.delay \in Nat
      BY <2>5, Locks DEF TimersKept, Timer!TypeOK
    <3>2. notBefore[lock.timer] \in Nat /\ notBefore[lock.timer] - systemTime <= lock.delay
      BY <1>0, <2>5, <3>1 DEF InTime
    <3> QED
      BY <1>0, <2>2, <3>1, <3>2
  <2> QED
    BY <1>0, <2>1, <2>3, <2>4, <2>5 DEF InTime
<1>9. ASSUME NEW time \in SetTimes, Timer!KiSetSystemTime(time) PROVE InTime'
  <2>1. /\ lock = Timer!Free
        /\ UNCHANGED <<interruptTime, timerList, expiredList, absolute, due, notBefore, lock>>
    BY <1>9 DEF Timer!KiSetSystemTime, Timer!lists, Timer!timer
  <2>2. systemTime' >= systemTime \/ \A d \in DueTimes : d <= systemTime'
    BY <1>0 DEF SetBackHarmlessly, vars, timerVars
  <2>3. ASSUME NEW u \in Timers, DueInTime(u) PROVE DueInTime(u)'
    <3>1. due[u] \in Nat /\ notBefore[u] \in Nat
      BY <1>0
    <3>2. CASE systemTime' >= systemTime
      BY <1>0, <2>1, <2>3, <3>1, <3>2 DEF DueInTime
    <3>3. CASE \A d \in DueTimes : d <= systemTime'
      <4>1. absolute[u] => notBefore[u] <= systemTime'
        BY <3>3 DEF InTime
      <4> QED
        BY <1>0, <2>1, <2>3, <3>1, <4>1 DEF DueInTime
    <3> QED
      BY <2>2, <3>2, <3>3
  <2>4. Members(expiredList') = {} /\ lock'.doing # "Insert"
    BY <2>1, WhenFree, Locks
  <2> QED
    BY <1>0, <2>1, <2>3, <2>4 DEF InTime
<1>10. ASSUME \/ \E t \in Timers : Timer!RunTimerDpc(t) \/ Timer!KeWaitForTimer(t)
              \/ UNCHANGED Timer!vars
       PROVE  InTime'
  <2>1. UNCHANGED <<interruptTime, systemTime, timerList, expiredList, absolute, due, notBefore,
                    lock>>
    BY <1>10 DEF Timer!RunTimerDpc, Timer!KeWaitForTimer, Timer!vars, Timer!clocks, Timer!lists,
                 Timer!timer
  <2> QED
    BY <2>1 DEF InTime, DueInTime
<1> QED
  BY <1>1, <1>2, <1>3, <1>4, <1>5, <1>6, <1>7, <1>8, <1>9, <1>10 DEF Timer!Next

LEMMA InTimeInit == Timer!Init => InTime
<1> SUFFICES ASSUME Timer!Init PROVE InTime
  OBVIOUS
<1>1. Members(timerList) = {} /\ Members(expiredList) = {} /\ lock.doing # "Insert"
  BY EmptyHasNone, Locks DEF Timer!Init
<1> QED
  BY <1>1 DEF InTime, Timer!Init

\* Where no DPC is removed twice, no period wraps and the system time is not set back over the due time of an
\* absolute timer: no timer expires before the time it was set for, on the clock it was set
\* on, whatever the clock does between the two readings of the time and during the expiry;
\* and outside the expiry a timer whose time has come has the expiry DPC in the queue.
THEOREM ExpiryInTime ==
  ~RemovesAgain /\ PeriodsFit => (Spec /\ [][SetBackHarmlessly]_vars => []ExpiryIsInTime)
<1> SUFFICES ASSUME ~RemovesAgain, PeriodsFit
             PROVE  Spec /\ [][SetBackHarmlessly]_vars => []ExpiryIsInTime
  OBVIOUS
<1>1. TimersKept /\ TimersKept' /\ InTime /\ [Timer!Next]_(Timer!vars) /\ [SetBackHarmlessly]_vars
        => InTime'
  BY InTimeStep
<1>2. TimersKept /\ InTime => ExpiryIsInTime
  BY TimersSound, SameLists DEF InTime, ExpiryIsInTime, Timer!NeverEarly
<1> QED
  BY <1>1, <1>2, InTimeInit, TimersAreKept, TimersImplemented, PTL DEF Timer!Spec

\* Whatever the periods and however the system time is set, no timer is left behind (where
\* no DPC is removed twice).
THEOREM NoneLeftBehind == ~RemovesAgain => (Spec => []Timer!NothingOverdue)
<1> SUFFICES ASSUME ~RemovesAgain PROVE Spec => []Timer!NothingOverdue
  OBVIOUS
<1> QED
  BY TimersSound, TimersAreKept, PTL
===============================================================================
