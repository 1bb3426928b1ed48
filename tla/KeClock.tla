--------------------------------- MODULE KeClock ---------------------------------
(***************************************************************************)
(* The clock, the timers and the deferred procedure calls together: KeTimer   *)
(* over the queue of KeDpc in place of its flag for the expiry DPC and its    *)
(* set of queued timer DPCs.                                                  *)
(*                                                                         *)
(* One processor.  The clock interrupt comes at any time, queues             *)
(* KiExpireTimerDpc and counts the quantum; threads and DPC routines call     *)
(* the timers' functions at DISPATCH_LEVEL, where the dispatcher lock is      *)
(* held; the dispatch loop runs the queued routines in order, the expiry of   *)
(* the timers among them, which queues the DPCs of the timers.                *)
(***************************************************************************)
EXTENDS Integers, Sequences, FiniteSets

CONSTANTS
  Timers, Synchronization, WithDpc, Delays, DueTimes, Periods, PerMsec, Half,
  BootTime, SetTimes, MaxTime,                              \* see KeTimer
  Importances, MaximumDpcQueueDepth, MinimumDpcRate, DpcRequestRate, MayRemove,
  RemovesAgain, Word,                                       \* see KeDpc
  KiExpireTimerDpc,   \* the DPC that runs KiExpireTimers
  Drivers             \* DPCs that have nothing to do with timers

VARIABLES
  interruptTime, systemTime, timerList, expiredList, inserted, absolute, signaled,
  due, period, waiting, lock, notBefore,                    \* see KeTimer
  dpcListHead, dpcQueueDepth, dpcData, importance, dpcRoutineActive,
  dpcInterruptRequested, quantumEnd, softwareInterrupt, processor  \* see KeDpc

\* The DPC of a timer is named like the timer.
Dpcs == {KiExpireTimerDpc} \union WithDpc \union Drivers

Dpc == INSTANCE KeDpc WITH ClockDpcs <- {KiExpireTimerDpc}

Timer == INSTANCE KeTimer WITH
  expireDpcQueued <- KiExpireTimerDpc \in Dpc!Members(dpcListHead),
  dpcQueued <- Dpc!Members(dpcListHead) \intersect WithDpc

ASSUME ClockAssumption ==
  /\ Timer!TimerAssumption /\ Dpc!DpcAssumption
  /\ KiExpireTimerDpc \notin Timers \union Drivers /\ Timers \intersect Drivers = {}
  /\ MayRemove \subseteq Drivers

timerVars == <<interruptTime, systemTime, timerList, expiredList, inserted, absolute,
               signaled, due, period, waiting, lock, notBefore>>
dpcVars == <<dpcListHead, dpcQueueDepth, dpcData, importance, dpcRoutineActive,
             dpcInterruptRequested, quantumEnd, softwareInterrupt, processor>>
vars == <<timerVars, dpcVars>>
-------------------------------------------------------------------------------
\* Code that may take the dispatcher lock: a thread that has raised its IRQL, or
\* a routine of the dispatch loop.
MayLock == processor \in {"Dispatch", "Routine"}

\* KeInsertQueueDpc of the DPC of timer t, when the timer has one; one that is
\* queued already stays where it is.
QueueDpcOf(t) ==
  IF t \in WithDpc /\ Dpc!Claims(t) THEN Dpc!KeInsertQueueDpc(t) ELSE UNCHANGED dpcVars

\* The timers' functions that queue no DPC.
KeCancelTimer(t) == MayLock /\ UNCHANGED dpcVars /\ Timer!KeCancelTimer(t)
KeWaitForTimer(t) ==
  processor = "Dispatch" /\ UNCHANGED dpcVars /\ Timer!KeWaitForTimer(t)
KeSetTimerRelative(t, delay, p) ==
  MayLock /\ UNCHANGED dpcVars /\ Timer!KeSetTimerRelative(t, delay, p)
InsertTimer == UNCHANGED dpcVars /\ Timer!InsertTimer
KiSetSystemTime(time) == MayLock /\ UNCHANGED dpcVars /\ Timer!KiSetSystemTime(time)

\* An absolute due time that is past expires the timer at once.
KeSetTimerAbsolute(t, dueTime, p) ==
  /\ MayLock
  /\ IF systemTime >= dueTime THEN QueueDpcOf(t) ELSE UNCHANGED dpcVars
  /\ Timer!KeSetTimerAbsolute(t, dueTime, p)

\* The clock interrupt.
KeUpdateSystemTime(ends) ==
  Dpc!ClockInterrupt(ends, KiExpireTimerDpc) /\ Timer!KeUpdateSystemTime

\* The dispatch loop calls the oldest DPC: the expiry of the timers begins, the
\* DPC of a timer runs, or a driver's.
CallExpiry ==
  /\ dpcListHead # << >> /\ Head(dpcListHead) = KiExpireTimerDpc
  /\ Dpc!CallDpc /\ Timer!KiExpireTimers
CallTimerDpc(t) ==
  /\ dpcListHead # << >> /\ Head(dpcListHead) = t
  /\ Dpc!CallDpc /\ Timer!RunTimerDpc(t)
CallDriver ==
  /\ dpcListHead # << >> /\ Head(dpcListHead) \in Drivers
  /\ Dpc!CallDpc /\ UNCHANGED timerVars

\* The expiry handles its timers and ends.
ExpireNext ==
  /\ expiredList # << >>
  /\ QueueDpcOf(Head(expiredList))
  /\ Timer!ExpireNext
EndExpire == UNCHANGED dpcVars /\ Timer!EndExpire

\* The IRQL drops, a routine returns, when the lock has been released.
KfLowerIrql   == lock = Timer!Free /\ Dpc!KfLowerIrql /\ UNCHANGED timerVars
ReturnFromDpc == lock = Timer!Free /\ Dpc!ReturnFromDpc /\ UNCHANGED timerVars

\* The steps of the DPC queue that have nothing to do with timers.
DriverStep ==
  /\ \/ \E d \in Drivers : \/ Dpc!KeInsertQueueDpc(d) \/ Dpc!KeRemoveQueueDpc(d)
     \/ \E d \in Dpcs, i \in Importances : Dpc!KeSetImportanceDpc(d, i)
     \/ Dpc!KeFlushQueuedDpcs
  /\ UNCHANGED timerVars
DispatchStep ==
  /\ Dpc!KfRaiseIrql \/ Dpc!KiDispatchInterrupt \/ Dpc!EndDispatch
  /\ UNCHANGED timerVars
-------------------------------------------------------------------------------
Init == Dpc!Init /\ Timer!Init

Next ==
  \/ \E t \in Timers :
       \/ KeCancelTimer(t) \/ KeWaitForTimer(t) \/ CallTimerDpc(t)
       \/ \E p \in Periods : \/ \E d \in Delays : KeSetTimerRelative(t, d, p)
                             \/ \E d \in DueTimes : KeSetTimerAbsolute(t, d, p)
  \/ InsertTimer \/ ExpireNext \/ EndExpire
  \/ \E ends \in BOOLEAN : KeUpdateSystemTime(ends)
  \/ \E time \in SetTimes : KiSetSystemTime(time)
  \/ CallExpiry \/ CallDriver
  \/ KfLowerIrql \/ ReturnFromDpc \/ DriverStep \/ DispatchStep

Spec == Init /\ [][Next]_vars

\* The clock interrupt comes and quanta end; the HAL delivers its request, strongly
\* since it is taken back by the interrupt itself; whoever runs at DISPATCH_LEVEL
\* or in the dispatch loop goes on.
FairSpec ==
  /\ Spec
  /\ WF_vars(KeUpdateSystemTime(TRUE))
  /\ SF_vars(Dpc!KiDispatchInterrupt /\ UNCHANGED timerVars)
  /\ WF_vars(InsertTimer \/ ExpireNext \/ EndExpire)
  /\ SF_vars(KfLowerIrql) /\ SF_vars(ReturnFromDpc)
  /\ WF_vars(CallExpiry \/ CallDriver \/ (\E t \in Timers : CallTimerDpc(t))
             \/ (Dpc!EndDispatch /\ UNCHANGED timerVars))
-------------------------------------------------------------------------------
\* With the clock, the expiry and drivers queuing into the loop that empties it: the depth
\* of the DPC queue is its length and no DPC is in it twice; Inserted says that the timer is
\* linked, once, or about to be, and nobody waits for a timer that is signaled.
QueuesAreSound ==
  /\ Dpc!TypeOK /\ Dpc!QueueMatchesDepth
  /\ Timer!TypeOK /\ Timer!InsertedIsLinked /\ Timer!NobodyWaitsForSignaled

\* No timer expires before the time it was set for, on the clock it was set on, and outside
\* the expiry a timer whose time has come has the expiry DPC in the queue.
ExpiryIsInTime == Timer!NeverEarly /\ Timer!NothingOverdue

\* Every queued DPC is run or removed, and a timer that is due expires unless it is
\* cancelled or set again.
QueuedAndDueAreServed == Dpc!QueuedDpcRuns /\ Timer!TimerExpires
===============================================================================
