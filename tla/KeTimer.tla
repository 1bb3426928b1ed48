-------------------------------- MODULE KeTimer --------------------------------
(***************************************************************************)
(* Kernel timers (ntoskrnl/ke/timer.c) and the clock that drives them         *)
(* (clock.c): the list of timers sorted by due time, the DPC that every       *)
(* clock interrupt queues to expire them, periodic and absolute timers.       *)
(*                                                                         *)
(* All of this runs under the dispatcher lock, which keeps other callers out  *)
(* and does not keep out the clock interrupt: the time is read at several     *)
(* places and may have moved on between them.  A unit of time is a tick.      *)
(***************************************************************************)
EXTENDS Integers, Sequences, FiniteSets, Lists

CONSTANTS
  Timers,
  Synchronization,  \* the timers of type SynchronizationTimer
  WithDpc,          \* the timers set with a DPC
  Delays,           \* the relative due times asked for
  DueTimes,         \* the absolute due times asked for
  Periods,          \* the periods asked for, in milliseconds
  PerMsec,          \* SYSTEM_TIME_UNITS_PER_MSEC
  Half,             \* a LONG is in -Half .. Half - 1
  BootTime,         \* the system time at the start
  SetTimes,         \* the times KiSetSystemTime is called with
  MaxTime           \* bound: the interrupt time at which the clocks stop

\* What the constants must satisfy; assumed by the modules that fix them.
TimerAssumption ==
  /\ Synchronization \subseteq Timers /\ WithDpc \subseteq Timers
  /\ Delays \subseteq Nat \ {0} /\ DueTimes \subseteq Nat /\ Periods \subseteq Nat
  /\ PerMsec \in Nat \ {0} /\ Half \in Nat \ {0} /\ BootTime \in Nat
  /\ SetTimes \subseteq Nat /\ MaxTime \in Nat
  /\ BootTime >= Half  \* the year 1601 is more than 2^31 units ago

VARIABLES
  interruptTime, systemTime,  \* SharedUserData->InterruptTime and SystemTime
  expireDpcQueued,  \* KiExpireTimerDpc is queued
  timerList,        \* KiTimerListHead
  expiredList,      \* ExpiredTimerList of the running KiExpireTimers
  inserted,         \* Header.Inserted
  absolute,         \* Header.Absolute
  signaled,         \* Header.SignalState
  due,              \* DueTime
  period,           \* Period
  waiting,          \* the timers a thread waits for
  dpcQueued,        \* the timers whose DPC is queued
  lock,             \* the dispatcher lock: Free, or what its holder does
  notBefore         \* history: when the caller wants the timer to expire

clocks == <<interruptTime, systemTime, expireDpcQueued>>
lists  == <<timerList, expiredList>>
timer  == <<inserted, absolute, signaled, due, period, notBefore>>
vars == <<clocks, lists, timer, waiting, dpcQueued, lock>>

Free == [doing |-> "Nothing"]
Expiring == [doing |-> "Expire"]
Inserting(t, delay) == [doing |-> "Insert", timer |-> t, delay |-> delay]

-------------------------------------------------------------------------------
\* Mutated: behind every entry.
InsertLast(list, t, d) == Append(list, t)

\* InsertAscendingList: before the first entry that is not due earlier.
InsertAscending(list, t, d) ==
  LET at == Cardinality({i \in DOMAIN list : \A j \in 1 .. i : due[list[j]] < d})
  IN  InsertAfter(list, at, t)

\* The product Period * -SYSTEM_TIME_UNITS_PER_MSEC as the LONG it is computed in.
PeriodAsDueTime(p) == ((Half - p * PerMsec) % (2 * Half)) - Half

\* KiInsertTimer, with DueTime already relative, from the reading of the
\* interrupt time on: the timer goes into list.
Enter(t, list, delay) ==
  /\ due' = [due EXCEPT ![t] = interruptTime + delay]
  /\ timerList' = InsertAscending(list, t, interruptTime + delay)
  /\ inserted' = [inserted EXCEPT ![t] = TRUE]

\* KiWaitTest on a timer just signaled: what its SignalState becomes.
StaysSignaled(t) == t \notin waiting \/ t \notin Synchronization

\* The end of KiHandleExpiredTimer: a period enters the timer into list again.
\* A product that has wrapped to a positive number is an absolute time long gone.
Rearm(t, list, p) ==
  LET dueTime == PeriodAsDueTime(p) IN
  \/ /\ p = 0
     /\ signaled' = [signaled EXCEPT ![t] = StaysSignaled(t)]
     /\ inserted' = [inserted EXCEPT ![t] = FALSE]
     /\ timerList' = list
     /\ UNCHANGED <<due, notBefore>>
  \/ /\ p # 0 /\ dueTime < 0
     /\ signaled' = [signaled EXCEPT ![t] = StaysSignaled(t)]
     /\ notBefore' = [notBefore EXCEPT ![t] = interruptTime + p * PerMsec]
     /\ Enter(t, list, -dueTime)
  \/ /\ p # 0 /\ dueTime >= 0
     /\ signaled' = [signaled EXCEPT ![t] = TRUE]
     /\ inserted' = [inserted EXCEPT ![t] = FALSE]
     /\ timerList' = list
     /\ UNCHANGED <<due, notBefore>>

\* KiHandleExpiredTimer of a timer with period p that is on no list.
KiHandleExpiredTimer(t, list, p) ==
  /\ Rearm(t, list, p)
  /\ waiting' = waiting \ {t}
  /\ dpcQueued' = dpcQueued \union ({t} \cap WithDpc)
-------------------------------------------------------------------------------
KeCancelTimer(t) ==
  /\ lock = Free
  /\ timerList' = Unlink(timerList, t)
  /\ inserted' = [inserted EXCEPT ![t] = FALSE]
  /\ UNCHANGED <<clocks, expiredList, absolute, signaled, due, period, notBefore,
                 waiting, dpcQueued, lock>>

\* KeSetTimerEx with a relative due time.
KeSetTimerRelative(t, delay, p) ==
  /\ lock = Free
  /\ period' = [period EXCEPT ![t] = p]
  /\ signaled' = [signaled EXCEPT ![t] = FALSE]
  /\ absolute' = [absolute EXCEPT ![t] = FALSE]
  /\ notBefore' = [notBefore EXCEPT ![t] = interruptTime + delay]
  /\ Enter(t, Unlink(timerList, t), delay)
  /\ UNCHANGED <<clocks, expiredList, waiting, dpcQueued, lock>>

\* KeSetTimerEx with an absolute one: when it is past, the timer expires at once;
\* else the interrupt time is read next, in InsertTimer.
KeSetTimerAbsolute(t, dueTime, p) ==
  /\ lock = Free
  /\ period' = [period EXCEPT ![t] = p]
  /\ IF systemTime >= dueTime
       THEN /\ absolute' = [absolute EXCEPT ![t] = FALSE]
            /\ KiHandleExpiredTimer(t, Unlink(timerList, t), p)
            /\ UNCHANGED lock
       ELSE /\ signaled' = [signaled EXCEPT ![t] = FALSE]
            /\ inserted' = [inserted EXCEPT ![t] = TRUE]
            /\ absolute' = [absolute EXCEPT ![t] = TRUE]
            /\ notBefore' = [notBefore EXCEPT ![t] = dueTime]
            /\ timerList' = Unlink(timerList, t)
            /\ lock' = Inserting(t, dueTime - systemTime)
            /\ UNCHANGED <<due, waiting, dpcQueued>>
  /\ UNCHANGED <<clocks, expiredList>>

InsertTimer ==
  /\ lock.doing = "Insert"
  /\ Enter(lock.timer, timerList, lock.delay)
  /\ lock' = Free
  /\ UNCHANGED <<clocks, expiredList, absolute, signaled, period, notBefore, waiting,
                 dpcQueued>>
-------------------------------------------------------------------------------
\* Mutated: a timer due at this tick is left for the next.
PastDue(t) == interruptTime > due[t]

DueNow(t) == interruptTime >= due[t]

\* KiExpireTimers: the timers at the front of the list that are due are moved to
\* its own list.  Inserted stays TRUE.
KiExpireTimers ==
  /\ lock = Free /\ expireDpcQueued
  /\ expireDpcQueued' = FALSE
  /\ LET n == Cardinality({i \in DOMAIN timerList :
                             \A j \in 1 .. i : DueNow(timerList[j])})
     IN  /\ expiredList' = SubSeq(timerList, 1, n)
         /\ timerList' = SubSeq(timerList, n + 1, Len(timerList))
  /\ lock' = Expiring
  /\ UNCHANGED <<interruptTime, systemTime, timer, waiting, dpcQueued>>

\* The second loop of KiExpireTimers, with the clock ticking on.  KiInsertTimer makes
\* a periodic timer a relative one.
ExpireNext ==
  /\ lock = Expiring /\ expiredList # << >>
  /\ expiredList' = Tail(expiredList)
  /\ LET t == Head(expiredList)
     IN  /\ absolute' = [absolute EXCEPT ![t] = @ /\ period[t] = 0]
         /\ KiHandleExpiredTimer(t, timerList, period[t])
  /\ UNCHANGED <<clocks, period, lock>>

\* The list is empty, the lock is released.
EndExpire ==
  /\ lock = Expiring /\ expiredList = << >>
  /\ lock' = Free
  /\ UNCHANGED <<clocks, lists, timer, waiting, dpcQueued>>
-------------------------------------------------------------------------------
\* The clock interrupt; at MaxTime it still comes and the times stand.
KeUpdateSystemTime ==
  /\ IF interruptTime < MaxTime
       THEN interruptTime' = interruptTime + 1 /\ systemTime' = systemTime + 1
       ELSE UNCHANGED <<interruptTime, systemTime>>
  /\ expireDpcQueued' = TRUE
  /\ UNCHANGED <<lists, timer, waiting, dpcQueued, lock>>

\* Absolute timers are not updated.
KiSetSystemTime(time) ==
  /\ lock = Free
  /\ systemTime' = time
  /\ UNCHANGED <<interruptTime, expireDpcQueued, lists, timer, waiting, dpcQueued, lock>>

\* A thread waits for a timer: it goes on at once when the timer is signaled, which
\* resets a synchronization timer.
KeWaitForTimer(t) ==
  /\ lock = Free /\ t \notin waiting
  /\ IF signaled[t]
       THEN /\ signaled' = [signaled EXCEPT ![t] = t \notin Synchronization]
            /\ UNCHANGED waiting
       ELSE waiting' = waiting \union {t} /\ UNCHANGED signaled
  /\ UNCHANGED <<clocks, lists, inserted, absolute, due, period, notBefore, dpcQueued, lock>>

\* The DPC of a timer runs.
RunTimerDpc(t) ==
  /\ lock = Free /\ t \in dpcQueued
  /\ dpcQueued' = dpcQueued \ {t}
  /\ UNCHANGED <<clocks, lists, timer, waiting, lock>>
-------------------------------------------------------------------------------
Init ==
  /\ interruptTime = 0 /\ systemTime = BootTime /\ expireDpcQueued = FALSE
  /\ timerList = << >> /\ expiredList = << >>
  /\ inserted = [t \in Timers |-> FALSE] /\ absolute = [t \in Timers |-> FALSE]
  /\ signaled = [t \in Timers |-> FALSE]
  /\ due = [t \in Timers |-> 0] /\ period = [t \in Timers |-> 0]
  /\ waiting = {} /\ dpcQueued = {} /\ lock = Free
  /\ notBefore = [t \in Timers |-> 0]

Next ==
  \/ \E t \in Timers :
       \/ KeCancelTimer(t) \/ KeWaitForTimer(t) \/ RunTimerDpc(t)
       \/ \E p \in Periods : \/ \E d \in Delays : KeSetTimerRelative(t, d, p)
                             \/ \E d \in DueTimes : KeSetTimerAbsolute(t, d, p)
  \/ InsertTimer \/ KiExpireTimers \/ ExpireNext \/ EndExpire
  \/ KeUpdateSystemTime \/ \E time \in SetTimes : KiSetSystemTime(time)

Spec == Init /\ [][Next]_vars

\* The clock ticks, its DPC runs (module KeDpc: a queued DPC is run) and what holds
\* the dispatcher lock goes on until it releases it.
FairSpec ==
  /\ Spec
  /\ WF_vars(KeUpdateSystemTime) /\ SF_vars(KiExpireTimers)
  /\ WF_vars(InsertTimer \/ ExpireNext \/ EndExpire)
-------------------------------------------------------------------------------
\* Types of the fields.
TypeOK ==
  /\ interruptTime \in 0 .. MaxTime /\ systemTime \in Nat /\ expireDpcQueued \in BOOLEAN
  /\ timerList \in Seq(Timers) /\ expiredList \in Seq(Timers)
  /\ inserted \in [Timers -> BOOLEAN] /\ absolute \in [Timers -> BOOLEAN]
  /\ signaled \in [Timers -> BOOLEAN]
  /\ due \in [Timers -> Nat] /\ notBefore \in [Timers -> Nat]
  /\ period \in [Timers -> Periods \union {0}]
  /\ waiting \subseteq Timers /\ dpcQueued \subseteq WithDpc
  /\ \/ lock \in {Free, Expiring}
     \/ /\ lock.doing = "Insert" /\ lock.timer \in Timers
        /\ lock.delay \in Nat \ {0}
  /\ lock # Expiring => expiredList = << >>

\* Inserted says that the timer is in exactly one of the two lists, once, or about
\* to enter one: nothing is linked twice or unlinked while it is on no list.
InsertedIsLinked ==
  LET linked == timerList \o expiredList
      entering == IF lock.doing = "Insert" THEN {lock.timer} ELSE {}
  IN  /\ NoDuplicates(linked)
      /\ \A t \in Timers : inserted[t] <=> t \in Members(linked) \union entering
      /\ Members(linked) \cap entering = {}

\* Outside the expiry, a timer in the list whose time has come has the DPC queued
\* that will find it: the order of the list, the comparison the walk stops at and
\* the ticks that come during the expiry leave none behind.
NothingOverdue ==
  lock # Expiring /\ ~expireDpcQueued =>
    \A t \in Members(timerList) : interruptTime < due[t]

\* No timer is taken for expired before the time it was set for, on the clock it
\* was set on, whatever happened between the two readings of the time.
NeverEarly ==
  \A t \in Members(expiredList) :
    IF absolute[t] THEN systemTime >= notBefore[t] ELSE interruptTime >= notBefore[t]

\* No thread waits for a timer that is signaled.
NobodyWaitsForSignaled ==
  lock = Free => \A t \in waiting : ~signaled[t]

\* A timer that is due within the time of the model expires, unless it is
\* cancelled or set again, whatever other timers do.
TimerExpires ==
  \A t \in Timers : \A d \in 0 .. MaxTime :
    inserted[t] /\ due[t] = d /\ t \in Members(timerList)
      ~> ~inserted[t] \/ due[t] # d \/ lock.doing = "Insert"
-------------------------------------------------------------------------------
(* What comments of the code say and the code does not do. *)

\* "If the Timer is periodic, reinsert the timer with the new due time": after it
\* expired a periodic timer is in the list.
PeriodicReinserted ==
  [][\A t \in Timers :
       t \in Members(expiredList) /\ t \notin Members(expiredList') /\ period[t] # 0
         => inserted'[t]]_vars

\* "Expired timers will be processed at the next clock tick", of a system time
\* that was set: when the expiry ends and no tick came during it, no absolute
\* timer in the list is past its time.
SetTimeIsSeen ==
  [][lock = Expiring /\ lock' = Free /\ ~expireDpcQueued =>
       \A t \in Members(timerList) : absolute[t] => systemTime < notBefore[t]]_vars
===============================================================================
