------------------------------- MODULE PsSuspend --------------------------------
(***************************************************************************)
(* Suspending and resuming one thread (ntoskrnl/ps/suspend.c, and             *)
(* KeAlertResumeThread of ke/kthread.c): the suspend count, changed under     *)
(* SuspendMutex or under the dispatcher lock, the suspend APC, and the        *)
(* semaphore its normal routine waits on while the count is not zero.         *)
(*                                                                         *)
(* The count is read and written in two steps, between which another thread  *)
(* can run; what the dispatcher lock protects is one step.                    *)
(***************************************************************************)
EXTENDS Integers

CONSTANTS
  Callers,       \* the threads that suspend and resume
  MaxCalls,      \* bound: their calls
  Width,         \* the suspend count is a byte: 256
  Maximum,       \* MAXIMUM_SUSPEND_COUNT
  AlertResumes   \* NtAlertResumeThread is called as well

VARIABLES
  suspendCount,  \* Tcb.SuspendCount
  signalState,   \* Tcb.SuspendSemaphore.Header.SignalState
  apcInserted,   \* Tcb.SuspendApc.Inserted
  alerted,       \* Tcb.Alerted[KernelMode]
  state,         \* the thread: Running, in the APC's Routine, about to Wait, Waiting
  mutex,         \* the owner of SuspendMutex, or Nobody
  stage, old,    \* where each caller is and the count it has read
  calls,
  owed,          \* the suspensions that were not undone (history)
  alertResumed   \* KeAlertResumeThread was called (history)

target  == <<signalState, apcInserted, alerted, state>>
history == <<owed, alertResumed>>
suspendVars == <<suspendCount, target, mutex, stage, old, calls, history>>

Nobody == "Nobody"

\* What the constants must satisfy; assumed by the modules that fix them.
SuspendAssumption ==
  /\ Nobody \notin Callers /\ MaxCalls \in Nat /\ Width \in Nat \ {0}
  /\ Maximum \in Nat /\ AlertResumes \in BOOLEAN

Stages == {"Idle", "SuspendRead", "SuspendQueue", "ResumeRead", "ResumeRelease"}

NowAt(c, where) == stage' = [stage EXCEPT ![c] = where]
Release(c) == mutex' = Nobody /\ NowAt(c, "Idle")

\* Reads the count; Locked is the mutex taken.
Begin(c, where, Locked) ==
  /\ stage[c] = "Idle" /\ calls < MaxCalls
  /\ Locked
  /\ calls' = calls + 1
  /\ old' = [old EXCEPT ![c] = suspendCount]
  /\ NowAt(c, where)
  /\ UNCHANGED <<suspendCount, target, history>>
-------------------------------------------------------------------------------
(* PsSuspendThread *)

SuspendBegin(c) == Begin(c, "SuspendRead", mutex = Nobody /\ mutex' = c)

SuspendCounts(c) ==
  /\ stage[c] = "SuspendRead"
  /\ suspendCount' = (old[c] + 1) % Width
  /\ owed' = owed + 1
  /\ NowAt(c, "SuspendQueue")
  /\ UNCHANGED <<target, mutex, old, calls, alertResumed>>

\* The APC is queued if it is not in the list; no thread ever refuses APCs.
SuspendQueues(c) ==
  /\ stage[c] = "SuspendQueue"
  /\ apcInserted' = TRUE
  /\ Release(c)
  /\ UNCHANGED <<suspendCount, signalState, alerted, state, old, calls, history>>
-------------------------------------------------------------------------------
(* PsResumeThread *)

ResumeBegin(c) == Begin(c, "ResumeRead", mutex = Nobody /\ mutex' = c)

ResumeNothing(c) ==
  /\ stage[c] = "ResumeRead" /\ old[c] = 0
  /\ Release(c)
  /\ UNCHANGED <<suspendCount, target, old, calls, history>>

ResumeCounts(c) ==
  /\ stage[c] = "ResumeRead" /\ old[c] > 0
  /\ suspendCount' = old[c] - 1
  /\ owed' = owed - 1
  /\ IF old[c] = 1 THEN NowAt(c, "ResumeRelease") /\ UNCHANGED mutex ELSE Release(c)
  /\ UNCHANGED <<target, old, calls, alertResumed>>

\* A signal for the semaphore: a thread that waits takes it.
Signal ==
  IF state = "Waiting" THEN state' = "Routine" /\ UNCHANGED signalState
                       ELSE signalState' = signalState + 1 /\ UNCHANGED state

\* KeReleaseSemaphore.
ResumeReleases(c) ==
  /\ stage[c] = "ResumeRelease"
  /\ Signal
  /\ Release(c)
  /\ UNCHANGED <<suspendCount, apcInserted, alerted, old, calls, history>>

\* KeAlertResumeThread ends the wait in the routine, which is alertable, unless the
\* thread has been alerted before; and it signals the semaphore if the new count is
\* not zero.
KeAlertResumeThread ==
  LET aborts == state = "Waiting" /\ ~alerted
  IN  /\ AlertResumes /\ calls < MaxCalls /\ calls' = calls + 1
      /\ alerted' = ~aborts /\ alertResumed' = TRUE
      /\ IF suspendCount > 0
           THEN suspendCount' = suspendCount - 1 /\ owed' = owed - 1
           ELSE UNCHANGED <<suspendCount, history>>
      /\ CASE aborts ->
                 /\ state' = "Routine"
                 /\ signalState' = IF suspendCount > 1 THEN signalState + 1 ELSE signalState
           [] ~aborts /\ suspendCount > 1 -> Signal
           [] OTHER -> UNCHANGED <<signalState, state>>
      /\ UNCHANGED <<apcInserted, mutex, stage, old>>
-------------------------------------------------------------------------------
(* The thread: PiSuspendThreadNormalRoutine *)

DeliverApc ==
  /\ state = "Running" /\ apcInserted
  /\ apcInserted' = FALSE /\ state' = "Routine"
  /\ UNCHANGED <<suspendCount, signalState, alerted, mutex, stage, old, calls,
                 history>>

\* Mutated: a signal there already is taken for this suspension's.
LoopUnlessSignaled == state' = IF suspendCount > 0 /\ signalState = 0 THEN "Wait" ELSE "Running"

Loop == state' = IF suspendCount > 0 THEN "Wait" ELSE "Running"

RoutineTests ==
  /\ state = "Routine" /\ Loop
  /\ UNCHANGED <<suspendCount, signalState, apcInserted, alerted, mutex, stage, old, calls,
                 history>>

WaitForSemaphore ==
  /\ state = "Wait"
  /\ IF signalState > 0 THEN signalState' = signalState - 1 /\ state' = "Routine"
                        ELSE state' = "Waiting" /\ UNCHANGED signalState
  /\ UNCHANGED <<suspendCount, apcInserted, alerted, mutex, stage, old, calls,
                 history>>

\* An alertable wait for kernel mode in the thread's own code.
AlertedWait ==
  /\ state = "Running" /\ ~apcInserted /\ alerted /\ alerted' = FALSE
  /\ UNCHANGED <<suspendCount, signalState, apcInserted, state, mutex, stage, old, calls, history>>

\* The wait is alertable and for user mode: an alert or a user APC ends it.
WaitAborted ==
  /\ state = "Waiting" /\ state' = "Routine"
  /\ UNCHANGED <<suspendCount, signalState, apcInserted, alerted, mutex, stage, old, calls,
                 history>>
-------------------------------------------------------------------------------
SuspendInit ==
  /\ suspendCount = 0 /\ signalState = 0 /\ apcInserted = FALSE /\ alerted \in BOOLEAN
  /\ state = "Running"
  /\ mutex = Nobody /\ stage = [c \in Callers |-> "Idle"] /\ old = [c \in Callers |-> 0]
  /\ calls = 0 /\ owed = 0 /\ alertResumed = FALSE

Caller(c) ==
  \/ SuspendCounts(c) \/ SuspendQueues(c)
  \/ ResumeNothing(c) \/ ResumeCounts(c) \/ ResumeReleases(c)

Target == DeliverApc \/ RoutineTests \/ WaitForSemaphore

SuspendNext ==
  \/ \E c \in Callers : SuspendBegin(c) \/ ResumeBegin(c) \/ Caller(c)
  \/ KeAlertResumeThread
  \/ Target \/ AlertedWait \/ WaitAborted

SuspendSpec == SuspendInit /\ [][SuspendNext]_suspendVars

\* Callers and the thread are given the processor; nobody has to call, alert or
\* queue a user APC.
FairSuspendSpec ==
  /\ SuspendSpec
  /\ WF_suspendVars(Target)
  /\ \A c \in Callers : WF_suspendVars(Caller(c))
-------------------------------------------------------------------------------
\* Types of the fields.
SuspendTypeOK ==
  /\ suspendCount \in 0 .. Width - 1 /\ signalState \in 0 .. MaxCalls /\ apcInserted \in BOOLEAN
  /\ alerted \in BOOLEAN
  /\ state \in {"Running", "Routine", "Wait", "Waiting"}
  /\ mutex \in Callers \union {Nobody}
  /\ stage \in [Callers -> Stages] /\ old \in [Callers -> 0 .. Width - 1]
  /\ calls \in 0 .. MaxCalls /\ owed \in Int /\ alertResumed \in BOOLEAN

\* "A thread will be suspended if its suspend count is greater than 0": once the
\* calls have returned it does not go on in its own code without the APC before it,
\* though it tests the count without the mutex.
SuspensionTakesHold ==
  mutex = Nobody /\ state = "Running" /\ suspendCount > 0 => apcInserted

\* What ends a wait in the routine early, a signal left over from a suspension that
\* ended before the thread waited, an alert or a user APC, does not let a suspended
\* thread go.
LeavesOnlyResumed ==
  [][state # "Running" /\ state' = "Running" => suspendCount = 0]_suspendVars

\* The count is the number of suspensions that were not undone: no call's change
\* is lost between another's read and write.
CountBalances == suspendCount = owed

\* "If we are now zero, unwait it completely": a thread whose count is zero does
\* not wait for the semaphore once the calls have returned.
ZeroUnwaits == mutex = Nobody /\ suspendCount = 0 => state # "Waiting"

\* Until KeAlertResumeThread is called a suspended thread does not go on in its own code, no
\* change of the count is lost, and a count of zero leaves no thread waiting; and in any case
\* what ends a wait early does not let a suspended thread go.
SuspensionHolds ==
  /\ [](SuspendTypeOK
          /\ (~alertResumed => SuspensionTakesHold /\ CountBalances /\ ZeroUnwaits))
  /\ LeavesOnlyResumed

\* A thread that is not suspended any more, or never was, gets back to its code.
ResumedThreadRuns == suspendCount = 0 ~> (suspendCount > 0 \/ state = "Running")

\* "The suspend count is not increased if it is greater than MAXIMUM_SUSPEND_COUNT".
NotAboveMaximum == [][suspendCount > Maximum => suspendCount' <= suspendCount]_suspendVars
===============================================================================
