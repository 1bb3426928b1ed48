----------------------------- MODULE PsProcessLock -----------------------------
(***************************************************************************)
(* The lock of a process object (PsLockProcess and PsUnlockProcess, ps/process.c): *)
(* an owner taken by compare and exchange, a recursion count and an event,    *)
(* none of them under a common lock.  Setters change a field of the process   *)
(* (NtSetInformationProcess, NtAssignProcessToJobObject); Leavers are the     *)
(* process's own threads, which take themselves off its thread list when they *)
(* terminate, and the last of which marks the process terminated.             *)
(*                                                                         *)
(* Every interlocked operation, wait and event call is a step of its own.     *)
(***************************************************************************)
EXTENDS Naturals, FiniteSets

CONSTANTS
  Setters, Leavers,
  MaxCalls,    \* bound: calls of each setter
  Width,       \* LockCount wraps at it
  Patience,    \* the lock is free again before a thread's third attempt
  Late         \* threads are created after the last one left the list

\* What the constants must satisfy; assumed by the modules that fix them.
LockAssumption ==
  /\ Setters \cap Leavers = {} /\ MaxCalls \in Nat /\ Patience \in BOOLEAN /\ Late \in BOOLEAN
  /\ Width \in Nat /\ Width > Cardinality(Setters \union Leavers)

VARIABLES
  owner, count, event,  \* LockOwner, LockCount, LockEvent
  terminated,           \* Pcb.State = PROCESS_STATE_TERMINATED
  pc, attempts,         \* of each thread, and its Attempts
  region,               \* how often it has disabled kernel APCs
  calls,                \* calls it has made
  inside,               \* between PsLockProcess and PsUnlockProcess
  left                  \* threads taken off the list
vars == <<owner, count, event, terminated, pc, attempts, region, calls, inside, left>>

Members == Setters \union Leavers
None == "None"
Places == {"Idle", "Test", "Exchange", "Count", "Wait", "Inside", "Release",
           "Signal", "Leave"}

Goto(t, where) == pc' = [pc EXCEPT ![t] = where]
-------------------------------------------------------------------------------
(* PsLockProcess *)

\* A setter comes again; a thread terminates once.
PsLockProcess(t) ==
  /\ pc[t] = "Idle" /\ calls[t] < (IF t \in Setters THEN MaxCalls ELSE 1)
  /\ Goto(t, "Test")
  /\ calls' = [calls EXCEPT ![t] = @ + 1]
  /\ attempts' = [attempts EXCEPT ![t] = 0]
  /\ region' = [region EXCEPT ![t] = @ + 1]
  /\ UNCHANGED <<owner, count, event, terminated, inside, left>>

\* A setter gives up if the process is terminating; a leaver does not look.
TestState(t) ==
  /\ pc[t] = "Test"
  /\ IF terminated
       THEN /\ region' = [region EXCEPT ![t] = @ - 1]
            /\ IF t \in Setters
                 THEN Goto(t, "Idle") /\ UNCHANGED inside
                 ELSE Goto(t, "Inside") /\ inside' = inside \union {t}
       ELSE Goto(t, "Exchange") /\ UNCHANGED <<region, inside>>
  /\ UNCHANGED <<owner, count, event, terminated, attempts, calls, left>>

\* Mutated: the owner is looked at and set whoever it is.
TakeOwner(t) ==
  /\ pc[t] = "Exchange"
  /\ owner' = t /\ Goto(t, "Count")
  /\ UNCHANGED <<count, event, terminated, attempts, region, calls, inside, left>>

Exchange(t) ==
  /\ pc[t] = "Exchange" /\ owner \in {None, t}
  /\ owner' = t /\ Goto(t, "Count")
  /\ UNCHANGED <<count, event, terminated, attempts, region, calls, inside, left>>

CountOwner(t) ==
  /\ pc[t] = "Count"
  /\ count' = (count + 1) % Width
  /\ event' = IF count' = 1 THEN FALSE ELSE event
  /\ Goto(t, "Inside") /\ inside' = inside \union {t}
  /\ UNCHANGED <<owner, terminated, attempts, region, calls, left>>

\* Two failed attempts are followed by a short delay, the third by the wait.
ExchangeFails(t) ==
  /\ pc[t] = "Exchange" /\ owner \notin {None, t}
  /\ ~(Patience /\ attempts[t] = 2)
  /\ attempts' = [attempts EXCEPT ![t] = @ + 1]
  /\ Goto(t, IF attempts[t] = 2 THEN "Wait" ELSE "Test")
  /\ UNCHANGED <<owner, count, event, terminated, region, calls, inside, left>>

\* The loop ends with the status of the wait.
WaitForEvent(t) ==
  /\ pc[t] = "Wait" /\ event
  /\ event' = FALSE
  /\ Goto(t, "Inside") /\ inside' = inside \union {t}
  /\ UNCHANGED <<owner, count, terminated, attempts, region, calls, left>>
-------------------------------------------------------------------------------
(* PsUnlockProcess *)

PsUnlockProcess(t) ==
  /\ pc[t] = "Inside" /\ inside' = inside \ {t}
  /\ left' = IF t \in Leavers THEN left \union {t} ELSE left
  /\ count' = (count + Width - 1) % Width
  /\ Goto(t, IF count' = 0 THEN "Release" ELSE "Leave")
  /\ UNCHANGED <<owner, event, terminated, attempts, region, calls>>

Release(t) ==
  /\ pc[t] = "Release"
  /\ owner' = None /\ Goto(t, "Signal")
  /\ UNCHANGED <<count, event, terminated, attempts, region, calls, inside, left>>

Signal(t) ==
  /\ pc[t] = "Signal"
  /\ event' = TRUE /\ Goto(t, "Leave")
  /\ UNCHANGED <<owner, count, terminated, attempts, region, calls, inside, left>>

LeaveRegion(t) ==
  /\ pc[t] = "Leave" /\ Goto(t, "Idle")
  /\ region' = [region EXCEPT ![t] = @ - 1]
  /\ UNCHANGED <<owner, count, event, terminated, attempts, calls, inside, left>>

\* By the thread that found the list empty.
PiTerminateProcess ==
  /\ ~terminated /\ left # {}
  /\ \A t \in Leavers : pc[t] = "Idle" /\ (t \in left \/ (Late /\ calls[t] = 0))
  /\ terminated' = TRUE
  /\ UNCHANGED <<owner, count, event, pc, attempts, region, calls, inside, left>>

Init ==
  /\ owner = None /\ count = 0 /\ event = FALSE /\ terminated = FALSE
  /\ pc = [t \in Members |-> "Idle"] /\ attempts = [t \in Members |-> 0]
  /\ region = [t \in Members |-> 0] /\ calls = [t \in Members |-> 0]
  /\ inside = {} /\ left = {}

Step(t) ==
  \/ PsLockProcess(t) \/ TestState(t) \/ Exchange(t) \/ CountOwner(t)
  \/ ExchangeFails(t) \/ WaitForEvent(t)
  \/ PsUnlockProcess(t) \/ Release(t) \/ Signal(t) \/ LeaveRegion(t)

Next == (\E t \in Members : Step(t)) \/ PiTerminateProcess

Spec == Init /\ [][Next]_vars
-------------------------------------------------------------------------------
\* Types of the fields.
TypeOK ==
  /\ owner \in Members \union {None} /\ count \in 0 .. Width - 1
  /\ event \in BOOLEAN /\ terminated \in BOOLEAN
  /\ pc \in [Members -> Places] /\ attempts \in [Members -> 0 .. 3]
  /\ region \in [Members -> Nat] /\ calls \in [Members -> Nat]
  /\ inside \subseteq Members /\ left \subseteq Leavers

\* "lock the process so we can safely assign the process": at most one thread is
\* between PsLockProcess and PsUnlockProcess.
OneInside == Cardinality(inside) <= 1

\* Whoever unlocks the process is its owner (the assertion in PsUnlockProcess), has
\* kernel APCs disabled, and has been counted.
InsideOwns == \A t \in inside : owner = t /\ region[t] = 1 /\ count = 1

\* Nobody inside or on the way has the owner or the count: nothing of a finished call
\* is left behind.
IdleIsFree == (\A t \in Members : pc[t] = "Idle") => owner = None /\ count = 0

\* Every way out of the two routines has kernel APCs enabled again, the one after
\* the wait and the one from a terminated process too.
RegionsBalanced == \A t \in Members : region[t] = (IF pc[t] = "Idle" THEN 0 ELSE 1)
===============================================================================
