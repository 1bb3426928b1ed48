------------------------------ MODULE IoRemoveLock ------------------------------
(***************************************************************************)
(* Remove locks (io/remlock.c): a driver's requests hold the lock while they    *)
(* use its device; the request that removes the device waits for the others.     *)
(* Increments, decrements and the flag are steps of their own.                  *)
(***************************************************************************)
EXTENDS Integers, FiniteSets

CONSTANTS
  Users,     \* threads whose requests acquire and release the lock
  Remover,   \* the thread that removes the device
  MaxCalls   \* requests of a user

RemoveLockAssumption == MaxCalls \in Nat /\ Remover \notin Users

VARIABLES ioCount, removed, removeEvent, pc, calls

vars == <<ioCount, removed, removeEvent, pc, calls>>

Threads == Users \cup {Remover}

\* IoInitializeRemoveLockEx.
IoInitializeRemoveLockEx == ioCount = 1 /\ removed = FALSE /\ removeEvent = FALSE

Init ==
  /\ IoInitializeRemoveLockEx
  /\ pc = [t \in Threads |-> "out"] /\ calls = [t \in Threads |-> 0]

Go(t, place) == pc' = [pc EXCEPT ![t] = place]

\* InterlockedDecrement, and the event when nothing is left.
Decrement(t, last, other) ==
  /\ ioCount' = ioCount - 1
  /\ Go(t, IF ioCount' = 0 THEN last ELSE other)
  /\ UNCHANGED <<removed, removeEvent, calls>>

SetEvent(t, from, to) ==
  /\ pc[t] = from
  /\ removeEvent' = TRUE
  /\ Go(t, to)
  /\ UNCHANGED <<ioCount, removed, calls>>
-------------------------------------------------------------------------------
\* IoAcquireRemoveLockEx: counted first, then refused if the device is being removed.
IoAcquireRemoveLockEx(t) ==
  /\ pc[t] = "out" /\ (t # Remover => calls[t] < MaxCalls)
  /\ ioCount' = ioCount + 1
  /\ calls' = [calls EXCEPT ![t] = @ + 1]
  /\ Go(t, "counted")
  /\ UNCHANGED <<removed, removeEvent>>

Admitted(t) ==
  /\ pc[t] = "counted" /\ ~removed
  /\ Go(t, "inside")
  /\ UNCHANGED <<ioCount, removed, removeEvent, calls>>

\* Mutated: a refused request stays counted.
RefusedCounted(t) ==
  /\ pc[t] = "counted" /\ removed
  /\ Go(t, "out")
  /\ UNCHANGED <<ioCount, removed, removeEvent, calls>>

Refused(t) ==
  /\ pc[t] = "counted" /\ removed
  /\ Decrement(t, "last", "out")

\* IoReleaseRemoveLockEx.
IoReleaseRemoveLockEx(t) ==
  /\ pc[t] = "inside" /\ t \in Users
  /\ Decrement(t, "last", "out")

\* IoReleaseRemoveLockAndWaitEx: the flag, the reference of the initialisation, the
\* remover's own reference, the wait.
IoReleaseRemoveLockAndWaitEx ==
  /\ pc[Remover] = "inside"
  /\ removed' = TRUE
  /\ Go(Remover, "flagged")
  /\ UNCHANGED <<ioCount, removeEvent, calls>>

DropInitial ==
  /\ pc[Remover] = "flagged"
  /\ Decrement(Remover, "dropped", "dropped")

DropOwn ==
  /\ pc[Remover] = "dropped"
  /\ Decrement(Remover, "lastOwn", "waiting")

Wait ==
  /\ pc[Remover] = "waiting" /\ removeEvent
  /\ Go(Remover, "gone")
  /\ UNCHANGED <<ioCount, removed, removeEvent, calls>>

Next ==
  \/ \E t \in Threads : IoAcquireRemoveLockEx(t) \/ Admitted(t) \/ Refused(t)
                          \/ IoReleaseRemoveLockEx(t) \/ SetEvent(t, "last", "out")
  \/ IoReleaseRemoveLockAndWaitEx \/ DropInitial \/ DropOwn \/ Wait
  \/ SetEvent(Remover, "lastOwn", "waiting")

Spec == Init /\ [][Next]_vars

\* Whoever is in a call goes on.
Goes(t) ==
  \/ Admitted(t) \/ Refused(t) \/ IoReleaseRemoveLockEx(t) \/ SetEvent(t, "last", "out")
  \/ t = Remover /\ (DropInitial \/ DropOwn \/ Wait \/ SetEvent(Remover, "lastOwn", "waiting"))

FairSpec == Spec /\ \A t \in Threads : WF_vars(Goes(t))
-------------------------------------------------------------------------------
TypeOK ==
  /\ ioCount \in Nat /\ removed \in BOOLEAN /\ removeEvent \in BOOLEAN
  /\ pc \in [Threads -> {"out", "counted", "inside", "last", "flagged", "dropped", "lastOwn",
                         "waiting", "gone"}]
  /\ calls \in [Threads -> Nat]

\* Once the remover's wait has ended no request uses the device, and none will: a request
\* that is counted meanwhile, on its way to be refused, makes no difference.
GoneIsUnused == pc[Remover] = "gone" => \A t \in Users : pc[t] # "inside"

\* The remover's wait ends.
RemoverReturns == pc[Remover] = "flagged" ~> pc[Remover] = "gone"
===============================================================================
