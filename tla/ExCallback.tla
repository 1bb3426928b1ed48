------------------------------- MODULE ExCallback ------------------------------
(***************************************************************************)
(* Callback objects, ntoskrnl/ex/callback.c: the registrations of one object  *)
(* in a list under its spin lock, a count of the notifications that are in     *)
(* the function of each, and one event of the system, ExpCallbackEvent, for     *)
(* whoever waits to unregister.  What is done under the spin lock is one step.   *)
(* ExRegisterCallback does not initialise InUse and PendingDeletion: they are    *)
(* what the memory held, a member of Memory.                                     *)
(***************************************************************************)
EXTENDS Integers, Sequences, FiniteSets, SequencesExt

CONSTANTS
  Notifiers,      \* threads that run ExNotifyCallback
  Owners,         \* threads that register and unregister, one registration each
  Memory,         \* set of [inUse, pendingDeletion] memory may hold
  Multiple,       \* AllowMultipleCallbacks
  MaxCalls,       \* bound: notifications of a thread
  NoEntry

VARIABLES
  list,      \* RegisteredCallbacks: registrations are named by their owners
  inUse,     \* Owners -> InUse
  pending,   \* Owners -> PendingDeletion
  event,     \* state of ExpCallbackEvent
  stage,     \* Owners -> where it is
  at,        \* Notifiers -> the registration whose function it is in
  calls      \* Notifiers -> notifications it has made

vars == <<list, inUse, pending, event, stage, at, calls>>

CallbackAssumption ==
  /\ Notifiers \cap Owners = {} /\ NoEntry \notin Owners
  /\ Memory # {} /\ Multiple \in BOOLEAN /\ MaxCalls \in Nat

TypeOK ==
  /\ list \in Seq(Owners) /\ inUse \in [Owners -> Int] /\ pending \in [Owners -> BOOLEAN]
  /\ event \in BOOLEAN
  /\ stage \in [Owners -> {"new", "registered", "refused", "clear", "wait", "look", "freed"}]
  /\ at \in [Notifiers -> Owners \cup {NoEntry}] /\ calls \in [Notifiers -> 0..MaxCalls]

\* The first registration from place i of the list that is not pending deletion.
FirstFrom(i) ==
  LET live == {j \in i..Len(list) : ~pending[list[j]]} IN
  IF live = {} THEN NoEntry ELSE list[CHOOSE j \in live : \A k \in live : j <= k]
PlaceOf(o) == CHOOSE j \in 1..Len(list) : list[j] = o
-------------------------------------------------------------------------------
\* ExNotifyCallback, up to the call of a function or the end of the list: uses maps
\* registrations to InUse when it comes to the next one.
Advance(n, next, uses) ==
  /\ at' = [at EXCEPT ![n] = next]
  /\ inUse' = [o \in Owners |-> uses[o] + IF o = next THEN 1 ELSE 0]

ExNotifyCallback(n) ==
  /\ at[n] = NoEntry /\ calls[n] < MaxCalls
  /\ calls' = [calls EXCEPT ![n] = @ + 1]
  /\ Advance(n, FirstFrom(1), inUse)
  /\ UNCHANGED <<list, pending, event, stage>>

\* The function returns: the last one out of a registration that is pending deletion
\* sets the event, and the walk goes on behind it.
FunctionReturns(n) ==
  LET o == at[n]  uses == [inUse EXCEPT ![o] = @ - 1] IN
  /\ o # NoEntry
  /\ event' = (event \/ (pending[o] /\ uses[o] = 0))
  /\ Advance(n, FirstFrom(PlaceOf(o) + 1), uses)
  /\ UNCHANGED <<list, pending, stage, calls>>

ExRegisterCallback(o) ==
  /\ stage[o] = "new"
  /\ IF Multiple \/ list = <<>>
     THEN /\ list' = Append(list, o)
          /\ \E m \in Memory : /\ inUse' = [inUse EXCEPT ![o] = m.inUse]
                               /\ pending' = [pending EXCEPT ![o] = m.pendingDeletion]
          /\ stage' = [stage EXCEPT ![o] = "registered"]
     ELSE stage' = [stage EXCEPT ![o] = "refused"] /\ UNCHANGED <<list, inUse, pending>>
  /\ UNCHANGED <<event, at, calls>>

\* ExUnregisterCallback: while the registration is in use it is marked and the lock is
\* released, then the event is cleared, then waited for; else it is removed and freed.
Look(o) ==
  /\ stage[o] \in {"registered", "look"}
  /\ \/ /\ inUse[o] # 0
        /\ pending' = [pending EXCEPT ![o] = TRUE]
        /\ stage' = [stage EXCEPT ![o] = "clear"] /\ UNCHANGED list
     \/ /\ inUse[o] = 0
        /\ list' = Remove(list, o)
        /\ stage' = [stage EXCEPT ![o] = "freed"] /\ UNCHANGED pending
  /\ UNCHANGED <<inUse, event, at, calls>>
ClearEvent(o) ==
  /\ stage[o] = "clear" /\ event' = FALSE /\ stage' = [stage EXCEPT ![o] = "wait"]
  /\ UNCHANGED <<list, inUse, pending, at, calls>>
EventEndsWait(o) ==
  /\ stage[o] = "wait" /\ event /\ stage' = [stage EXCEPT ![o] = "look"]
  /\ UNCHANGED <<list, inUse, pending, event, at, calls>>
ExUnregisterCallback(o) == Look(o) \/ ClearEvent(o) \/ EventEndsWait(o)

Next ==
  \/ \E n \in Notifiers : ExNotifyCallback(n) \/ FunctionReturns(n)
  \/ \E o \in Owners : ExRegisterCallback(o) \/ ExUnregisterCallback(o)

Init ==
  /\ list = <<>> /\ event = FALSE
  /\ inUse = [o \in Owners |-> 0] /\ pending = [o \in Owners |-> FALSE]
  /\ stage = [o \in Owners |-> "new"]
  /\ at = [n \in Notifiers |-> NoEntry] /\ calls = [n \in Notifiers |-> 0]

Spec == Init /\ [][Next]_vars
FairSpec == Spec /\ (\A n \in Notifiers : WF_vars(FunctionReturns(n)))
                 /\ (\A o \in Owners : WF_vars(stage[o] # "registered" /\ ExUnregisterCallback(o)))
-------------------------------------------------------------------------------
\* A registration is not removed and freed while a notification is in its function, and
\* InUse counts the notifications that are.
UsersKeepRegistration ==
  /\ \A n \in Notifiers : at[n] # NoEntry => stage[at[n]] # "freed"
  /\ \A o \in Owners : stage[o] # "freed" => inUse[o] = Cardinality({n \in Notifiers : at[n] = o})


\* Whoever waits to unregister a callback gets there.
UnregisterReturns == \A o \in Owners : stage[o] = "wait" ~> stage[o] = "freed"
===============================================================================
