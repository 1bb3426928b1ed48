------------------------------- MODULE CmCallbacks -----------------------------
(***************************************************************************)
(* The registry callbacks of ntoskrnl/cm/ntfunc.c: the list CmiCallbackHead   *)
(* under the fast mutex CmiCallbackLock, with one rundown reference            *)
(* (ExRundown) for each callback.  Users walk the list and let go of the      *)
(* lock while they are in a callback's function; a callback is unregistered      *)
(* when it is not pending deletion, and freed when its users have left.          *)
(***************************************************************************)
EXTENDS ExRundown, Sequences, SequencesExt

CONSTANTS
  MaxCalls,    \* bound: calls of a caller
  Fails,       \* TRUE where a callback's function may return a failure
  NoThread

VARIABLES
  list,           \* the callbacks from CmiCallbackHead on
  registered,     \* callbacks that were registered once
  pendingDelete,  \* callbacks with PendingDelete set
  freed,          \* callbacks whose memory is freed
  lock,           \* owner of CmiCallbackLock, or NoThread
  pc,             \* Threads -> where a thread is
  entry,          \* Threads -> the callback it is at
  calls           \* Threads -> calls it has made

vars == <<rundownVars, list, registered, pendingDelete, freed, lock, pc, entry, calls>>

CallbacksAssumption ==
  /\ RundownAssumption
  /\ NoThread \notin Threads /\ MaxCalls \in Nat /\ Fails \in BOOLEAN

TypeOK ==
  /\ list \in Seq(Refs) /\ pendingDelete \subseteq registered /\ freed \subseteq registered
  /\ lock \in Threads \cup {NoThread} /\ pc \in [Threads -> STRING]
  /\ entry \in [Threads -> Refs \cup {NoThread}] /\ calls \in [Threads -> 0..MaxCalls]

Move(t, place) == pc' = [pc EXCEPT ![t] = place]
Put(t, c) == entry' = [entry EXCEPT ![t] = c]
AcquireLock(t) == lock = NoThread /\ lock' = t
ReleaseLock(t) == lock = t /\ lock' = NoThread

\* The entry behind c, or NoThread at the list head; the first one when c is the head.
Flink(c) ==
  LET i == IF c = NoThread THEN 1 ELSE CHOOSE j \in 1..Len(list) + 1 : j > 1 /\ list[j - 1] = c
  IN IF i > Len(list) THEN NoThread ELSE list[i]

listVars == <<list, registered, pendingDelete, freed>>
-------------------------------------------------------------------------------
\* CmRegisterCallback by a driver that is no thread of the model.
CmRegisterCallback(c) ==
  /\ c \notin registered /\ lock = NoThread
  /\ registered' = registered \cup {c} /\ list' = Append(list, c)
  /\ ExInitializeRundownProtection(c)
  /\ UNCHANGED <<pendingDelete, freed, lock, pc, entry, calls>>

\* CmiCallRegisteredCallbacks: takes the lock and reads the first entry.
Call(t) ==
  /\ pc[t] = "out" /\ calls[t] < MaxCalls /\ AcquireLock(t)
  /\ calls' = [calls EXCEPT ![t] = @ + 1]
  /\ Put(t, Flink(NoThread)) /\ Move(t, "at")
  /\ UNCHANGED <<rundownVars, listVars>>

\* At an entry: past a callback pending deletion, or into ExAcquireRundownProtectionEx.
Pass(t) ==
  /\ pc[t] = "at" /\ entry[t] \in pendingDelete
  /\ Put(t, Flink(entry[t])) /\ UNCHANGED <<rundownVars, listVars, lock, pc, calls>>
Protect(t) ==
  /\ pc[t] = "at" /\ entry[t] # NoThread /\ entry[t] \notin pendingDelete
  /\ Enter(t, entry[t], "acquire") /\ Move(t, "protecting")
  /\ UNCHANGED <<listVars, lock, entry, calls>>
AfterAcquire(t) ==
  /\ pc[t] = "protecting"
  /\ IF At(t, "granted")
     THEN ReleaseLock(t) /\ Move(t, "function") /\ UNCHANGED entry
     ELSE At(t, "refused") /\ Put(t, Flink(entry[t])) /\ Move(t, "at") /\ UNCHANGED lock
  /\ UNCHANGED <<rundownVars, listVars, calls>>

\* A callback that fails ends the walk at once, under its protection.
FunctionFails(t) ==
  /\ Fails /\ pc[t] = "function" /\ Move(t, "out") /\ Put(t, NoThread)
  /\ UNCHANGED <<rundownVars, listVars, lock, calls>>
\* Mutated: the protection is released before the lock is taken.
ReturnsUnlocked(t) ==
  /\ pc[t] = "function" /\ Enter(t, entry[t], "release")
  /\ Move(t, "unprotecting") /\ UNCHANGED <<listVars, lock, entry, calls>>
FunctionReturns(t) ==
  /\ pc[t] = "function" /\ AcquireLock(t) /\ Enter(t, entry[t], "release")
  /\ Move(t, "unprotecting") /\ UNCHANGED <<listVars, entry, calls>>
Onward(t) ==
  /\ pc[t] = "unprotecting" /\ At(t, "idle") /\ Move(t, "at") /\ Put(t, Flink(entry[t]))
  /\ UNCHANGED <<rundownVars, listVars, lock, calls>>
EndOfList(t) ==
  /\ pc[t] = "at" /\ entry[t] = NoThread /\ ReleaseLock(t) /\ Move(t, "out")
  /\ UNCHANGED <<rundownVars, listVars, entry, calls>>

\* CmUnRegisterCallback: the search under the lock, the wait without it, the rest.
CmUnRegisterCallback(t, c) ==
  /\ pc[t] = "out" /\ lock = NoThread /\ calls[t] < MaxCalls /\ c \in registered
  /\ calls' = [calls EXCEPT ![t] = @ + 1]
  /\ IF c \in Range(list) /\ c \notin pendingDelete
     THEN /\ pendingDelete' = pendingDelete \cup {c}
          /\ Enter(t, c, "wait") /\ Put(t, c) /\ Move(t, "draining")
     ELSE UNCHANGED <<rundownVars, pendingDelete, pc, entry>>
  /\ UNCHANGED <<list, registered, freed, lock>>
Unlink(t) ==
  /\ pc[t] = "draining" /\ At(t, "drained") /\ lock = NoThread
  /\ list' = Remove(list, entry[t]) /\ Move(t, "free")
  /\ UNCHANGED <<rundownVars, registered, pendingDelete, freed, lock, entry, calls>>
Free(t) ==
  /\ pc[t] = "free" /\ freed' = freed \cup {entry[t]} /\ Put(t, NoThread) /\ Move(t, "out")
  /\ UNCHANGED <<rundownVars, list, registered, pendingDelete, lock, calls>>

Rundown(t) == Proceed(t) /\ UNCHANGED <<listVars, lock, pc, entry, calls>>
InFunction(t) == FunctionFails(t) \/ FunctionReturns(t)
Walk(t) == Pass(t) \/ Protect(t) \/ AfterAcquire(t) \/ Onward(t) \/ EndOfList(t)
Remover(t) == Unlink(t) \/ Free(t)

Next ==
  \/ \E c \in Refs : CmRegisterCallback(c)
  \/ \E t \in Threads : Rundown(t)
  \/ \E t \in Users : Call(t) \/ Walk(t) \/ InFunction(t)
  \/ \E t \in Drainers : Remover(t) \/ \E c \in Refs : CmUnRegisterCallback(t, c)

Init ==
  /\ RundownInit
  /\ list = <<>> /\ registered = {} /\ pendingDelete = {} /\ freed = {}
  /\ lock = NoThread
  /\ pc = [t \in Threads |-> "out"]
  /\ entry = [t \in Threads |-> NoThread]
  /\ calls = [t \in Threads |-> 0]

Spec == Init /\ [][Next]_vars

\* A thread goes on with what it has begun.
Goes(t) == Rundown(t) \/ Walk(t) \/ FunctionReturns(t) \/ Remover(t)

FairSpec == Spec /\ \A t \in Threads : WF_vars(Goes(t))
-------------------------------------------------------------------------------
\* A callback is not freed, nor unlinked, while a thread is in its function or stands at
\* its entry (CmUnRegisterCallback waits for the one, the lock keeps the other).
UsersKeepCallback ==
  \A t \in Users : entry[t] # NoThread => entry[t] \in Range(list) \ freed

\* Under the lock no user is counted twice, where no function fails: a count is that of
\* the threads in the function.
ProtectionIsCounted ==
  \A c \in registered \ freed : ~word[c].active => word[c].value = Cardinality(Holders(c))

\* Whoever unregisters a callback returns in the end.
UnregisterReturns == \A t \in Drainers : pc[t] # "out" ~> pc[t] = "out"
===============================================================================
