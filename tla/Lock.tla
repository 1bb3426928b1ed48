--------------------------------- MODULE Lock ---------------------------------
(***************************************************************************)
(* What a blocking lock of the executive promises to its callers,          *)
(* whatever it is built from: a thread asks, at most one thread holds the   *)
(* lock at any time, and while a thread is asking and the lock is free      *)
(* somebody gets it.  No order among the askers is promised.                *)
(* ExFastMutex is shown to implement this module.                           *)
(***************************************************************************)
CONSTANT Threads,    \* the threads that use the lock
         NoThread    \* the value of holder while the lock is free

VARIABLES wanting,   \* threads that have asked and do not hold the lock yet
          holder     \* the thread that holds the lock, or NoThread

vars == <<wanting, holder>>

Init == wanting = {} /\ holder = NoThread

Request(t) ==
  /\ t \notin wanting /\ holder # t
  /\ wanting' = wanting \union {t}
  /\ UNCHANGED holder

Grant(t) ==
  /\ t \in wanting /\ holder = NoThread
  /\ wanting' = wanting \ {t}
  /\ holder' = t

Release(t) ==
  /\ holder = t
  /\ holder' = NoThread
  /\ UNCHANGED wanting

SomeGrant == \E t \in Threads : Grant(t)

Next == SomeGrant \/ \E t \in Threads : Request(t) \/ Release(t)

Spec == Init /\ [][Next]_vars /\ WF_vars(SomeGrant)
===============================================================================
