---------------------------- MODULE MCKeDispatcher ----------------------------
(***************************************************************************)
(* TLC instances of KeDispatcher: the waits the threads issue.              *)
(***************************************************************************)
EXTENDS KeDispatcher

CONSTANTS notification, synchronization, semaphore, mutant, t1, t2, t3

\* MINLONG brought near: one recursive acquisition, or none.
OneRecursion == -1
NoRecursion == 0

Request(type, objects, timeout, alertable, mode) ==
  [type |-> type, objects |-> objects, timeout |-> timeout,
   alertable |-> alertable, mode |-> mode]

KernelWait(type, objects) == Request(type, objects, "none", FALSE, "KernelMode")
TimedWait(type, objects)  == Request(type, objects, "later", FALSE, "KernelMode")

\* Any and all of several objects, in both orders, with and without a timeout,
\* alertable and not, for every kind of object; and a delay.
MixedRequests ==
  {KernelWait("WaitAny", <<notification, synchronization>>),
   KernelWait("WaitAll", <<synchronization, notification>>),
   Request("WaitAny", <<synchronization, mutant>>, "later", TRUE, "UserMode"),
   TimedWait("WaitAny", <<mutant, semaphore>>),
   Request("WaitAny", <<mutant>>, "zero", FALSE, "KernelMode"),
   KernelWait("WaitAny", <<t1>>),
   Request("Delay", << >>, "later", TRUE, "UserMode")}

\* For the ends of waits: a mutant to be had in turn, an event that nobody need set.
LiveRequests ==
  {KernelWait("WaitAny", <<mutant>>), TimedWait("WaitAny", <<synchronization>>)}

\* What the statements at the end of KeDispatcher fail with.
WaitAllRequests  == {KernelWait("WaitAll", <<semaphore, synchronization>>)}
AlertRequests    == {Request("WaitAny", <<synchronization>>, "none", TRUE, "UserMode")}
DelayRequests    == {Request("Delay", << >>, "past", FALSE, "KernelMode")}
OneTimedRequest  == {TimedWait("WaitAny", <<synchronization>>)}
===============================================================================
