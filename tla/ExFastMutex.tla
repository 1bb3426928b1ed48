----------------------------- MODULE ExFastMutex ------------------------------
(***************************************************************************)
(* FAST_MUTEX of the executive (ntoskrnl/ex/fmutex.c).  A thread takes the  *)
(* mutex by exchanging Count with 0; a thread that loses the exchange waits *)
(* on the synchronization event and tries again when it wakes, so a running *)
(* thread can overtake the one just woken.  The releaser looks at           *)
(* Contention to decide whether the event must be set at all.              *)
(*                                                                         *)
(* Every interlocked operation, every plain load or store of a shared       *)
(* field and every call into the dispatcher is a step of its own: the       *)
(* steps of different threads interleave freely.                            *)
(***************************************************************************)
EXTENDS Integers, Sequences, FiniteSets

CONSTANT Threads,   \* the threads that use the mutex
         NoThread   \* Owner = NULL

ASSUME NoThreadAssumption == NoThread \notin Threads
ASSUME ThreadsAssumption == IsFiniteSet(Threads)

VARIABLES
  Count,        \* FastMutex->Count: 1 free, 0 taken
  Contention,   \* FastMutex->Contention
  Owner,        \* FastMutex->Owner
  signaled,     \* FastMutex->Event.Header.SignalState
  sleepers,     \* FastMutex->Event.Header.WaitListHead, oldest first
  pc            \* where each thread stands

vars == <<Count, Contention, Owner, signaled, sleepers, pc>>

\* The program points, in the order a thread meets them.
Points == {"out",       \* outside: neither acquiring nor holding
           "exchange",  \* about to exchange Count with 0
           "wait",      \* lost the exchange, about to wait on the event
           "asleep",    \* blocked on the event
           "won",       \* won the exchange, Contention not yet given back
           "claim",     \* about to store Owner
           "inside",    \* ExAcquireFastMutexUnsafe has returned
           "disowned",  \* Owner cleared, Count still 0
           "freed",     \* Count is 1 again, about to read Contention
           "signal"}    \* saw Contention > 0, about to set the event

\* The points between the winning exchange and the one that gives Count back.
Critical == {"won", "claim", "inside", "disowned"}

\* The points at which a thread's increment of Contention is outstanding.
Contending == {"exchange", "wait", "asleep", "won"}

At(points) == {t \in Threads : pc[t] \in points}

Goto(t, point) == pc' = [pc EXCEPT ![t] = point]
-------------------------------------------------------------------------------
\* ExInitializeFastMutex
Init ==
  /\ Count = 1 /\ Contention = 0 /\ Owner = NoThread
  /\ signaled = FALSE /\ sleepers = << >>
  /\ pc = [t \in Threads |-> "out"]

StartAcquire(t) ==
  /\ pc[t] = "out" /\ Goto(t, "exchange")
  /\ Contention' = Contention + 1
  /\ UNCHANGED <<Count, Owner, signaled, sleepers>>

\* Mutated form: the exchange is split, its result is not looked at.
UntestedExchange(t) ==
  /\ pc[t] = "exchange"
  /\ Goto(t, "won")
  /\ Count' = 0
  /\ UNCHANGED <<Contention, Owner, signaled, sleepers>>

Exchange(t) ==
  /\ pc[t] = "exchange"
  /\ Goto(t, IF Count = 0 THEN "wait" ELSE "won")
  /\ Count' = 0
  /\ UNCHANGED <<Contention, Owner, signaled, sleepers>>

\* KeWaitForSingleObject on the event: a signal left behind is consumed at
\* once, otherwise the thread goes to the tail of the wait list.
WaitForEvent(t) ==
  /\ pc[t] = "wait"
  /\ IF signaled
       THEN Goto(t, "exchange") /\ UNCHANGED sleepers
       ELSE Goto(t, "asleep") /\ sleepers' = Append(sleepers, t)
  /\ signaled' = FALSE
  /\ UNCHANGED <<Count, Contention, Owner>>

GiveContentionBack(t) ==
  /\ pc[t] = "won" /\ Goto(t, "claim")
  /\ Contention' = Contention - 1
  /\ UNCHANGED <<Count, Owner, signaled, sleepers>>

Claim(t) ==
  /\ pc[t] = "claim" /\ Goto(t, "inside")
  /\ Owner' = t
  /\ UNCHANGED <<Count, Contention, signaled, sleepers>>

StartRelease(t) ==
  /\ pc[t] = "inside" /\ Goto(t, "disowned")
  /\ Owner' = NoThread
  /\ UNCHANGED <<Count, Contention, signaled, sleepers>>

FreeCount(t) ==
  /\ pc[t] = "disowned" /\ Goto(t, "freed")
  /\ Count' = 1
  /\ UNCHANGED <<Contention, Owner, signaled, sleepers>>

\* Mutated form: the releaser takes itself for one of the contenders.
OffByOneTestContention(t) ==
  /\ pc[t] = "freed"
  /\ Goto(t, IF Contention > 1 THEN "signal" ELSE "out")
  /\ UNCHANGED <<Count, Contention, Owner, signaled, sleepers>>

TestContention(t) ==
  /\ pc[t] = "freed"
  /\ Goto(t, IF Contention > 0 THEN "signal" ELSE "out")
  /\ UNCHANGED <<Count, Contention, Owner, signaled, sleepers>>

\* KeSetEvent on a synchronization event whose waiters wait on it alone: the
\* oldest waiter is released, or the signal is kept when there is none.
SetEvent(t) ==
  /\ pc[t] = "signal"
  /\ IF sleepers = << >>
       THEN signaled' = TRUE /\ Goto(t, "out") /\ UNCHANGED sleepers
       ELSE /\ pc' = [pc EXCEPT ![t] = "out", ![Head(sleepers)] = "exchange"]
            /\ sleepers' = Tail(sleepers)
            /\ UNCHANGED signaled
  /\ UNCHANGED <<Count, Contention, Owner>>

ExAcquireFastMutexUnsafe(t) ==
  StartAcquire(t) \/ Exchange(t) \/ WaitForEvent(t) \/ GiveContentionBack(t)
    \/ Claim(t)

ExReleaseFastMutexUnsafe(t) ==
  StartRelease(t) \/ FreeCount(t) \/ TestContention(t) \/ SetEvent(t)

Next == \E t \in Threads :
          ExAcquireFastMutexUnsafe(t) \/ ExReleaseFastMutexUnsafe(t)

Spec == Init /\ [][Next]_vars

\* The scheduler runs every ready thread again and again, and a thread that
\* holds the mutex releases it; nothing makes a thread start acquiring.
Fairness ==
  \A t \in Threads : WF_vars(/\ pc[t] # "out"
                             /\ \/ ExAcquireFastMutexUnsafe(t)
                                \/ ExReleaseFastMutexUnsafe(t))

FairSpec == Spec /\ Fairness
-------------------------------------------------------------------------------
TypeOK ==
  /\ Count \in {0, 1}
  /\ Contention \in Nat
  /\ Owner \in Threads \union {NoThread}
  /\ signaled \in BOOLEAN
  /\ sleepers \in Seq(Threads)
  /\ pc \in [Threads -> Points]

\* What the fast mutex is for: of all threads, one at most is between the
\* exchange that took Count and the one that gives it back, however the
\* exchanges, the waits and the wake-ups interleave.
MutualExclusion ==
  \A t, u \in Threads : pc[t] \in Critical /\ pc[u] \in Critical => t = u

\* The ASSERTs on Owner at the entry of both functions cannot fire: a thread
\* that holds the mutex finds itself in Owner although it is stored after the
\* exchange and cleared before Count, and a thread outside never does.
OwnerAssertions ==
  \A t \in Threads : /\ pc[t] = "inside" => Owner = t
                     /\ pc[t] = "out" => Owner # t

\* Every increment of Contention is matched: it counts exactly the threads
\* between the top of the acquire loop and the decrement below it, so the
\* releaser's unlocked test of it is never off.
ContentionCounts == Contention = Cardinality(At(Contending))

\* No lost wake-up: while the mutex is free and a thread sleeps on the event,
\* some other thread is awake that will take the mutex (and release it again)
\* or is on its way to set the event.
NoStrandedSleeper ==
  sleepers # << >> /\ Count = 1 =>
    \E t \in Threads : pc[t] \in {"exchange", "freed", "signal"}

\* The mutex implements the abstract lock: a thread asks when it bumps
\* Contention, is granted the lock by the exchange it wins and gives it up
\* when it stores 1 to Count.  Under FairSpec this includes that a free lock
\* somebody asks for is granted.
wanting == At({"exchange", "wait", "asleep"})
holder  == IF At(Critical) = {} THEN NoThread
           ELSE CHOOSE t \in At(Critical) : TRUE

Abstract == INSTANCE Lock

ImplementsLock == Abstract!Spec
===============================================================================
