-------------------------- MODULE KeDispatcherProofs --------------------------
(***************************************************************************)
(* For any number of threads and objects: wait lists and threads agree, no  *)
(* signal is missed and none ends two waits that take it, the records of a *)
(* mutant's ownership agree, and a thread that ends leaves nothing behind. *)
(***************************************************************************)
EXTENDS KeDispatcher, ListLemmas

\* Linking a wait block adds its thread at the end.
LEMMA LinkAdds ==
  ASSUME NEW S, NEW list \in Seq(S), NEW t \in S, NoDuplicates(list), t \notin Members(list)
  PROVE  /\ Link(list, t) \in Seq(S)
         /\ NoDuplicates(Link(list, t))
         /\ Members(Link(list, t)) = Members(list) \union {t}
BY AppendAdds DEF Link
-------------------------------------------------------------------------------
\* Only the walk of a pulsed event is a pulse.
PulseWalksEvent == pulsing => walk \in Events

\* A thread that has begun to terminate has no timer running.
NoTimerAfterLife ==
  \A t \in Threads : state[t] \in {"Terminating", "Terminated"} => ~timerInserted[t]

\* Inductive together: NoMissedSignal needs MutantRecordsAgree (a released mutant
\* that stays taken is not signaled), that needs PulseWalksEvent (a mutant is never
\* cleared), and TerminatedLeavesNothing needs the lists, the mutants and the timers.
IInv == /\ TypeOK
        /\ WaitListsMatchThreads
        /\ NoMissedSignal
        /\ MutantRecordsAgree
        /\ TerminatedLeavesNothing
        /\ PulseWalksEvent
        /\ NoTimerAfterLife

LEMMA RequestObjects ==
  ASSUME NEW w \in Requests \union {NoRequest}
  PROVE  /\ w.objects \in Seq(Objects)
         /\ Members(w.objects) \subseteq Objects
         /\ w \in Requests => w.mode \in Modes /\ w.type \in {"WaitAny", "WaitAll", "Delay"}
<1>1. w.objects \in Seq(Objects)
  <2>1. w \in Requests => w.objects \in Seq(Objects)
    BY RequestsAssumption DEF WaitRequest
  <2>2. NoRequest.objects = << >> /\ << >> \in Seq(Objects)
    BY EmptySeq DEF NoRequest
  <2> QED
    BY <2>1, <2>2
<1>2. w \in Requests => w.mode \in Modes /\ w.type \in {"WaitAny", "WaitAll", "Delay"}
  BY RequestsAssumption DEF WaitRequest
<1> QED
  BY <1>1, <1>2 DEF Members

LEMMA BlocksAreObjects ==
  ASSUME NEW w \in Requests \union {NoRequest}, NEW o \in Members(w.objects)
  PROVE  BlocksFrom(o, w) \subseteq Members(w.objects)
<1>1. w.objects \in Seq(Objects)
  BY RequestObjects
<1>2. \E i \in DOMAIN w.objects : w.objects[i] = o
  BY DEF Members
<1> DEFINE at == CHOOSE i \in DOMAIN w.objects : w.objects[i] = o
<1>3. at \in DOMAIN w.objects
  BY <1>2
<1>4. DOMAIN w.objects = 1 .. Len(w.objects) /\ Len(w.objects) \in Nat
  BY <1>1
<1> HIDE DEF at
<1>5. at .. Len(w.objects) \subseteq DOMAIN w.objects
  BY <1>3, <1>4
<1> QED
  BY <1>5 DEF BlocksFrom, Members, at

\* Ending the wait of a blocked thread: its blocks leave every list, nothing of
\* the other threads changes.
LEMMA Aborting ==
  ASSUME TypeOK, WaitListsMatchThreads, NEW t \in Threads, state[t] = "Blocked",
         NEW status \in Statuses, KiAbortWaitThread(t, status)
  PROVE  /\ waitListHead' \in [Objects -> Seq(Threads)]
         /\ state' \in [Threads -> ThreadStates]
         /\ request' \in [Threads -> Requests \union {NoRequest}]
         /\ waitStatus' \in [Threads -> Statuses]
         /\ timerInserted' \in [Threads -> BOOLEAN]
         /\ WaitListsMatchThreads'
         /\ \A o \in Objects : Members(waitListHead'[o]) = Members(waitListHead[o]) \ {t}
         /\ state'[t] = "Ready" /\ ~timerInserted'[t]
         /\ \A u \in Threads \ {t} : /\ state'[u] = state[u] /\ request'[u] = request[u]
                                     /\ timerInserted'[u] = timerInserted[u]
<1>1. \A o \in Objects : waitListHead[o] \in Seq(Threads) /\ NoDuplicates(waitListHead[o])
  BY DEF TypeOK, WaitListsMatchThreads, NoDuplicates
<1>2. \A o \in Objects : /\ waitListHead'[o] = Unlink(waitListHead[o], t)
                         /\ waitListHead'[o] \in Seq(Threads)
                         /\ NoDuplicates(waitListHead'[o])
                         /\ Members(waitListHead'[o]) = Members(waitListHead[o]) \ {t}
  BY <1>1, UnlinkRemoves DEF KiAbortWaitThread, RemoveWaitBlocks
<1>3. waitListHead' \in [Objects -> Seq(Threads)]
  BY <1>2 DEF KiAbortWaitThread, RemoveWaitBlocks
<1>4. /\ state' = [state EXCEPT ![t] = "Ready"] /\ state' \in [Threads -> ThreadStates]
      /\ timerInserted' = [timerInserted EXCEPT ![t] = FALSE]
      /\ waitStatus' \in [Threads -> Statuses]
  BY DEF KiAbortWaitThread, TypeOK, ThreadStates
<1>5. timerInserted' \in [Threads -> BOOLEAN] /\ ~timerInserted'[t]
  BY <1>4 DEF TypeOK
<1>6. /\ request' \in [Threads -> Requests \union {NoRequest}]
      /\ \A u \in Threads \ {t} : request'[u] = request[u]
  BY DEF KiAbortWaitThread, TypeOK
<1>7. \A u \in Threads \ {t} : state'[u] = state[u] /\ timerInserted'[u] = timerInserted[u]
  BY <1>4 DEF TypeOK
<1>8. state'[t] = "Ready"
  BY <1>4 DEF TypeOK
<1>9. WaitListsMatchThreads'
  <2>1. ASSUME NEW o \in Objects, NEW u \in Threads
        PROVE  u \in Members(waitListHead'[o]) <=>
                 state'[u] = "Blocked" /\ o \in Members(request'[u].objects)
    <3>1. u \in Members(waitListHead[o]) <=> state[u] = "Blocked" /\ o \in Members(request[u].objects)
      BY Zenon DEF WaitListsMatchThreads, WaitsFor
    <3>2. CASE u = t
      BY <1>2, <1>8, <3>2
    <3>3. CASE u # t
      BY <1>2, <1>6, <1>7, <3>1, <3>3
    <3> QED
      BY <3>2, <3>3
  <2> QED
    BY <1>2, <2>1 DEF WaitListsMatchThreads, NoDuplicates, WaitsFor
<1> QED
  BY <1>2, <1>3, <1>4, <1>5, <1>6, <1>7, <1>8, <1>9

\* Satisfying objects for a thread only counts them down, hands it free mutants,
\* and keeps the records of every mutant.
LEMMA Satisfying ==
  ASSUME TypeOK, MutantRecordsAgree, NEW objects \in SUBSET Objects, NEW t \in Threads,
         KiSatisfyObjectWaits(objects, t)
  PROVE  /\ signalState' \in [Objects -> Int]
         /\ \A o \in Events \union Threads : signalState'[o] \in {0, 1}
         /\ \A o \in Threads : signalState'[o] = signalState[o]
         /\ \A o \in Objects : signalState'[o] <= signalState[o]
         /\ ownerThread' \in [Mutants -> Threads \union {NoThread}]
         /\ mutantList' \in [Mutants -> Threads \union {NoThread}]
         /\ abandoned' \in [Mutants -> BOOLEAN]
         /\ \A m \in Mutants : ownerThread'[m] = ownerThread[m]
                                 \/ (ownerThread[m] = NoThread /\ ownerThread'[m] = t)
         /\ MutantRecordsAgree'
<1>1. /\ signalState' = [o \in Objects |-> IF o \in objects THEN SatisfiedState(o)
                                           ELSE signalState[o]]
      /\ signalState \in [Objects -> Int]
  BY DEF KiSatisfyObjectWaits, TypeOK
<1>2. \A o \in Objects : /\ SatisfiedState(o) \in Int
                         /\ o \in Events \union Threads => SatisfiedState(o) \in {0, 1}
                         /\ o \in Threads => SatisfiedState(o) = signalState[o]
                         /\ SatisfiedState(o) <= signalState[o]
  BY <1>1, ObjectsAssumption DEF SatisfiedState, TypeOK, Objects, Events
<1>3. /\ signalState' \in [Objects -> Int]
      /\ \A o \in Objects : signalState'[o] <= signalState[o]
  BY <1>1, <1>2
<1>4. \A o \in Events \union Threads : signalState'[o] \in {0, 1}
  BY <1>1, <1>2 DEF TypeOK, Objects
<1>5. \A o \in Threads : signalState'[o] = signalState[o]
  BY <1>1, <1>2 DEF Objects
<1> DEFINE taken == {m \in objects \intersect Mutants : signalState[m] = 1}
<1>6. \A m \in Mutants : /\ ownerThread'[m] = IF m \in taken THEN t ELSE ownerThread[m]
                         /\ mutantList'[m] = IF m \in taken THEN t ELSE mutantList[m]
                         /\ abandoned'[m] = (m \notin taken /\ abandoned[m])
  BY DEF KiSatisfyObjectWaits
<1>7. /\ ownerThread' \in [Mutants -> Threads \union {NoThread}]
      /\ mutantList' \in [Mutants -> Threads \union {NoThread}]
      /\ abandoned' \in [Mutants -> BOOLEAN]
  BY DEF KiSatisfyObjectWaits, TypeOK
<1>8. ASSUME NEW m \in Mutants
      PROVE  /\ signalState'[m] = IF m \in objects THEN signalState[m] - 1 ELSE signalState[m]
             /\ signalState[m] \in Int
  BY <1>1, <1>8 DEF SatisfiedState, Objects
<1>9. \A m \in Mutants : ownerThread'[m] = ownerThread[m]
                           \/ (ownerThread[m] = NoThread /\ ownerThread'[m] = t)
  BY <1>6 DEF MutantRecordsAgree
<1>10. ASSUME NEW m \in Mutants
       PROVE  /\ signalState'[m] <= 0 <=> ownerThread'[m] # NoThread
              /\ mutantList'[m] = ownerThread'[m]
              /\ signalState'[m] <= 1
              /\ abandoned'[m] => signalState'[m] = 1
  <2>1. /\ signalState[m] <= 0 <=> ownerThread[m] # NoThread
        /\ mutantList[m] = ownerThread[m] /\ signalState[m] <= 1
        /\ abandoned[m] => signalState[m] = 1
    BY DEF MutantRecordsAgree
  <2>2. t # NoThread
    BY ObjectsAssumption
  <2>3. /\ signalState'[m] <= 0 <=> ownerThread'[m] # NoThread
        /\ mutantList'[m] = ownerThread'[m]
        /\ signalState'[m] <= 1
    BY <1>6, <1>8, <2>1, <2>2
  <2>4. abandoned'[m] => m \notin taken /\ abandoned[m]
    BY <1>6, Zenon
  <2>5. abandoned'[m] => signalState'[m] = 1
    BY <1>8, <2>1, <2>4
  <2> QED
    BY <2>3, <2>5
<1>11. MutantRecordsAgree'
  BY <1>10 DEF MutantRecordsAgree
<1> QED
  BY <1>3, <1>4, <1>5, <1>7, <1>9, <1>11

LEMMA InitIInv == Init => IInv
<1> SUFFICES ASSUME Init PROVE IInv
  OBVIOUS
<1> USE DEF Init
<1>1. /\ signalState \in [Objects -> Int]
      /\ \A o \in Events \union Threads : signalState[o] \in {0, 1}
      /\ \A m \in Mutants : signalState[m] = IF ownerThread[m] = NoThread THEN 1 ELSE 0
  BY ObjectsAssumption, NumbersAssumption DEF Objects, Events
<1>2. waitListHead \in [Objects -> Seq(Threads)] /\ \A o \in Objects : Members(waitListHead[o]) = {}
  BY EmptySeq DEF Members
<1>3. TypeOK
  BY <1>1, <1>2 DEF TypeOK, ThreadStates, Statuses
<1>4. WaitListsMatchThreads
  BY <1>2 DEF WaitListsMatchThreads, Members
<1>5. NoMissedSignal
  BY <1>2 DEF NoMissedSignal
<1>6. MutantRecordsAgree
  <2>1. \A m \in Mutants : ~abandoned[m] /\ mutantList[m] = ownerThread[m]
    BY Zenon
  <2>2. \A m \in Mutants : signalState[m] <= 1 /\ (signalState[m] <= 0 <=> ownerThread[m] # NoThread)
    <3> HIDE DEF Init
    <3> QED
      BY <1>1
  <2> QED
    BY <2>1, <2>2, Zenon DEF MutantRecordsAgree
<1>7. TerminatedLeavesNothing /\ PulseWalksEvent /\ NoTimerAfterLife
  BY DEF TerminatedLeavesNothing, PulseWalksEvent, NoTimerAfterLife
<1> QED
  BY <1>3, <1>4, <1>5, <1>6, <1>7 DEF IInv

\* After a thread's wait has been ended, what the lists and the threads say still
\* holds; signals, mutants and the lock are as they were for this purpose if no
\* signal has gone up.
LEMMA AbortingKeeps ==
  ASSUME IInv, NEW t \in Threads, state[t] = "Blocked", NEW status \in Statuses,
         KiAbortWaitThread(t, status), UNCHANGED walk,
         \A o \in Objects : signalState'[o] <= signalState[o],
         signalState' \in [Objects -> Int]
  PROVE  NoMissedSignal' /\ NoTimerAfterLife'
<1> USE DEF IInv
<1>1. /\ \A o \in Objects : Members(waitListHead'[o]) = Members(waitListHead[o]) \ {t}
      /\ state'[t] = "Ready" /\ ~timerInserted'[t]
      /\ \A u \in Threads \ {t} : /\ state'[u] = state[u] /\ request'[u] = request[u]
                                  /\ timerInserted'[u] = timerInserted[u]
  BY Aborting
<1>2. \A o \in Objects : Members(waitListHead[o]) \subseteq Threads
  BY DEF TypeOK, Members
<1>3. NoMissedSignal'
  <2> SUFFICES ASSUME NEW o \in Objects \ {walk}, signalState'[o] > 0,
                      NEW u \in Members(waitListHead'[o])
               PROVE  request'[u].type # "WaitAny"
    BY DEF NoMissedSignal
  <2>1. signalState[o] > 0
    BY DEF TypeOK
  <2>2. u \in Members(waitListHead[o]) /\ u \in Threads \ {t}
    BY <1>1, <1>2
  <2> QED
    BY <1>1, <2>1, <2>2 DEF NoMissedSignal
<1>4. NoTimerAfterLife'
  BY <1>1 DEF NoTimerAfterLife
<1> QED
  BY <1>3, <1>4

\* The same for TerminatedLeavesNothing: the thread whose wait ends lives.
LEMMA AbortingKeepsTerminated ==
  ASSUME IInv, NEW t \in Threads, state[t] = "Blocked", NEW status \in Statuses,
         KiAbortWaitThread(t, status),
         \A o \in Threads : signalState'[o] = signalState[o],
         \A m \in Mutants : ownerThread'[m] \in {ownerThread[m], t}
  PROVE  TerminatedLeavesNothing'
<1> USE DEF IInv
<1>1. /\ \A o \in Objects : Members(waitListHead'[o]) = Members(waitListHead[o]) \ {t}
      /\ state'[t] = "Ready" /\ ~timerInserted'[t]
      /\ \A u \in Threads \ {t} : /\ state'[u] = state[u] /\ request'[u] = request[u]
                                  /\ timerInserted'[u] = timerInserted[u]
  BY Aborting
<1> SUFFICES ASSUME NEW u \in Threads, state'[u] = "Terminated"
             PROVE  /\ \A m \in Mutants : ownerThread'[m] # u
                    /\ \A o \in Objects : u \notin Members(waitListHead'[o])
                    /\ ~timerInserted'[u] /\ signalState'[u] = 1
  BY DEF TerminatedLeavesNothing
<1>2. u # t /\ state[u] = "Terminated"
  BY <1>1
<1>3. /\ \A m \in Mutants : ownerThread[m] # u
      /\ \A o \in Objects : u \notin Members(waitListHead[o])
      /\ ~timerInserted[u] /\ signalState[u] = 1
  BY <1>2 DEF TerminatedLeavesNothing
<1>4. ~timerInserted'[u]
  BY <1>1, <1>2, <1>3, Zenon
<1> QED
  BY <1>1, <1>2, <1>3, <1>4

LEMMA WalkKeeps == IInv /\ KiWaitTest => IInv'
<1> SUFFICES ASSUME IInv, KiWaitTest PROVE IInv'
  OBVIOUS
<1> USE DEF IInv, objectVars, mutantVars, threadVars, noticeVars, lockVars
<1>1. CASE KiWaitTestStep
  <2> DEFINE t == Head(waitListHead[walk])
             objects == IF request[t].type = "WaitAll"
                          THEN BlocksFrom(walk, request[t]) ELSE {walk}
  <2>1. /\ walk \in Objects /\ waitListHead[walk] # << >>
        /\ KiSatisfyObjectWaits(objects, t) /\ KiAbortWaitThread(t, "wait_0")
        /\ UNCHANGED <<alerted, kernelApcPending, walk, pulsing, lockedBy>>
    BY <1>1 DEF KiWaitTestStep, WalkGoesOn, TypeOK
  <2>2. waitListHead[walk] \in Seq(Threads)
    BY <2>1 DEF TypeOK
  <2>3. t \in Threads /\ t \in Members(waitListHead[walk])
    BY <2>1, <2>2, HeadIsMember
  <2>4. state[t] = "Blocked" /\ walk \in Members(request[t].objects)
    BY <2>1, <2>3 DEF WaitListsMatchThreads, WaitsFor
  <2>5. request[t] \in Requests \union {NoRequest}
    BY <2>3 DEF TypeOK
  <2>6. BlocksFrom(walk, request[t]) \subseteq Members(request[t].objects)
    BY <2>4, <2>5, BlocksAreObjects
  <2>7. objects \in SUBSET Objects
    BY <2>1, <2>5, <2>6, RequestObjects
  <2> HIDE DEF t, objects
  <2>8. "wait_0" \in Statuses
    BY DEF Statuses
  <2>9. TypeOK' /\ WaitListsMatchThreads'
    BY <2>1, <2>3, <2>4, <2>7, <2>8, Satisfying, Aborting DEF TypeOK
  <2>10. MutantRecordsAgree'
    BY <2>1, <2>3, <2>7, Satisfying
  <2>11. NoMissedSignal' /\ NoTimerAfterLife'
    <3>1. /\ \A o \in Objects : signalState'[o] <= signalState[o]
          /\ signalState' \in [Objects -> Int]
      BY <2>1, <2>3, <2>7, Satisfying
    <3> QED
      BY <2>1, <2>3, <2>4, <2>8, <3>1, AbortingKeeps
  <2>12. TerminatedLeavesNothing'
    <3>1. /\ \A o \in Threads : signalState'[o] = signalState[o]
          /\ \A m \in Mutants : ownerThread'[m] \in {ownerThread[m], t}
      BY <2>1, <2>3, <2>7, Satisfying
    <3> QED
      BY <2>3, <2>1, <2>4, <2>8, <3>1, AbortingKeepsTerminated
  <2>13. PulseWalksEvent'
    BY <2>1 DEF PulseWalksEvent
  <2> QED
    BY <2>9, <2>10, <2>11, <2>12, <2>13
<1>2. CASE KiWaitTestEnd
  <2>1. /\ walk \in Objects
        /\ waitListHead[walk] = << >> \/ signalState[walk] <= 0
        /\ walk' = NoObject
        /\ UNCHANGED <<waitListHead, ownerThread, mutantList, abandoned, state, request,
                       waitStatus, timerInserted, alerted, kernelApcPending, lockedBy>>
    BY <1>2 DEF KiWaitTestEnd, WalkGoesOn, TypeOK
  <2>a. pulsing' = FALSE
    BY <1>2 DEF KiWaitTestEnd
  <2>2. /\ pulsing => signalState' = [signalState EXCEPT ![walk] = 0] /\ walk \in Events
        /\ ~pulsing => signalState' = signalState
    BY <1>2 DEF KiWaitTestEnd, PulseWalksEvent
  <2>3. /\ signalState' \in [Objects -> Int]
        /\ \A o \in Events \union Threads : signalState'[o] \in {0, 1}
    <3>1. CASE pulsing
      <4>1. signalState \in [Objects -> Int] /\ signalState' = [signalState EXCEPT ![walk] = 0]
        BY <2>2, <3>1 DEF TypeOK
      <4>2. signalState' \in [Objects -> Int]
        BY <2>1, <4>1
      <4>3. \A o \in Events \union Threads : signalState'[o] \in {0, 1}
        BY <4>1 DEF TypeOK, Objects
      <4> QED
        BY <4>2, <4>3
    <3>2. CASE ~pulsing
      BY <2>2, <3>2 DEF TypeOK
    <3> QED
      BY <3>1, <3>2
  <2>4. TypeOK'
    BY <2>1, <2>3, <2>a DEF TypeOK
  <2>5. WaitListsMatchThreads' /\ PulseWalksEvent' /\ NoTimerAfterLife'
    BY <2>1, <2>a DEF WaitListsMatchThreads, WaitsFor, PulseWalksEvent, NoTimerAfterLife
  <2>6. \A o \in Objects : o \notin Events => signalState'[o] = signalState[o]
    BY <2>1, <2>2 DEF TypeOK
  <2>7. MutantRecordsAgree'
    <3>1. \A m \in Mutants : signalState'[m] = signalState[m]
      BY <2>6, ObjectsAssumption DEF Objects
    <3> QED
      BY <2>1, <3>1 DEF MutantRecordsAgree
  <2>8. TerminatedLeavesNothing'
    <3>1. \A t \in Threads : signalState'[t] = signalState[t]
      BY <2>6, ObjectsAssumption DEF Objects, Events
    <3> QED
      BY <2>1, <3>1 DEF TerminatedLeavesNothing
  <2>9. NoMissedSignal'
    <3> SUFFICES ASSUME NEW o \in Objects, signalState'[o] > 0,
                        NEW u \in Members(waitListHead[o])
                 PROVE  request[u].type # "WaitAny"
      BY <2>1 DEF NoMissedSignal
    <3>1. CASE pulsing
      <4>1. o # walk /\ signalState[o] > 0
        BY <2>1, <2>2, <3>1 DEF TypeOK
      <4> QED
        BY <4>1 DEF NoMissedSignal
    <3>2. CASE ~pulsing
      <4>1. o # walk /\ signalState[o] > 0
        <5>1. signalState[o] \in Int /\ signalState[o] > 0
          BY <2>2, <3>2 DEF TypeOK
        <5> QED
          BY <2>1, <5>1, EmptyHasNone
      <4> QED
        BY <4>1 DEF NoMissedSignal
    <3> QED
      BY <3>1, <3>2
  <2> QED
    BY <2>4, <2>5, <2>7, <2>8, <2>9
<1> QED
  BY <1>1, <1>2 DEF KiWaitTest

\* An operation that sets signals only, of events and semaphores, and hands the
\* object on to a walk if it leaves it signaled with waiters.
LEMMA SignalingKeeps ==
  ASSUME IInv,
         UNCHANGED <<waitListHead, ownerThread, mutantList, abandoned, state, request,
                     waitStatus, timerInserted, alerted, kernelApcPending>>,
         signalState' \in [Objects -> Int],
         \A o \in Events : signalState'[o] \in {0, 1},
         \A o \in Mutants \union Threads : signalState'[o] = signalState[o],
         walk' \in Objects \union {NoObject}, pulsing' \in BOOLEAN,
         lockedBy' \in Threads \union {NoThread}, PulseWalksEvent',
         \A o \in Objects \ {walk'} : signalState'[o] > 0 =>
           waitListHead[o] = << >> \/ (o # walk /\ signalState[o] > 0)
  PROVE  IInv'
<1> USE DEF IInv
<1>1. TypeOK'
  <2>1. \A o \in Events \union Threads : signalState'[o] \in {0, 1}
    BY DEF TypeOK
  <2> QED
    BY <2>1 DEF TypeOK
<1>2. WaitListsMatchThreads' /\ NoTimerAfterLife'
  BY DEF WaitListsMatchThreads, WaitsFor, NoTimerAfterLife
<1>3. MutantRecordsAgree'
  BY DEF MutantRecordsAgree
<1>4. TerminatedLeavesNothing'
  BY DEF TerminatedLeavesNothing
<1>5. NoMissedSignal'
  BY EmptyHasNone DEF NoMissedSignal
<1> QED
  BY <1>1, <1>2, <1>3, <1>4, <1>5

\* An operation that only ends the wait of a thread.
LEMMA WakingKeeps ==
  ASSUME IInv, NEW t \in Threads, state[t] = "Blocked", NEW status \in Statuses,
         KiAbortWaitThread(t, status),
         UNCHANGED <<signalState, ownerThread, mutantList, abandoned, alerted, walk, pulsing>>,
         kernelApcPending' \in [Threads -> BOOLEAN], lockedBy' \in Threads \union {NoThread}
  PROVE  IInv'
<1> USE DEF IInv
<1>1. TypeOK' /\ WaitListsMatchThreads'
  BY Aborting DEF TypeOK
<1>2. \A o \in Objects : signalState'[o] <= signalState[o]
  BY DEF TypeOK
<1>3. signalState' \in [Objects -> Int]
  BY DEF TypeOK
<1>4. NoMissedSignal' /\ NoTimerAfterLife'
  BY <1>2, <1>3, AbortingKeeps
<1>5. TerminatedLeavesNothing'
  BY AbortingKeepsTerminated
<1>6. MutantRecordsAgree' /\ PulseWalksEvent'
  BY DEF MutantRecordsAgree, PulseWalksEvent
<1> QED
  BY <1>1, <1>4, <1>5, <1>6

\* The oldest waiter of a list sleeps.
LEMMA WaiterSleeps ==
  ASSUME IInv, NEW o \in Objects, waitListHead[o] # << >>
  PROVE  Head(waitListHead[o]) \in Threads /\ state[Head(waitListHead[o])] = "Blocked"
<1>1. waitListHead[o] \in Seq(Threads)
  BY DEF IInv, TypeOK
<1>2. Head(waitListHead[o]) \in Threads /\ Head(waitListHead[o]) \in Members(waitListHead[o])
  BY <1>1, HeadIsMember
<1> QED
  BY <1>2 DEF IInv, WaitListsMatchThreads

LEMMA EventsKeep == IInv /\ SignalEvent => IInv'
<1> SUFFICES ASSUME IInv, SignalEvent PROVE IInv'
  OBVIOUS
<1> USE DEF objectVars, mutantVars, threadVars, noticeVars, lockVars, LockFree, KeepLockFor
<1>0. /\ signalState \in [Objects -> Int] /\ \A o \in Events : signalState[o] \in {0, 1}
      /\ pulsing \in BOOLEAN /\ walk \in Objects \union {NoObject}
      /\ lockedBy \in Threads \union {NoThread}
      /\ kernelApcPending \in [Threads -> BOOLEAN]
      /\ PulseWalksEvent /\ "wait_0" \in Statuses
  BY DEF IInv, TypeOK, Statuses
<1>1. PICK e \in Events : \/ \E next \in Threads \union {NoThread} : KeSetEvent(e, next) \/ KePulseEvent(e, next)
                          \/ KeResetEvent(e) \/ KeSetEventBoostPriority(e)
  BY DEF SignalEvent
<1>2. /\ e \in Objects /\ e \notin Mutants \union Threads /\ NoObject \notin Objects
      /\ \A v \in Int : /\ [signalState EXCEPT ![e] = v] \in [Objects -> Int]
                        /\ [signalState EXCEPT ![e] = v][e] = v
                        /\ \A o \in Objects \ {e} : [signalState EXCEPT ![e] = v][o] = signalState[o]
  BY <1>0, ObjectsAssumption DEF Objects, Events
<1>3. Mutants \union Threads \subseteq Objects \ {e} /\ Events \subseteq Objects
  BY <1>2 DEF Objects
<1>4. ASSUME NEW next \in Threads \union {NoThread}, KeSetEvent(e, next) PROVE IInv'
  <2>1. /\ walk = NoObject /\ lockedBy' = next
        /\ UNCHANGED <<ownerThread, mutantList, abandoned, alerted, kernelApcPending, pulsing>>
    BY <1>4 DEF KeSetEvent
  <2>2. CASE waitListHead[e] = << >>
    <3>1. /\ signalState' = [signalState EXCEPT ![e] = 1]
          /\ UNCHANGED <<waitListHead, state, request, waitStatus, timerInserted, walk>>
      BY <1>4, <2>2 DEF KeSetEvent
    <3> QED
      BY <1>0, <1>2, <1>3, <2>1, <2>2, <3>1, SignalingKeeps DEF PulseWalksEvent
  <2>3. CASE /\ waitListHead[e] # << >>
             /\ e \in NotificationEvents \/ request[Head(waitListHead[e])].type = "WaitAll"
    <3>1. UNCHANGED <<waitListHead, state, request, waitStatus, timerInserted>>
      BY <1>4, <2>3 DEF KeSetEvent
    <3>2. CASE signalState[e] = 0
      <4>1. signalState' = [signalState EXCEPT ![e] = 1] /\ walk' = e
        BY <1>4, <2>3, <3>2 DEF KeSetEvent
      <4> QED
        BY <1>0, <1>2, <1>3, <2>1, <3>1, <4>1, SignalingKeeps DEF PulseWalksEvent
    <3>3. CASE signalState[e] # 0
      <4>1. UNCHANGED <<signalState, walk>>
        BY <1>4, <2>3, <3>3 DEF KeSetEvent
      <4> QED
        BY <1>0, <1>2, <1>3, <2>1, <3>1, <4>1, SignalingKeeps DEF PulseWalksEvent
    <3> QED
      BY <3>2, <3>3
  <2>4. CASE /\ waitListHead[e] # << >>
             /\ ~(e \in NotificationEvents \/ request[Head(waitListHead[e])].type = "WaitAll")
    <3>1. KiAbortWaitThread(Head(waitListHead[e]), "wait_0") /\ UNCHANGED <<signalState, walk>>
      BY <1>4, <2>4 DEF KeSetEvent
    <3> QED
      BY <1>0, <1>2, <2>1, <2>4, <3>1, WaiterSleeps, WakingKeeps
  <2> QED
    BY <2>2, <2>3, <2>4
<1>5. ASSUME NEW next \in Threads \union {NoThread}, KePulseEvent(e, next) PROVE IInv'
  <2>1. /\ walk = NoObject /\ lockedBy' = next
        /\ UNCHANGED <<waitListHead, ownerThread, mutantList, abandoned, state, request,
                       waitStatus, timerInserted, alerted, kernelApcPending>>
    BY <1>5 DEF KePulseEvent
  <2>2. CASE signalState[e] = 0 /\ waitListHead[e] # << >>
    <3>1. signalState' = [signalState EXCEPT ![e] = 1] /\ walk' = e /\ pulsing' = TRUE
      BY <1>5, <2>2 DEF KePulseEvent
    <3> QED
      BY <1>0, <1>2, <1>3, <2>1, <3>1, SignalingKeeps DEF PulseWalksEvent
  <2>3. CASE ~(signalState[e] = 0 /\ waitListHead[e] # << >>)
    <3>1. signalState' = [signalState EXCEPT ![e] = 0] /\ UNCHANGED <<walk, pulsing>>
      BY <1>5, <2>3 DEF KePulseEvent
    <3>2. PulseWalksEvent' /\ signalState'[e] = 0 /\ signalState' \in [Objects -> Int]
      BY <1>0, <1>2, <2>1, <3>1 DEF PulseWalksEvent
    <3>3. \A o \in Objects \ {e} : signalState'[o] = signalState[o]
      BY <1>2, <3>1
    <3> QED
      BY <1>0, <1>2, <1>3, <2>1, <3>1, <3>2, <3>3, SignalingKeeps
  <2> QED
    BY <2>2, <2>3
<1>6. CASE KeResetEvent(e)
  <2>1. /\ walk = NoObject /\ signalState' = [signalState EXCEPT ![e] = 0]
        /\ UNCHANGED <<waitListHead, ownerThread, mutantList, abandoned, state, request,
                       waitStatus, timerInserted, alerted, kernelApcPending, walk, pulsing, lockedBy>>
    BY <1>6 DEF KeResetEvent
  <2> QED
    BY <1>0, <1>2, <1>3, <2>1, SignalingKeeps DEF PulseWalksEvent
<1>7. CASE KeSetEventBoostPriority(e)
  <2>1. /\ walk = NoObject
        /\ UNCHANGED <<ownerThread, mutantList, abandoned, alerted, kernelApcPending, walk, pulsing, lockedBy>>
    BY <1>7 DEF KeSetEventBoostPriority
  <2>2. CASE waitListHead[e] = << >>
    <3>1. /\ signalState' = [signalState EXCEPT ![e] = 1]
          /\ UNCHANGED <<waitListHead, state, request, waitStatus, timerInserted>>
      BY <1>7, <2>2 DEF KeSetEventBoostPriority
    <3> QED
      BY <1>0, <1>2, <1>3, <2>1, <2>2, <3>1, SignalingKeeps DEF PulseWalksEvent
  <2>3. CASE waitListHead[e] # << >>
    <3>1. KiAbortWaitThread(Head(waitListHead[e]), "wait_0") /\ UNCHANGED signalState
      BY <1>7, <2>3 DEF KeSetEventBoostPriority
    <3> QED
      BY <1>0, <1>2, <2>1, <2>3, <3>1, WaiterSleeps, WakingKeeps
  <2> QED
    BY <2>2, <2>3
<1> QED
  BY <1>1, <1>4, <1>5, <1>6, <1>7

LEMMA SemaphoresKeep == IInv /\ ReleaseSemaphore => IInv'
<1> SUFFICES ASSUME IInv, NEW s \in Semaphores, NEW n \in 1 .. Limit,
                    NEW next \in Threads \union {NoThread}, KeReleaseSemaphore(s, n, next)
             PROVE  IInv'
  BY DEF ReleaseSemaphore
<1>1. /\ s \in Objects /\ s \notin Mutants \union Threads \union Events /\ NoObject \notin Objects
      /\ Mutants \union Threads \union Events \subseteq Objects \ {s}
  BY ObjectsAssumption DEF Objects
<1>2. /\ walk = NoObject /\ lockedBy' = next /\ ~LimitExceeded(s, n)
      /\ signalState' = [signalState EXCEPT ![s] = @ + n]
      /\ walk' = IF signalState[s] = 0 /\ waitListHead[s] # << >> THEN s ELSE walk
      /\ UNCHANGED <<waitListHead, ownerThread, mutantList, abandoned, state, request,
                     waitStatus, timerInserted, alerted, kernelApcPending, pulsing>>
  BY DEF KeReleaseSemaphore, LockFree, KeepLockFor, mutantVars, threadVars, noticeVars
<1>3. /\ signalState \in [Objects -> Int] /\ \A o \in Events : signalState[o] \in {0, 1}
      /\ pulsing \in BOOLEAN /\ PulseWalksEvent
  BY DEF IInv, TypeOK
<1>4. n \in Nat \ {0} /\ signalState[s] \in Int
  BY <1>1, <1>3, NumbersAssumption
<1>5. /\ signalState' \in [Objects -> Int] /\ signalState'[s] = signalState[s] + n
      /\ \A o \in Objects \ {s} : signalState'[o] = signalState[o]
  BY <1>1, <1>2, <1>3, <1>4
<1>6. ~pulsing
  BY <1>1, <1>2, <1>3 DEF PulseWalksEvent, Objects
<1>7. PulseWalksEvent' /\ walk' \in Objects \union {NoObject}
  BY <1>1, <1>2, <1>6 DEF PulseWalksEvent
<1>8. signalState'[s] > 0 /\ walk' # s => waitListHead[s] = << >> \/ signalState[s] > 0
  BY <1>2, <1>4, <1>5 DEF LimitExceeded
<1>9. \A o \in Objects \ {walk'} : signalState'[o] > 0 =>
        waitListHead[o] = << >> \/ (o # walk /\ signalState[o] > 0)
  BY <1>1, <1>2, <1>5, <1>8
<1> QED
  BY <1>1, <1>2, <1>3, <1>5, <1>7, <1>9, SignalingKeeps

\* What is left of a release once the mutant's count is known: the owner's or the
\* terminating thread's own count, brought to 1 or still below it.
LEMMA ReleasingKeeps ==
  ASSUME IInv, NEW m \in Mutants, NEW count \in Int, count <= 1, walk = NoObject,
         ownerThread[m] # NoThread, MutantReleased(m, count),
         abandoned' \in [Mutants -> BOOLEAN],
         \A k \in Mutants : abandoned'[k] => abandoned[k] \/ (k = m /\ count = 1),
         lockedBy' \in Threads \union {NoThread}
  PROVE  IInv'
<1> USE DEF IInv
<1>1. /\ m \in Objects /\ m \notin Threads \union Events /\ NoObject \notin Objects
      /\ Threads \union Events \subseteq Objects \ {m} /\ Mutants \subseteq Objects
      /\ NoThread \notin Threads
  BY ObjectsAssumption DEF Objects
<1>2. /\ signalState' = [signalState EXCEPT ![m] = count]
      /\ UNCHANGED <<waitListHead, state, request, waitStatus, timerInserted, alerted,
                     kernelApcPending, pulsing>>
  BY DEF MutantReleased, threadVars, noticeVars
<1>3. /\ signalState[m] <= 0 /\ signalState \in [Objects -> Int]
      /\ ownerThread \in [Mutants -> Threads \union {NoThread}]
      /\ mutantList \in [Mutants -> Threads \union {NoThread}]
  BY DEF TypeOK, MutantRecordsAgree
<1>4. /\ signalState' \in [Objects -> Int] /\ signalState'[m] = count
      /\ \A o \in Objects \ {m} : signalState'[o] = signalState[o]
  BY <1>1, <1>2, <1>3
<1>5. ~pulsing
  BY <1>1 DEF PulseWalksEvent, Objects, TypeOK
<1>6. /\ count = 1 => /\ mutantList' = [mutantList EXCEPT ![m] = NoThread]
                      /\ ownerThread' = [ownerThread EXCEPT ![m] = NoThread]
                      /\ walk' = IF waitListHead[m] # << >> THEN m ELSE walk
      /\ count # 1 => UNCHANGED <<mutantList, ownerThread, walk>>
  BY <1>3 DEF MutantReleased, OnMutantList
<1>7. /\ ownerThread' \in [Mutants -> Threads \union {NoThread}]
      /\ mutantList' \in [Mutants -> Threads \union {NoThread}]
      /\ walk' \in Objects \union {NoObject}
      /\ \A k \in Mutants \ {m} : ownerThread'[k] = ownerThread[k] /\ mutantList'[k] = mutantList[k]
      /\ ownerThread'[m] = (IF count = 1 THEN NoThread ELSE ownerThread[m])
      /\ mutantList'[m] = (IF count = 1 THEN NoThread ELSE mutantList[m])
  BY <1>1, <1>3, <1>6
<1>8. TypeOK'
  <2>1. \A o \in Events \union Threads : signalState'[o] \in {0, 1}
    BY <1>1, <1>4 DEF TypeOK
  <2> QED
    BY <1>2, <1>4, <1>7, <2>1 DEF TypeOK
<1>9. WaitListsMatchThreads' /\ NoTimerAfterLife'
  BY <1>2 DEF WaitListsMatchThreads, WaitsFor, NoTimerAfterLife
<1>10. PulseWalksEvent'
  BY <1>2, <1>5 DEF PulseWalksEvent
<1>11. MutantRecordsAgree'
  <2>1. ASSUME NEW k \in Mutants
        PROVE  /\ signalState'[k] <= 0 <=> ownerThread'[k] # NoThread
               /\ mutantList'[k] = ownerThread'[k]
               /\ signalState'[k] <= 1
    <3>1. /\ signalState[k] <= 0 <=> ownerThread[k] # NoThread
          /\ mutantList[k] = ownerThread[k] /\ signalState[k] <= 1
      BY DEF MutantRecordsAgree
    <3> QED
      BY <1>1, <1>4, <1>7, <3>1
  <2>2. ASSUME NEW k \in Mutants, abandoned'[k]
        PROVE  signalState'[k] = 1
    <3>1. abandoned[k] \/ (k = m /\ count = 1)
      BY <2>2
    <3>2. CASE abandoned[k]
      BY <1>1, <1>3, <1>4, <3>2 DEF MutantRecordsAgree
    <3> QED
      BY <1>4, <3>1, <3>2
  <2> QED
    BY <2>1, <2>2 DEF MutantRecordsAgree
<1>12. TerminatedLeavesNothing'
  <2>1. \A t \in Threads : signalState'[t] = signalState[t]
    BY <1>1, <1>4
  <2>2. \A k \in Mutants : ownerThread'[k] \in {ownerThread[k], NoThread}
    BY <1>7
  <2> QED
    BY <1>1, <1>2, <2>1, <2>2 DEF TerminatedLeavesNothing
<1>13. NoMissedSignal'
  <2> SUFFICES ASSUME NEW o \in Objects \ {walk'}, signalState'[o] > 0,
                      NEW u \in Members(waitListHead[o])
               PROVE  request[u].type # "WaitAny"
    BY <1>2 DEF NoMissedSignal
  <2>1. CASE o = m
    <3>1. count = 1
      BY <1>4, <2>1
    <3> QED
      BY <1>6, <2>1, <3>1, EmptyHasNone
  <2>2. CASE o # m
    BY <1>1, <1>4, <2>2 DEF NoMissedSignal
  <2> QED
    BY <2>1, <2>2
<1> QED
  BY <1>8, <1>9, <1>10, <1>11, <1>12, <1>13

LEMMA MutantsKeep ==
  ASSUME IInv, NEW t \in Threads, NEW m \in Mutants
  PROVE  /\ \A next \in {t, NoThread} : KeReleaseMutant(t, m, next) => IInv'
         /\ AbandonMutant(t, m) => IInv'
<1>1. /\ t # NoThread /\ abandoned \in [Mutants -> BOOLEAN] /\ signalState[m] \in Int
      /\ lockedBy \in Threads \union {NoThread}
  BY ObjectsAssumption DEF IInv, TypeOK, Objects
<1>2. ASSUME NEW next \in {t, NoThread}, KeReleaseMutant(t, m, next) PROVE IInv'
  <2>1. /\ walk = NoObject /\ ownerThread[m] = t /\ lockedBy' = next
        /\ MutantReleased(m, signalState[m] + 1) /\ abandoned' = abandoned
    BY <1>2 DEF KeReleaseMutant, LockFree, KeepLockFor, ReleasedCount
  <2>2. signalState[m] + 1 \in Int /\ signalState[m] + 1 <= 1
    BY <1>1, <2>1 DEF IInv, MutantRecordsAgree
  <2> QED
    BY <1>1, <2>1, <2>2, ReleasingKeeps
<1>3. ASSUME AbandonMutant(t, m) PROVE IInv'
  <2>1. /\ walk = NoObject /\ mutantList[m] = t /\ lockedBy' = lockedBy
        /\ MutantReleased(m, 1) /\ abandoned' = [abandoned EXCEPT ![m] = TRUE]
    BY <1>3 DEF AbandonMutant, LockFree, MutantsOf
  <2>2. ownerThread[m] # NoThread
    BY <1>1, <2>1 DEF IInv, MutantRecordsAgree
  <2>3. abandoned' \in [Mutants -> BOOLEAN]
    BY <1>1, <2>1
  <2>4. \A k \in Mutants : abandoned'[k] => abandoned[k] \/ (k = m /\ 1 = 1)
    BY <1>1, <2>1
  <2> QED
    BY <1>1, <2>1, <2>2, <2>3, <2>4, ReleasingKeeps
<1> QED
  BY <1>2, <1>3

\* One round of the loop of a wait, for a thread that runs and owns the lock.
LEMMA WaitLoopKeeps ==
  ASSUME IInv, NEW t \in Threads, NEW w \in Requests, state[t] = "Ready", walk = NoObject,
         WaitLoop(t, w)
  PROVE  IInv'
<1> USE DEF IInv, objectVars, mutantVars
<1>1. /\ lockedBy' = NoThread /\ walk' = NoObject
      /\ UNCHANGED <<kernelApcPending, pulsing>>
      /\ w.objects \in Seq(Objects) /\ Members(w.objects) \subseteq Objects
      /\ w.mode \in Modes /\ w.type \in {"WaitAny", "WaitAll", "Delay"}
      /\ NoObject \notin Objects
  BY RequestObjects, ObjectsAssumption DEF WaitLoop
<1>2. /\ ~pulsing /\ PulseWalksEvent'
  BY <1>1 DEF PulseWalksEvent, Objects
<1>3. ASSUME Return(t, "wait_0") \/ Return(t, "timeout"), waitListHead' = waitListHead
      PROVE  /\ request' \in [Threads -> Requests \union {NoRequest}]
             /\ waitStatus' \in [Threads -> Statuses]
             /\ state' = state /\ WaitListsMatchThreads'
             /\ \A u \in Threads : state[u] = "Blocked" => request'[u] = request[u]
  <2>1. /\ request' = [request EXCEPT ![t] = NoRequest] /\ state' = state
        /\ waitStatus' = [waitStatus EXCEPT ![t] = "wait_0"]
             \/ waitStatus' = [waitStatus EXCEPT ![t] = "timeout"]
    BY <1>3 DEF Return
  <2>2. /\ request' \in [Threads -> Requests \union {NoRequest}]
        /\ waitStatus' \in [Threads -> Statuses]
    BY <2>1 DEF TypeOK, Statuses
  <2>3. \A u \in Threads : state[u] = "Blocked" => request'[u] = request[u]
    BY <2>1 DEF TypeOK
  <2> QED
    BY <1>3, <2>1, <2>2, <2>3 DEF WaitListsMatchThreads, WaitsFor
<1>4. CASE SatisfiedAtOnce(t, w)
  <2>1. /\ KiSatisfyObjectWaits(Takes(t, w), t) /\ Return(t, "wait_0")
        /\ UNCHANGED <<waitListHead, timerInserted, alerted>>
    BY <1>4 DEF SatisfiedAtOnce
  <2>2. Takes(t, w) \in SUBSET Objects
    BY <1>1 DEF Takes, Members
  <2>3. /\ TypeOK' /\ MutantRecordsAgree'
        /\ \A o \in Objects : signalState'[o] <= signalState[o]
        /\ \A o \in Threads : signalState'[o] = signalState[o]
        /\ \A m \in Mutants : ownerThread'[m] \in {ownerThread[m], t}
        /\ signalState' \in [Objects -> Int]
    BY <1>1, <1>3, <2>1, <2>2, Satisfying DEF TypeOK
  <2>4. WaitListsMatchThreads' /\ state' = state
    BY <1>3, <2>1
  <2>5. NoTimerAfterLife'
    BY <1>3, <2>1, <2>4 DEF NoTimerAfterLife
  <2>6. TerminatedLeavesNothing'
    BY <2>1, <2>3, <2>4 DEF TerminatedLeavesNothing
  <2>7. NoMissedSignal'
    <3> SUFFICES ASSUME NEW o \in Objects, signalState'[o] > 0,
                        NEW u \in Members(waitListHead[o])
                 PROVE  request'[u].type # "WaitAny"
      BY <2>1 DEF NoMissedSignal
    <3>1. signalState[o] > 0 /\ o # walk
      BY <1>1, <2>3 DEF TypeOK
    <3>2. u \in Threads /\ state[u] = "Blocked"
      BY DEF WaitListsMatchThreads, TypeOK, Members
    <3> QED
      BY <1>3, <2>1, <3>1, <3>2 DEF NoMissedSignal
  <2> QED
    BY <1>2, <2>3, <2>4, <2>5, <2>6, <2>7
<1>5. CASE RaisedLimit(t, w)
  <2>1. /\ request' = [request EXCEPT ![t] = NoRequest]
        /\ UNCHANGED <<signalState, waitListHead, ownerThread, mutantList, abandoned, state,
                       waitStatus, timerInserted, alerted>>
    BY <1>5 DEF RaisedLimit
  <2>2. /\ request' \in [Threads -> Requests \union {NoRequest}]
        /\ \A u \in Threads : state[u] = "Blocked" => request'[u] = request[u]
    BY <2>1 DEF TypeOK
  <2>3. TypeOK'
    BY <1>1, <2>1, <2>2 DEF TypeOK
  <2>4. WaitListsMatchThreads' /\ NoTimerAfterLife'
    BY <2>1, <2>2 DEF WaitListsMatchThreads, WaitsFor, NoTimerAfterLife
  <2>5. MutantRecordsAgree' /\ TerminatedLeavesNothing'
    BY <2>1 DEF MutantRecordsAgree, TerminatedLeavesNothing
  <2>6. NoMissedSignal'
    <3>1. \A o \in Objects : \A u \in Members(waitListHead[o]) : u \in Threads /\ state[u] = "Blocked"
      BY DEF WaitListsMatchThreads, TypeOK, Members
    <3> QED
      BY <1>1, <2>1, <2>2, <3>1 DEF NoMissedSignal
  <2> QED
    BY <1>2, <2>3, <2>4, <2>5, <2>6
<1>6. ASSUME KiCheckAlertability(t, w)
      PROVE  alerted' \in [Threads -> [Modes -> BOOLEAN]]
  <2>1. alerted \in [Threads -> [Modes -> BOOLEAN]]
    BY DEF TypeOK
  <2>2. \/ alerted' = alerted
        \/ alerted' = [alerted EXCEPT ![t][TestedMode(w)] = FALSE]
    BY <1>6 DEF KiCheckAlertability
  <2> QED
    BY <2>1, <2>2
<1>7. ASSUME KiInsertTimer(t, w)
      PROVE  /\ timerInserted' \in [Threads -> BOOLEAN]
             /\ \A u \in Threads \ {t} : timerInserted'[u] = timerInserted[u]
  <2>1. w.timeout \in {"none", "zero", "past", "later"}
    BY RequestsAssumption DEF WaitRequest
  <2>2. \/ timerInserted' = [timerInserted EXCEPT ![t] = TRUE]
        \/ timerInserted' = [timerInserted EXCEPT ![t] = FALSE]
        \/ timerInserted' = timerInserted
    BY <1>7, <2>1 DEF KiInsertTimer
  <2> QED
    BY <2>2 DEF TypeOK
<1>8. CASE TimedOutAtOnce(t, w)
  <2>1. /\ KiCheckAlertability(t, w) /\ KiInsertTimer(t, w) /\ Return(t, "timeout")
        /\ UNCHANGED <<signalState, waitListHead, ownerThread, mutantList, abandoned>>
    BY <1>8 DEF TimedOutAtOnce
  <2>2. TypeOK'
    BY <1>1, <1>3, <1>6, <1>7, <2>1 DEF TypeOK
  <2>3. WaitListsMatchThreads' /\ state' = state
    BY <1>3, <2>1
  <2>4. NoTimerAfterLife'
    BY <1>7, <2>1, <2>3 DEF NoTimerAfterLife
  <2>5. MutantRecordsAgree'
    BY <2>1 DEF MutantRecordsAgree
  <2>6. TerminatedLeavesNothing'
    <3>1. \A u \in Threads : state[u] = "Terminated" => u # t
      OBVIOUS
    <3> QED
      BY <1>7, <2>1, <2>3, <3>1 DEF TerminatedLeavesNothing
  <2>7. NoMissedSignal'
    <3>1. \A o \in Objects : \A u \in Members(waitListHead[o]) : u \in Threads /\ state[u] = "Blocked"
      BY DEF WaitListsMatchThreads, TypeOK, Members
    <3> QED
      BY <1>1, <1>3, <2>1, <3>1 DEF NoMissedSignal
  <2> QED
    BY <1>2, <2>2, <2>3, <2>4, <2>5, <2>6, <2>7
<1>9. CASE BlocksOrSpins(t, w)
  <2>1. /\ MustWait(t, w) /\ KiCheckAlertability(t, w) /\ KiInsertTimer(t, w)
        /\ request' = [request EXCEPT ![t] = w]
        /\ UNCHANGED <<signalState, ownerThread, mutantList, abandoned>>
    BY <1>9 DEF BlocksOrSpins, KiInsertTimer
  <2>2. /\ request' \in [Threads -> Requests \union {NoRequest}] /\ request'[t] = w
        /\ \A u \in Threads \ {t} : request'[u] = request[u]
    BY <2>1 DEF TypeOK
  <2>3. MutantRecordsAgree'
    BY <2>1 DEF MutantRecordsAgree
  <2>4. \A o \in Objects : /\ t \notin Members(waitListHead[o])
                           /\ Members(waitListHead[o]) \subseteq Threads
    <3>1. \A o \in Objects : t \notin Members(waitListHead[o])
      BY DEF WaitListsMatchThreads
    <3>2. \A o \in Objects : Members(waitListHead[o]) \subseteq Threads
      BY DEF TypeOK, Members
    <3> QED
      BY <3>1, <3>2
  <2>5. CASE kernelApcPending[t]
    <3>1. /\ waitStatus' = [waitStatus EXCEPT ![t] = "kernel_apc"]
          /\ UNCHANGED <<state, waitListHead>>
      BY <1>9, <2>5 DEF BlocksOrSpins
    <3>2. waitStatus' \in [Threads -> Statuses]
      BY <3>1 DEF TypeOK, Statuses
    <3>3. TypeOK'
      BY <1>1, <1>6, <1>7, <2>1, <2>2, <3>1, <3>2 DEF TypeOK
    <3>4. WaitListsMatchThreads'
      BY <2>2, <3>1 DEF WaitListsMatchThreads, WaitsFor
    <3>5. NoTimerAfterLife'
      BY <1>7, <2>1, <3>1 DEF NoTimerAfterLife
    <3>6. TerminatedLeavesNothing'
      <4>1. \A u \in Threads : state[u] = "Terminated" => u # t
        OBVIOUS
      <4> QED
        BY <1>7, <2>1, <3>1, <4>1 DEF TerminatedLeavesNothing
    <3>7. NoMissedSignal'
      BY <1>1, <2>1, <2>2, <2>4, <3>1 DEF NoMissedSignal
    <3> QED
      BY <1>2, <2>3, <3>3, <3>4, <3>5, <3>6, <3>7
  <2>6. CASE ~kernelApcPending[t]
    <3>1. /\ waitStatus' = [waitStatus EXCEPT ![t] = StatusOnEntry(t, w)]
          /\ state' = [state EXCEPT ![t] = "Blocked"]
          /\ waitListHead' = [o \in Objects |->
                                IF o \in Members(w.objects)
                                  THEN Link(waitListHead[o], t) ELSE waitListHead[o]]
      BY <1>9, <2>6 DEF BlocksOrSpins
    <3>2. waitStatus' \in [Threads -> Statuses]
      BY <3>1 DEF TypeOK, Statuses, StatusOnEntry
    <3>3. /\ state' \in [Threads -> ThreadStates] /\ state'[t] = "Blocked"
          /\ \A u \in Threads \ {t} : state'[u] = state[u]
      BY <3>1 DEF TypeOK, ThreadStates
    <3>4. \A o \in Objects : waitListHead[o] \in Seq(Threads) /\ NoDuplicates(waitListHead[o])
      BY DEF TypeOK, WaitListsMatchThreads, NoDuplicates
    <3>5. \A o \in Objects : /\ waitListHead'[o] \in Seq(Threads) /\ NoDuplicates(waitListHead'[o])
                             /\ Members(waitListHead'[o]) =
                                  IF o \in Members(w.objects) THEN Members(waitListHead[o]) \union {t}
                                  ELSE Members(waitListHead[o])
      <4> TAKE o \in Objects
      <4>1. CASE o \in Members(w.objects)
        <5>1. waitListHead'[o] = Link(waitListHead[o], t)
          BY <3>1, <4>1
        <5> QED
          BY <2>4, <3>4, <4>1, <5>1, LinkAdds
      <4>2. CASE o \notin Members(w.objects)
        <5>1. waitListHead'[o] = waitListHead[o]
          BY <3>1, <4>2
        <5> QED
          BY <3>4, <4>2, <5>1
      <4> QED
        BY <4>1, <4>2
    <3>6. waitListHead' \in [Objects -> Seq(Threads)]
      BY <3>1, <3>5
    <3>7. TypeOK'
      BY <1>1, <1>6, <1>7, <2>1, <2>2, <3>2, <3>3, <3>6 DEF TypeOK
    <3>8. WaitListsMatchThreads'
      <4>1. ASSUME NEW o \in Objects, NEW u \in Threads
            PROVE  u \in Members(waitListHead'[o]) <=>
                     state'[u] = "Blocked" /\ o \in Members(request'[u].objects)
        <5>1. u \in Members(waitListHead[o]) <=> state[u] = "Blocked" /\ o \in Members(request[u].objects)
          BY Zenon DEF WaitListsMatchThreads, WaitsFor
        <5>2. CASE u = t
          BY <2>2, <2>4, <3>3, <3>5, <5>2
        <5>3. CASE u # t
          BY <2>2, <3>3, <3>5, <5>1, <5>3, ZenonT(30)
        <5> QED
          BY <5>2, <5>3
      <4> QED
        BY <3>5, <4>1 DEF WaitListsMatchThreads, NoDuplicates, WaitsFor
    <3>9. NoTimerAfterLife'
      BY <1>7, <2>1, <3>3 DEF NoTimerAfterLife
    <3>10. TerminatedLeavesNothing'
      <4> SUFFICES ASSUME NEW u \in Threads, state'[u] = "Terminated"
                   PROVE  /\ \A m \in Mutants : ownerThread'[m] # u
                          /\ \A o \in Objects : u \notin Members(waitListHead'[o])
                          /\ ~timerInserted'[u] /\ signalState'[u] = 1
        BY DEF TerminatedLeavesNothing
      <4>1. u # t /\ state[u] = "Terminated"
        BY <3>3
      <4>2. /\ \A m \in Mutants : ownerThread[m] # u
            /\ \A o \in Objects : u \notin Members(waitListHead[o])
            /\ ~timerInserted[u] /\ signalState[u] = 1
        BY <4>1 DEF TerminatedLeavesNothing
      <4>3. ~timerInserted'[u]
        BY <1>7, <2>1, <4>1, <4>2
      <4> QED
        BY <2>1, <3>5, <4>1, <4>2, <4>3
    <3>11. NoMissedSignal'
      <4> SUFFICES ASSUME NEW o \in Objects, signalState[o] > 0,
                          NEW u \in Members(waitListHead'[o])
                   PROVE  request'[u].type # "WaitAny"
        BY <2>1 DEF NoMissedSignal
      <4>1. CASE u = t
        <5>1. o \in Members(w.objects)
          BY <2>4, <3>5, <4>1
        <5>2. KiIsObjectSignaled(o, t)
          BY DEF KiIsObjectSignaled, MutantRecordsAgree, TypeOK
        <5>3. w.type # "WaitAny"
          BY <2>1, <5>1, <5>2 DEF MustWait
        <5> QED
          BY <2>2, <4>1, <5>3
      <4>2. CASE u # t
        <5>1. u \in Members(waitListHead[o]) /\ u \in Threads \ {t}
          BY <2>4, <3>5, <4>2
        <5> QED
          BY <1>1, <2>2, <5>1 DEF NoMissedSignal
      <4> QED
        BY <4>1, <4>2
    <3> QED
      BY <1>2, <2>3, <3>7, <3>8, <3>9, <3>10, <3>11
  <2> QED
    BY <2>5, <2>6
<1> QED
  BY <1>4, <1>5, <1>8, <1>9 DEF WaitLoop

LEMMA WaitKeeps ==
  ASSUME IInv, NEW t \in Threads, Wait(t)
  PROVE  IInv'
<1>1. ASSUME NEW w \in Requests, BeginWait(t, w) PROVE IInv'
  BY <1>1, WaitLoopKeeps DEF BeginWait, LockFor
<1>2. CASE RetryWait(t)
  <2>1. request[t] \in Requests
    BY <1>2 DEF RetryWait, IInv, TypeOK
  <2> QED
    BY <1>2, <2>1, WaitLoopKeeps DEF RetryWait, LockFree
<1> QED
  BY <1>1, <1>2 DEF Wait

LEMMA TimerKeeps ==
  ASSUME IInv, NEW t \in Threads, ExpireThreadTimer(t)
  PROVE  IInv'
<1> USE DEF objectVars, mutantVars, threadVars, noticeVars, lockVars
<1>1. /\ kernelApcPending \in [Threads -> BOOLEAN] /\ lockedBy \in Threads \union {NoThread}
      /\ timerInserted \in [Threads -> BOOLEAN] /\ "timeout" \in Statuses
  BY DEF IInv, TypeOK, Statuses
<1>2. UNCHANGED <<signalState, ownerThread, mutantList, abandoned, alerted, kernelApcPending,
                  walk, pulsing, lockedBy>>
  BY DEF ExpireThreadTimer
<1>3. CASE state[t] = "Blocked"
  <2>1. KiAbortWaitThread(t, "timeout")
    BY <1>3 DEF ExpireThreadTimer
  <2> QED
    BY <1>1, <1>2, <1>3, <2>1, WakingKeeps
<1>4. CASE state[t] # "Blocked"
  <2>1. /\ timerInserted' = [timerInserted EXCEPT ![t] = FALSE]
        /\ UNCHANGED <<waitListHead, state, waitStatus, request>>
    BY <1>4 DEF ExpireThreadTimer
  <2>2. /\ timerInserted' \in [Threads -> BOOLEAN]
        /\ \A u \in Threads : timerInserted'[u] => timerInserted[u]
    BY <1>1, <2>1
  <2>3. TypeOK'
    BY <1>2, <2>1, <2>2 DEF IInv, TypeOK
  <2>4. /\ WaitListsMatchThreads' /\ NoMissedSignal' /\ MutantRecordsAgree'
        /\ PulseWalksEvent'
    BY <1>2, <2>1 DEF IInv, WaitListsMatchThreads, WaitsFor, NoMissedSignal, MutantRecordsAgree,
                      PulseWalksEvent
  <2>5. TerminatedLeavesNothing' /\ NoTimerAfterLife'
    BY <1>2, <2>1, <2>2 DEF IInv, TerminatedLeavesNothing, NoTimerAfterLife
  <2> QED
    BY <2>3, <2>4, <2>5 DEF IInv
<1> QED
  BY <1>3, <1>4

LEMMA DisturbKeeps ==
  ASSUME IInv, NEW t \in Threads, Disturb(t)
  PROVE  IInv'
<1> USE DEF objectVars, mutantVars, threadVars, noticeVars, lockVars
<1>1. /\ kernelApcPending \in [Threads -> BOOLEAN] /\ lockedBy \in Threads \union {NoThread}
      /\ alerted \in [Threads -> [Modes -> BOOLEAN]]
      /\ {"alerted", "kernel_apc", "terminating"} \subseteq Statuses
  BY DEF IInv, TypeOK, Statuses
<1>2. ASSUME NEW mode \in AlertModes, KeAlertThread(t, mode) PROVE IInv'
  <2>1. UNCHANGED <<signalState, ownerThread, mutantList, abandoned, kernelApcPending, walk,
                    pulsing, lockedBy>>
    BY <1>2 DEF KeAlertThread
  <2>2. CASE AlertBreaksWait(t, mode)
    <3>1. KiAbortWaitThread(t, "alerted") /\ alerted' = alerted /\ state[t] = "Blocked"
      BY <1>2, <2>2 DEF KeAlertThread, AlertBreaksWait
    <3> QED
      BY <1>1, <2>1, <3>1, WakingKeeps
  <2>3. CASE ~AlertBreaksWait(t, mode)
    <3>1. /\ alerted' = [alerted EXCEPT ![t][mode] = TRUE]
          /\ UNCHANGED <<waitListHead, state, request, waitStatus, timerInserted>>
      BY <1>2, <2>3 DEF KeAlertThread
    <3>2. mode \in Modes
      BY InputsAssumption
    <3>3. /\ alerted' \in [Threads -> [Modes -> BOOLEAN]]
          /\ \A u \in Threads \ {t} : alerted'[u] = alerted[u]
          /\ \A k \in Modes \ {mode} : alerted'[t][k] = alerted[t][k]
      BY <1>1, <3>1, <3>2
    <3>4. TypeOK'
      BY <2>1, <3>1, <3>3 DEF IInv, TypeOK
    <3>5. /\ WaitListsMatchThreads' /\ NoMissedSignal' /\ MutantRecordsAgree'
          /\ TerminatedLeavesNothing' /\ PulseWalksEvent' /\ NoTimerAfterLife'
      BY <2>1, <3>1 DEF IInv, WaitListsMatchThreads, WaitsFor, NoMissedSignal,
           MutantRecordsAgree, TerminatedLeavesNothing, PulseWalksEvent, NoTimerAfterLife
    <3> QED
      BY <3>4, <3>5 DEF IInv
  <2> QED
    BY <2>2, <2>3
<1>3. ASSUME NEW kind \in ApcKinds, KeInsertQueueApc(t, kind) PROVE IInv'
  <2>1. /\ kernelApcPending' = [kernelApcPending EXCEPT ![t] = TRUE]
        /\ UNCHANGED <<signalState, ownerThread, mutantList, abandoned, alerted, walk, pulsing, lockedBy>>
    BY <1>3 DEF KeInsertQueueApc
  <2>2. kernelApcPending' \in [Threads -> BOOLEAN]
    BY <1>1, <2>1
  <2>3. CASE state[t] = "Blocked" /\ kind = "special"
    <3>1. KiAbortWaitThread(t, "kernel_apc")
      BY <1>3, <2>3 DEF KeInsertQueueApc
    <3> QED
      BY <1>1, <2>1, <2>2, <2>3, <3>1, WakingKeeps
  <2>4. CASE ~(state[t] = "Blocked" /\ kind = "special")
    <3>1. UNCHANGED <<waitListHead, state, request, waitStatus, timerInserted>>
      BY <1>3, <2>4 DEF KeInsertQueueApc
    <3> QED
      BY <2>1, <2>2, <3>1 DEF IInv, TypeOK, WaitListsMatchThreads, WaitsFor, NoMissedSignal,
           MutantRecordsAgree, TerminatedLeavesNothing, PulseWalksEvent, NoTimerAfterLife
  <2> QED
    BY <2>3, <2>4
<1>4. CASE KiDeliverApc(t)
  <2>1. /\ kernelApcPending' = [kernelApcPending EXCEPT ![t] = FALSE]
        /\ UNCHANGED <<signalState, waitListHead, ownerThread, mutantList, abandoned, state, request,
                       waitStatus, timerInserted, alerted, walk, pulsing, lockedBy>>
    BY <1>4 DEF KiDeliverApc
  <2>2. kernelApcPending' \in [Threads -> BOOLEAN]
    BY <1>1, <2>1
  <2> QED
    BY <2>1, <2>2 DEF IInv, TypeOK, WaitListsMatchThreads, WaitsFor, NoMissedSignal,
         MutantRecordsAgree, TerminatedLeavesNothing, PulseWalksEvent, NoTimerAfterLife
<1>5. CASE PsTerminateOtherThread(t)
  <2>1. /\ state[t] = "Blocked" /\ KiAbortWaitThread(t, "terminating")
        /\ UNCHANGED <<signalState, ownerThread, mutantList, abandoned, alerted, kernelApcPending,
                       walk, pulsing, lockedBy>>
    BY <1>5 DEF PsTerminateOtherThread
  <2> QED
    BY <1>1, <2>1, WakingKeeps
<1> QED
  BY <1>2, <1>3, <1>4, <1>5 DEF Disturb

LEMMA TerminateKeeps ==
  ASSUME IInv, NEW t \in Threads, Terminate(t)
  PROVE  IInv'
<1> USE DEF objectVars, mutantVars, threadVars, noticeVars, lockVars
<1>1. CASE BeginTerminate(t)
  <2>1. /\ state[t] = "Ready" /\ state' = [state EXCEPT ![t] = "Terminating"]
        /\ timerInserted' = [timerInserted EXCEPT ![t] = FALSE]
        /\ request' = [request EXCEPT ![t] = NoRequest]
        /\ UNCHANGED <<signalState, waitListHead, ownerThread, mutantList, abandoned, waitStatus,
                       alerted, kernelApcPending, walk, pulsing, lockedBy>>
    BY <1>1 DEF BeginTerminate
  <2>2. /\ state' \in [Threads -> ThreadStates] /\ state'[t] = "Terminating"
        /\ timerInserted' \in [Threads -> BOOLEAN] /\ ~timerInserted'[t]
        /\ request' \in [Threads -> Requests \union {NoRequest}]
        /\ \A u \in Threads \ {t} : /\ state'[u] = state[u] /\ request'[u] = request[u]
                                    /\ timerInserted'[u] = timerInserted[u]
    BY <2>1 DEF IInv, TypeOK, ThreadStates
  <2>3. TypeOK'
    BY <2>1, <2>2 DEF IInv, TypeOK
  <2>4. WaitListsMatchThreads'
    <3>1. ASSUME NEW o \in Objects, NEW u \in Threads
          PROVE  u \in Members(waitListHead[o]) <=>
                   state'[u] = "Blocked" /\ o \in Members(request'[u].objects)
      BY <2>1, <2>2 DEF IInv, WaitListsMatchThreads, WaitsFor
    <3> QED
      BY <2>1, <3>1 DEF IInv, WaitListsMatchThreads, WaitsFor
  <2>5. NoMissedSignal'
    <3>1. \A o \in Objects : \A u \in Members(waitListHead[o]) : u \in Threads \ {t}
      BY <2>1 DEF IInv, WaitListsMatchThreads, TypeOK, Members
    <3> QED
      BY <2>1, <2>2, <3>1 DEF IInv, NoMissedSignal
  <2>6. MutantRecordsAgree' /\ PulseWalksEvent'
    BY <2>1 DEF IInv, MutantRecordsAgree, PulseWalksEvent
  <2>7. TerminatedLeavesNothing' /\ NoTimerAfterLife'
    BY <2>1, <2>2 DEF IInv, TerminatedLeavesNothing, NoTimerAfterLife
  <2> QED
    BY <2>3, <2>4, <2>5, <2>6, <2>7 DEF IInv
<1>2. CASE EndTerminate(t)
  <2>1. /\ state[t] = "Terminating" /\ walk = NoObject
        /\ \A m \in Mutants : mutantList[m] # t
        /\ state' = [state EXCEPT ![t] = "Terminated"]
        /\ signalState' = [signalState EXCEPT ![t] = 1] /\ walk' = t
        /\ UNCHANGED <<waitListHead, ownerThread, mutantList, abandoned, request, waitStatus,
                       timerInserted, alerted, kernelApcPending, pulsing, lockedBy>>
    BY <1>2 DEF EndTerminate, MutantsOf, LockFree
  <2>2. /\ Threads \subseteq Objects /\ NoObject \notin Objects
        /\ t \notin Events \union Mutants \union Semaphores
    BY ObjectsAssumption DEF Objects
  <2>3. /\ state' \in [Threads -> ThreadStates] /\ state'[t] = "Terminated"
        /\ \A u \in Threads \ {t} : state'[u] = state[u]
    BY <2>1 DEF IInv, TypeOK, ThreadStates
  <2>4. /\ signalState' \in [Objects -> Int] /\ signalState'[t] = 1
        /\ \A o \in Objects \ {t} : signalState'[o] = signalState[o]
    BY <2>1, <2>2 DEF IInv, TypeOK
  <2>5. \A o \in Events \union Threads : signalState'[o] \in {0, 1}
    BY <2>2, <2>4 DEF IInv, TypeOK, Objects
  <2>6. TypeOK'
    BY <2>1, <2>2, <2>3, <2>4, <2>5 DEF IInv, TypeOK
  <2>7. WaitListsMatchThreads'
    <3>1. ASSUME NEW o \in Objects, NEW u \in Threads
          PROVE  u \in Members(waitListHead[o]) <=>
                   state'[u] = "Blocked" /\ o \in Members(request[u].objects)
      BY <2>1, <2>3 DEF IInv, WaitListsMatchThreads, WaitsFor
    <3> QED
      BY <2>1, <3>1 DEF IInv, WaitListsMatchThreads, WaitsFor
  <2>8. NoMissedSignal'
    BY <2>1, <2>2, <2>4 DEF IInv, NoMissedSignal
  <2>9. MutantRecordsAgree'
    <3>1. \A m \in Mutants : signalState'[m] = signalState[m]
      BY <2>2, <2>4 DEF Objects
    <3> QED
      BY <2>1, <3>1 DEF IInv, MutantRecordsAgree
  <2>10. PulseWalksEvent'
    BY <2>1, <2>2 DEF IInv, PulseWalksEvent, Objects
  <2>11. NoTimerAfterLife'
    BY <2>1, <2>3 DEF IInv, NoTimerAfterLife
  <2>12. TerminatedLeavesNothing'
    <3>1. \A m \in Mutants : ownerThread[m] # t
      BY <2>1 DEF IInv, MutantRecordsAgree
    <3>2. \A o \in Objects : t \notin Members(waitListHead[o])
      BY <2>1 DEF IInv, WaitListsMatchThreads
    <3>3. ~timerInserted[t]
      BY <2>1 DEF IInv, NoTimerAfterLife
    <3>4. \A u \in Threads \ {t} : signalState'[u] = signalState[u]
      BY <2>2, <2>4
    <3> QED
      BY <2>1, <2>3, <2>4, <3>1, <3>2, <3>3, <3>4 DEF IInv, TerminatedLeavesNothing
  <2> QED
    BY <2>6, <2>7, <2>8, <2>9, <2>10, <2>11, <2>12 DEF IInv
<1> QED
  BY <1>1, <1>2, MutantsKeep DEF Terminate

LEMMA NextIInv == IInv /\ [Next]_vars => IInv'
<1> SUFFICES ASSUME IInv, [Next]_vars PROVE IInv'
  OBVIOUS
<1>1. CASE KiWaitTest
  BY <1>1, WalkKeeps
<1>2. CASE SignalEvent
  BY <1>2, EventsKeep
<1>3. CASE ReleaseSemaphore
  BY <1>3, SemaphoresKeep
<1>4. ASSUME NEW t \in Threads, ReleaseMutant(t) PROVE IInv'
  BY <1>4, MutantsKeep DEF ReleaseMutant
<1>5. ASSUME NEW t \in Threads, Wait(t) PROVE IInv'
  BY <1>5, WaitKeeps
<1>6. ASSUME NEW t \in Threads, ExpireThreadTimer(t) PROVE IInv'
  BY <1>6, TimerKeeps
<1>7. ASSUME NEW t \in Threads, Disturb(t) PROVE IInv'
  BY <1>7, DisturbKeeps
<1>8. ASSUME NEW t \in Threads, Terminate(t) PROVE IInv'
  BY <1>8, TerminateKeeps
<1>9. CASE UNCHANGED vars
  BY <1>9 DEF IInv, TypeOK, WaitListsMatchThreads, WaitsFor, NoMissedSignal, MutantRecordsAgree,
       TerminatedLeavesNothing, PulseWalksEvent, NoTimerAfterLife,
       vars, objectVars, mutantVars, threadVars, noticeVars, lockVars
<1> QED
  BY <1>1, <1>2, <1>3, <1>4, <1>5, <1>6, <1>7, <1>8, <1>9 DEF Next
-------------------------------------------------------------------------------
\* IInv holds of every state of every execution.
THEOREM Invariance == Spec => []IInv
BY InitIInv, NextIInv, PTL DEF Spec

\* The fields of objects and threads keep their types, events count 0 or 1.
THEOREM TypesHold == Spec => []TypeOK
<1>1. IInv => TypeOK
  BY DEF IInv
<1> QED
  BY <1>1, Invariance, PTL

\* A wait block is linked exactly while its thread is blocked in a wait that names
\* the object, once, whatever ends the wait.
THEOREM ListsMatch == Spec => []WaitListsMatchThreads
<1>1. IInv => WaitListsMatchThreads
  BY DEF IInv
<1> QED
  BY <1>1, Invariance, PTL

\* No lost wake-up: outside a walk, nobody sleeps for a single signal that is there.
THEOREM NoSignalMissed == Spec => []NoMissedSignal
<1>1. IInv => NoMissedSignal
  BY DEF IInv
<1> QED
  BY <1>1, Invariance, PTL

\* Count, owner and list of a mutant agree.
THEOREM MutantsAgree == Spec => []MutantRecordsAgree
<1>1. IInv => MutantRecordsAgree
  BY DEF IInv
<1> QED
  BY <1>1, Invariance, PTL

\* A terminated thread owns no mutant, is in no list and has no timer running.
THEOREM NothingLeft == Spec => []TerminatedLeavesNothing
<1>1. IInv => TerminatedLeavesNothing
  BY DEF IInv
<1> QED
  BY <1>1, Invariance, PTL

\* A step changes a mutant's owner only as MutantLeavesAtLastRelease allows.
LEMMA OwnersKept ==
  ASSUME IInv, [Next]_vars, NEW m \in Mutants,
         ownerThread'[m] # ownerThread[m], ownerThread[m] # NoThread
  PROVE  ownerThread'[m] = NoThread /\ (signalState[m] = 0 \/ state[ownerThread[m]] = "Terminating")
<1>1. /\ signalState[m] \in Int /\ signalState[m] <= 0 /\ mutantList[m] = ownerThread[m]
      /\ ownerThread \in [Mutants -> Threads \union {NoThread}]
  BY DEF IInv, TypeOK, MutantRecordsAgree, Objects
<1>2. ASSUME NEW objects, NEW t, KiSatisfyObjectWaits(objects, t) PROVE FALSE
  <2>1. ownerThread'[m] # ownerThread[m] => signalState[m] = 1
    BY <1>2 DEF KiSatisfyObjectWaits
  <2> QED
    BY <1>1, <2>1
<1>3. ASSUME NEW n \in Mutants, NEW count \in Int, MutantReleased(n, count)
      PROVE  m = n /\ count = 1 /\ ownerThread'[m] = NoThread
  BY <1>1, <1>3 DEF MutantReleased
<1>4. CASE KiWaitTest
  <2>1. CASE KiWaitTestStep
    BY <1>2, <2>1 DEF KiWaitTestStep
  <2>2. CASE KiWaitTestEnd
    BY <2>2 DEF KiWaitTestEnd, mutantVars
  <2> QED
    BY <1>4, <2>1, <2>2 DEF KiWaitTest
<1>5. CASE SignalEvent
  BY <1>5 DEF SignalEvent, KeSetEvent, KePulseEvent, KeResetEvent, KeSetEventBoostPriority, mutantVars
<1>6. CASE ReleaseSemaphore
  BY <1>6 DEF ReleaseSemaphore, KeReleaseSemaphore, mutantVars
<1>7. ASSUME NEW t \in Threads, ReleaseMutant(t)
      PROVE  ownerThread'[m] = NoThread /\ signalState[m] = 0
  <2>1. PICK n \in Mutants, next \in {t, NoThread} : KeReleaseMutant(t, n, next)
    BY <1>7 DEF ReleaseMutant
  <2>2. signalState[n] + 1 \in Int /\ MutantReleased(n, signalState[n] + 1)
    BY <2>1 DEF KeReleaseMutant, ReleasedCount, IInv, TypeOK, Objects
  <2> QED
    BY <1>1, <1>3, <2>2
<1>8. ASSUME NEW t \in Threads, Wait(t) PROVE FALSE
  <2>1. ASSUME NEW w, WaitLoop(t, w) PROVE FALSE
    <3>1. CASE SatisfiedAtOnce(t, w)
      BY <1>2, <3>1 DEF SatisfiedAtOnce
    <3>2. CASE RaisedLimit(t, w)
      BY <3>2 DEF RaisedLimit, mutantVars
    <3>3. CASE TimedOutAtOnce(t, w)
      BY <3>3 DEF TimedOutAtOnce, mutantVars
    <3>4. CASE BlocksOrSpins(t, w)
      BY <3>4 DEF BlocksOrSpins, mutantVars
    <3> QED
      BY <2>1, <3>1, <3>2, <3>3, <3>4 DEF WaitLoop
  <2> QED
    BY <1>8, <2>1 DEF Wait, BeginWait, RetryWait
<1>9. ASSUME NEW t \in Threads, ExpireThreadTimer(t) PROVE FALSE
  BY <1>9 DEF ExpireThreadTimer, mutantVars
<1>10. ASSUME NEW t \in Threads, Disturb(t) PROVE FALSE
  BY <1>10 DEF Disturb, KeAlertThread, KeInsertQueueApc, KiDeliverApc, PsTerminateOtherThread, mutantVars
<1>11. ASSUME NEW t \in Threads, Terminate(t)
       PROVE  ownerThread'[m] = NoThread /\ state[ownerThread[m]] = "Terminating"
  <2>1. CASE BeginTerminate(t) \/ EndTerminate(t)
    BY <2>1 DEF BeginTerminate, EndTerminate, mutantVars
  <2>2. ASSUME NEW n \in Mutants, AbandonMutant(t, n)
        PROVE  ownerThread'[m] = NoThread /\ state[ownerThread[m]] = "Terminating"
    <3>1. m = n /\ ownerThread'[m] = NoThread
      BY <1>3, <2>2 DEF AbandonMutant
    <3> QED
      BY <1>1, <2>2, <3>1 DEF AbandonMutant, MutantsOf
  <2> QED
    BY <1>11, <2>1, <2>2 DEF Terminate
<1>12. CASE UNCHANGED vars
  BY <1>12 DEF vars, mutantVars
<1> QED
  BY <1>4, <1>5, <1>6, <1>7, <1>8, <1>9, <1>10, <1>11, <1>12 DEF Next

\* A mutant leaves its living owner only at its last release, and is never passed
\* on in one step.
THEOREM MutantsLeaveFreed == Spec => MutantLeavesAtLastRelease
<1>1. IInv /\ [Next]_vars =>
        [\A m \in Mutants : ownerThread'[m] # ownerThread[m] /\ ownerThread[m] # NoThread =>
           /\ ownerThread'[m] = NoThread
           /\ signalState[m] = 0 \/ state[ownerThread[m]] = "Terminating"]_vars
  BY OwnersKept
<1> QED
  BY <1>1, Invariance, PTL DEF Spec, MutantLeavesAtLastRelease

\* A step that does not end a wait wakes nobody; one that ends the wait of x wakes x.
LEMMA OnlyAborted ==
  ASSUME IInv, NEW t \in Threads, state[t] = "Blocked", state'[t] = "Ready",
         NEW x \in Threads, NEW status, KiAbortWaitThread(x, status)
  PROVE  x = t /\ waitStatus'[t] = status /\ \A u \in Threads \ {t} : state'[u] = state[u]
<1>1. /\ state' = [state EXCEPT ![x] = "Ready"] /\ waitStatus' = [waitStatus EXCEPT ![x] = status]
      /\ state \in [Threads -> ThreadStates] /\ waitStatus \in [Threads -> Statuses]
  BY DEF KiAbortWaitThread, IInv, TypeOK
<1> QED
  BY <1>1

\* A thread that waits for any of several objects waits, outside the walk, for none that
\* is signaled.
LEMMA SleepersUnsignaled ==
  ASSUME IInv, NEW t \in Threads, state[t] = "Blocked", request[t].type = "WaitAny",
         NEW o \in WaitsFor(t), signalState[o] > 0
  PROVE  o = walk
<1>1. request[t] \in Requests \union {NoRequest}
  BY DEF IInv, TypeOK
<1>2. o \in Objects
  BY <1>1, RequestObjects DEF WaitsFor
<1>3. t \in Members(waitListHead[o])
  BY <1>2 DEF IInv, WaitListsMatchThreads
<1> QED
  BY <1>2, <1>3 DEF IInv, NoMissedSignal

\* A step wakes a thread only as OneSignalOneWait allows.
LEMMA SignalsUsed ==
  ASSUME IInv, [Next]_vars, NEW t \in Threads, state[t] = "Blocked", state'[t] = "Ready"
  PROVE  /\ \A u \in Threads \ {t} : state'[u] = state[u]
         /\ waitStatus'[t] # "wait_0" => signalState' = signalState
         /\ waitStatus'[t] = "wait_0" /\ request[t].type = "WaitAny" =>
              /\ \A o, p \in WaitsFor(t) : signalState[o] > 0 /\ signalState[p] > 0 => o = p
              /\ \A o \in Objects : signalState'[o] =
                   IF o \in WaitsFor(t) \ (NotificationEvents \union Threads) /\ signalState[o] > 0
                     THEN signalState[o] - 1 ELSE signalState[o]
<1> DEFINE used == \A o \in Objects : signalState'[o] =
                     IF o \in WaitsFor(t) \ (NotificationEvents \union Threads) /\ signalState[o] > 0
                       THEN signalState[o] - 1 ELSE signalState[o]
           others == \A u \in Threads \ {t} : state'[u] = state[u]
<1> USE DEF objectVars, mutantVars, threadVars, noticeVars, lockVars
<1>1. state \in [Threads -> ThreadStates] /\ signalState \in [Objects -> Int]
  BY DEF IInv, TypeOK
<1>2. request[t].type = "WaitAny" =>
        \A o, p \in WaitsFor(t) : signalState[o] > 0 /\ signalState[p] > 0 => o = p
  BY SleepersUnsignaled
<1>3. ASSUME walk = NoObject, UNCHANGED signalState, request[t].type = "WaitAny" PROVE used
  <2>1. \A o \in WaitsFor(t) \intersect Objects : ~(signalState[o] > 0)
    BY <1>3, SleepersUnsignaled, ObjectsAssumption
  <2> QED
    BY <1>3, <2>1
<1>4. ASSUME UNCHANGED signalState, NEW x \in Threads, NEW status, KiAbortWaitThread(x, status),
             status = "wait_0" => walk = NoObject
      PROVE  others /\ (waitStatus'[t] = "wait_0" /\ request[t].type = "WaitAny" => used)
  BY <1>3, <1>4, OnlyAborted
<1>5. CASE KiWaitTestStep
  <2> DEFINE x == Head(waitListHead[walk])
             objects == IF request[x].type = "WaitAll" THEN BlocksFrom(walk, request[x]) ELSE {walk}
  <2>1. /\ walk \in Objects /\ signalState[walk] > 0 /\ waitListHead[walk] # << >>
        /\ KiSatisfyObjectWaits(objects, x) /\ KiAbortWaitThread(x, "wait_0")
    BY <1>5 DEF KiWaitTestStep, WalkGoesOn, IInv, TypeOK
  <2>2. x \in Threads /\ walk \in WaitsFor(x)
    <3>1. x \in Threads /\ x \in Members(waitListHead[walk])
      BY <2>1, HeadIsMember DEF IInv, TypeOK
    <3> QED
      BY <2>1, <3>1 DEF IInv, WaitListsMatchThreads
  <2>3. /\ KiSatisfyObjectWaits(objects, x)
        /\ objects = IF request[x].type = "WaitAll" THEN BlocksFrom(walk, request[x]) ELSE {walk}
    BY <2>1
  <2> HIDE DEF x, objects
  <2>4. x = t /\ waitStatus'[t] = "wait_0" /\ others
    BY <2>1, <2>2, OnlyAborted
  <2>5. ASSUME request[t].type = "WaitAny" PROVE used
    <3>1. objects = {walk} /\ walk \in WaitsFor(t)
      BY <2>2, <2>3, <2>4, <2>5
    <3>2. /\ signalState'[walk] = SatisfiedState(walk)
          /\ \A o \in Objects \ {walk} : signalState'[o] = signalState[o]
      BY <2>1, <2>3, <3>1 DEF KiSatisfyObjectWaits
    <3>3. SatisfiedState(walk) = IF walk \in NotificationEvents \union Threads
                                   THEN signalState[walk] ELSE signalState[walk] - 1
      <4>1. walk \in SynchronizationEvents => signalState[walk] = 1
        BY <2>1 DEF IInv, TypeOK, Events
      <4> QED
        BY <2>1, <4>1, ObjectsAssumption DEF SatisfiedState, Objects, Events
    <3>4. \A o \in WaitsFor(t) : signalState[o] > 0 => o = walk
      BY <2>5, SleepersUnsignaled
    <3> QED
      BY <2>1, <3>1, <3>2, <3>3, <3>4
  <2> QED
    BY <1>2, <2>4, <2>5
<1>6. CASE KiWaitTestEnd
  BY <1>6 DEF KiWaitTestEnd
<1>7. CASE SignalEvent
  <2>1. PICK e \in Events : \/ \E next \in Threads \union {NoThread} : KeSetEvent(e, next) \/ KePulseEvent(e, next)
                           \/ KeResetEvent(e)
                           \/ KeSetEventBoostPriority(e)
    BY <1>7 DEF SignalEvent
  <2>2. walk = NoObject
    BY <2>1 DEF KeSetEvent, KePulseEvent, KeResetEvent, KeSetEventBoostPriority, LockFree
  <2>3. waitListHead[e] # << >> => Head(waitListHead[e]) \in Threads
    BY WaiterSleeps DEF Objects
  <2>4. /\ waitListHead[e] # << >> /\ UNCHANGED signalState
        /\ KiAbortWaitThread(Head(waitListHead[e]), "wait_0")
    BY <2>1 DEF KeSetEvent, KePulseEvent, KeResetEvent, KeSetEventBoostPriority
  <2> QED
    BY <1>2, <1>4, <2>2, <2>3, <2>4
<1>8. ASSUME NEW y \in Threads, ExpireThreadTimer(y)
      PROVE  others /\ UNCHANGED signalState /\ waitStatus'[t] # "wait_0"
  <2>1. KiAbortWaitThread(y, "timeout") /\ UNCHANGED signalState
    BY <1>8 DEF ExpireThreadTimer
  <2> QED
    BY <2>1, OnlyAborted
<1>9. ASSUME NEW y \in Threads, Disturb(y)
      PROVE  others /\ UNCHANGED signalState /\ waitStatus'[t] # "wait_0"
  <2>1. PICK status \in {"alerted", "kernel_apc", "terminating"} :
          KiAbortWaitThread(y, status) /\ UNCHANGED signalState
    BY <1>9 DEF Disturb, KeAlertThread, KeInsertQueueApc, KiDeliverApc, PsTerminateOtherThread
  <2> QED
    BY <2>1, OnlyAborted
<1>10. ASSUME NEW y \in Threads, Wait(y) PROVE FALSE
  <2>1. ASSUME NEW w, WaitLoop(y, w), state[y] = "Ready" PROVE \A u \in Threads \ {y} : state'[u] = state[u]
    BY <1>1, <2>1 DEF WaitLoop, SatisfiedAtOnce, RaisedLimit, TimedOutAtOnce, BlocksOrSpins, Return
  <2>2. state[y] = "Ready" /\ \A u \in Threads \ {y} : state'[u] = state[u]
    BY <1>10, <2>1 DEF Wait, BeginWait, RetryWait
  <2> QED
    BY <2>2
<1>11. ASSUME ReleaseSemaphore PROVE FALSE
  BY <1>11 DEF ReleaseSemaphore, KeReleaseSemaphore
<1>12. ASSUME NEW y \in Threads, ReleaseMutant(y) PROVE FALSE
  BY <1>12 DEF ReleaseMutant, KeReleaseMutant, MutantReleased
<1>13. ASSUME NEW y \in Threads, Terminate(y) PROVE FALSE
  BY <1>1, <1>13 DEF Terminate, BeginTerminate, AbandonMutant, MutantReleased, EndTerminate
<1>14. CASE UNCHANGED vars
  BY <1>14 DEF vars
<1> QED
  BY <1>2, <1>5, <1>6, <1>7, <1>8, <1>9, <1>10, <1>11, <1>12, <1>13, <1>14 DEF Next, KiWaitTest

\* One signal ends one wait, and a wait for any of several uses up no other signal.
THEOREM SignalsEndOneWait == Spec => OneSignalOneWait
<1>1. IInv /\ [Next]_vars =>
        [\A t \in Threads : state[t] = "Blocked" /\ state'[t] = "Ready" =>
           /\ \A u \in Threads \ {t} : state'[u] = state[u]
           /\ waitStatus'[t] # "wait_0" => signalState' = signalState
           /\ waitStatus'[t] = "wait_0" /\ request[t].type = "WaitAny" =>
                /\ \A o, p \in WaitsFor(t) : signalState[o] > 0 /\ signalState[p] > 0 => o = p
                /\ \A o \in Objects : signalState'[o] =
                     IF o \in WaitsFor(t) \ (NotificationEvents \union Threads) /\ signalState[o] > 0
                       THEN signalState[o] - 1 ELSE signalState[o]]_vars
  BY SignalsUsed
<1> QED
  BY <1>1, Invariance, PTL DEF Spec, OneSignalOneWait
===============================================================================
