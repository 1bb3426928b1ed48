----------------------------- MODULE KeDispatcher -----------------------------
(***************************************************************************)
(* The dispatcher of the kernel (ntoskrnl/ke/wait.c, event.c, sem.c,        *)
(* mutex.c, the thread timer of timer.c and PsBlockThread): objects with a  *)
(* SignalState and a FIFO list of wait blocks, threads that wait on one     *)
(* object, on any or on all of several, with or without a timeout, and the  *)
(* operations that signal the objects, alert, interrupt or terminate        *)
(* threads.                                                                *)
(*                                                                         *)
(* Every operation runs under the dispatcher database lock, so it is one    *)
(* step, with two exceptions that the properties must not hide: KiWaitTest  *)
(* walks the wait list one waiter per step (walk names the object; every    *)
(* other locked operation waits until it is done), and an operation called  *)
(* with Wait = TRUE leaves the lock with its caller (lockedBy) until that   *)
(* thread's next wait.                                                     *)
(*                                                                         *)
(* Which of the ready threads runs is the subject of PsScheduler; here a    *)
(* thread that is ready or running is Ready and may act at any time.        *)
(***************************************************************************)
EXTENDS Integers, Sequences, FiniteSets, Lists

CONSTANTS
  Threads,                \* the threads; each is a waitable object itself
  NotificationEvents,     \* EventNotificationObject
  SynchronizationEvents,  \* EventSynchronizationObject
  Semaphores,             \* SemaphoreObject
  Mutants,                \* MutantObject
  NoThread,               \* the NULL thread pointer
  NoObject,               \* the NULL object pointer
  Limit,                  \* Semaphore->Limit, the same for every semaphore
  MinLong,                \* MINLONG, the recursion limit of a mutant
  Requests,               \* the waits the threads issue, see WaitRequest
  AlertModes,             \* the modes in which threads are alerted
  ApcKinds,               \* the kernel APCs threads are sent
  Mortal                  \* the threads that may terminate

Events  == NotificationEvents \union SynchronizationEvents
Objects == Events \union Semaphores \union Mutants \union Threads

Modes == {"KernelMode", "UserMode"}

\* The arguments of a wait.  Objects without repetition; "zero" stands for a
\* timeout of 0, "past" for an absolute time that has gone by, "later" for any
\* other.  KeDelayExecutionThread is the request with the type "Delay".
WaitRequest ==
  [type : {"WaitAny", "WaitAll", "Delay"}, objects : Seq(Objects),
   timeout : {"none", "zero", "past", "later"},
   alertable : BOOLEAN, mode : Modes]

ASSUME ObjectsAssumption ==
  /\ NotificationEvents \intersect SynchronizationEvents = {}
  /\ Events \intersect (Semaphores \union Mutants) = {}
  /\ Semaphores \intersect Mutants = {}
  /\ Threads \intersect (Events \union Semaphores \union Mutants) = {}
  /\ NoThread \notin Threads /\ NoObject \notin Objects
ASSUME NumbersAssumption == Limit \in Nat \ {0} /\ MinLong \in Int /\ MinLong <= 0
ASSUME RequestsAssumption ==
  /\ Requests \subseteq WaitRequest
  /\ \A w \in Requests :
       /\ NoDuplicates(w.objects)
       /\ (w.type = "Delay") = (w.objects = << >>)
       /\ w.type = "Delay" => w.timeout \in {"past", "later"}
ASSUME InputsAssumption ==
  AlertModes \subseteq Modes /\ ApcKinds \subseteq {"special", "normal"}
    /\ Mortal \subseteq Threads

VARIABLES
  signalState,       \* Header.SignalState of every object
  waitListHead,      \* Header.WaitListHead: whose wait blocks it links, oldest first
  ownerThread,       \* Mutant->OwnerThread
  mutantList,        \* the thread whose MutantListHead links the mutant
  abandoned,         \* Mutant->Abandoned
  state,             \* Thread->State
  request,           \* the wait a thread is in, or NoRequest
  waitStatus,        \* Thread->WaitStatus, or what the last wait returned
  timerInserted,     \* Thread->Timer.Header.Inserted
  alerted,           \* Thread->Alerted[mode]
  kernelApcPending,  \* Thread->ApcState.KernelApcPending
  walk,              \* the object KiWaitTest is walking, or NoObject
  pulsing,           \* KePulseEvent has yet to clear the walked event
  lockedBy           \* the thread that kept the lock for its next wait (WaitNext)

objectVars == <<signalState, waitListHead>>
mutantVars == <<ownerThread, mutantList, abandoned>>
threadVars == <<state, request, waitStatus, timerInserted>>
noticeVars == <<alerted, kernelApcPending>>
lockVars   == <<walk, pulsing, lockedBy>>
vars == <<objectVars, mutantVars, threadVars, noticeVars, lockVars>>

NoRequest == [type |-> "None", objects |-> << >>, alertable |-> FALSE]

ThreadStates == {"Ready", "Blocked", "Terminating", "Terminated"}

Statuses == {"none", "wait_0", "abandoned", "timeout", "alerted", "kernel_apc",
             "terminating", "pending"}

WaitsFor(t) == Members(request[t].objects)

\* Nobody holds the dispatcher database lock, or thread t does.
LockFree   == walk = NoObject /\ lockedBy = NoThread
LockFor(t) == walk = NoObject /\ lockedBy \in {NoThread, t}

\* How an operation leaves the lock: released, or (Wait = TRUE) with next.
KeepLockFor(next) == lockedBy' = next

-------------------------------------------------------------------------------
(* Signal states. *)

\* A mutant is signaled for its owner as well, who may take it recursively.
KiIsObjectSignaled(o, t) ==
  IF o \in Mutants
    THEN signalState[o] = 1 \/ (signalState[o] <= 0 /\ ownerThread[o] = t)
    ELSE signalState[o] # 0

\* Mutated: a synchronization event stays signaled like a notification event.
NotResetState(o) ==
  IF o \in Mutants \union Semaphores THEN signalState[o] - 1 ELSE signalState[o]

\* The state of an object that has satisfied a wait.
SatisfiedState(o) ==
  IF o \in Mutants \union Semaphores THEN signalState[o] - 1
  ELSE IF o \in SynchronizationEvents THEN 0
  ELSE signalState[o]

\* KiSatisfyObjectWait for every object of a set, all on behalf of thread t.
\* A mutant whose count reaches 0 is now t's, with the abandoned mark wiped; the
\* status STATUS_ABANDONED stored meanwhile is overwritten in the same step.
KiSatisfyObjectWaits(objects, t) ==
  LET taken == {m \in objects \intersect Mutants : signalState[m] = 1}
  IN  /\ signalState' = [o \in Objects |-> IF o \in objects THEN SatisfiedState(o)
                                           ELSE signalState[o]]
      /\ ownerThread' = [m \in Mutants |-> IF m \in taken THEN t ELSE ownerThread[m]]
      /\ mutantList'  = [m \in Mutants |-> IF m \in taken THEN t ELSE mutantList[m]]
      /\ abandoned'   = [m \in Mutants |-> m \notin taken /\ abandoned[m]]

\* Mutated: InsertHeadList, the youngest waiter is served first.
LinkAtHead(list, t) == <<t>> \o list

\* InsertTailList of thread t's wait block.
Link(list, t) == Append(list, t)

\* Mutated: the chain of wait blocks is not followed.
RemoveFirstWaitBlock(t) ==
  waitListHead' = [o \in Objects |->
                     IF \E i \in DOMAIN request[t].objects : i = 1 /\ request[t].objects[i] = o
                       THEN Unlink(waitListHead[o], t) ELSE waitListHead[o]]

\* The wait blocks of thread t, all of WaitBlockList, leave their lists.
RemoveWaitBlocks(t) ==
  waitListHead' = [o \in Objects |-> Unlink(waitListHead[o], t)]

\* Ends the wait of a blocked thread.  A thread interrupted for a kernel APC is
\* still inside the wait call and will look at its objects again; for any other
\* status the call returns.
KiAbortWaitThread(t, status) ==
  /\ RemoveWaitBlocks(t)
  /\ timerInserted' = [timerInserted EXCEPT ![t] = FALSE]
  /\ state' = [state EXCEPT ![t] = "Ready"]
  /\ waitStatus' = [waitStatus EXCEPT ![t] = status]
  /\ request' = IF status = "kernel_apc" THEN request
                ELSE [request EXCEPT ![t] = NoRequest]

\* The object of the wait block at which the walk has arrived and those of the
\* blocks chained behind it: the ones KiSatisifyMultipleObjectWaits satisfies.
BlocksFrom(o, w) ==
  LET at == CHOOSE i \in DOMAIN w.objects : w.objects[i] = o
  IN  {w.objects[i] : i \in at .. Len(w.objects)}

\* Mutated: stops while the object is still signaled once.
WalkStopsEarly == waitListHead[walk] # << >> /\ signalState[walk] > 1

\* The condition of KiWaitTest's loop.
WalkGoesOn == waitListHead[walk] # << >> /\ signalState[walk] > 0

\* Release the oldest waiter of the walked object.  For a WaitAll waiter the
\* code tests, once for every further block, the walked object itself, which is
\* signaled inside this loop: the test cannot fail and nobody is skipped.
KiWaitTestStep ==
  /\ walk # NoObject /\ WalkGoesOn
  /\ LET t == Head(waitListHead[walk])
     IN  /\ request[t].type = "WaitAll" => KiIsObjectSignaled(walk, t)
         /\ KiSatisfyObjectWaits(IF request[t].type = "WaitAll"
                                   THEN BlocksFrom(walk, request[t]) ELSE {walk}, t)
         /\ KiAbortWaitThread(t, "wait_0")
  /\ UNCHANGED <<noticeVars, lockVars>>

\* The list is empty or the signal used up: the operation that walked it goes on.
KiWaitTestEnd ==
  /\ walk # NoObject /\ ~WalkGoesOn
  /\ signalState' = IF pulsing THEN [signalState EXCEPT ![walk] = 0] ELSE signalState
  /\ walk' = NoObject /\ pulsing' = FALSE
  /\ UNCHANGED <<waitListHead, mutantVars, threadVars, noticeVars, lockedBy>>

KiWaitTest == KiWaitTestStep \/ KiWaitTestEnd
-------------------------------------------------------------------------------
(* Events.  next is the caller when it asked to keep the lock (Wait = TRUE),  *)
(* NoThread otherwise.                                                        *)

CanKeepLock(next) ==
  next = NoThread \/ (next \in Threads /\ state[next] = "Ready"
                                       /\ request[next] = NoRequest)

KeSetEvent(e, next) ==
  /\ LockFree /\ CanKeepLock(next) /\ KeepLockFor(next)
  /\ UNCHANGED <<mutantVars, noticeVars, pulsing>>
  /\ IF waitListHead[e] = << >>
       THEN /\ signalState' = [signalState EXCEPT ![e] = 1]
            /\ UNCHANGED <<waitListHead, threadVars, walk>>
       ELSE LET t == Head(waitListHead[e])
            IN  IF e \in NotificationEvents \/ request[t].type = "WaitAll"
                  THEN /\ IF signalState[e] = 0
                            THEN /\ signalState' = [signalState EXCEPT ![e] = 1]
                                 /\ walk' = e
                            ELSE UNCHANGED <<signalState, walk>>
                       /\ UNCHANGED <<waitListHead, threadVars>>
                  ELSE /\ KiAbortWaitThread(t, "wait_0")
                       /\ UNCHANGED <<signalState, walk>>

KePulseEvent(e, next) ==
  /\ LockFree /\ CanKeepLock(next) /\ KeepLockFor(next)
  /\ IF signalState[e] = 0 /\ waitListHead[e] # << >>
       THEN /\ signalState' = [signalState EXCEPT ![e] = 1]
            /\ walk' = e /\ pulsing' = TRUE
       ELSE /\ signalState' = [signalState EXCEPT ![e] = 0]
            /\ UNCHANGED <<walk, pulsing>>
  /\ UNCHANGED <<waitListHead, mutantVars, threadVars, noticeVars>>

\* Mutated: the event counts down like a semaphore.
KeCountDownEvent(e) ==
  /\ LockFree
  /\ signalState' = [signalState EXCEPT ![e] = @ - 1]
  /\ UNCHANGED <<waitListHead, mutantVars, threadVars, noticeVars, lockVars>>

\* KeResetEvent, and KeClearEvent, which does the same store without the lock.
KeResetEvent(e) ==
  /\ LockFree
  /\ signalState' = [signalState EXCEPT ![e] = 0]
  /\ UNCHANGED <<waitListHead, mutantVars, threadVars, noticeVars, lockVars>>

\* Whatever it waits for besides, the oldest waiter alone is released.
KeSetEventBoostPriority(e) ==
  /\ LockFree
  /\ IF waitListHead[e] = << >>
       THEN /\ signalState' = [signalState EXCEPT ![e] = 1]
            /\ UNCHANGED <<waitListHead, threadVars>>
       ELSE /\ KiAbortWaitThread(Head(waitListHead[e]), "wait_0")
            /\ UNCHANGED signalState
  /\ UNCHANGED <<mutantVars, noticeVars, lockVars>>
-------------------------------------------------------------------------------
(* Semaphores and mutants. *)

\* The second test of the code, InitialState > InitialState + Adjustment on
\* unsigned longs, is true when the sum is 0 or more and the count below 0: such
\* a semaphore never counts up to 0 again.
LimitExceeded(s, adjustment) ==
  \/ Limit < signalState[s] + adjustment
  \/ signalState[s] < 0 /\ signalState[s] + adjustment >= 0

KeReleaseSemaphore(s, adjustment, next) ==
  /\ LockFree /\ CanKeepLock(next)
  /\ ~LimitExceeded(s, adjustment)        \* otherwise raises, nothing changed
  /\ KeepLockFor(next)
  /\ signalState' = [signalState EXCEPT ![s] = @ + adjustment]
  /\ walk' = IF signalState[s] = 0 /\ waitListHead[s] # << >> THEN s ELSE walk
  /\ UNCHANGED <<waitListHead, mutantVars, threadVars, noticeVars, pulsing>>

\* Mutated: recursive acquisitions are forgotten; a test off by one.
FreedAtOnce(m) == 1
HeldOnlyRecursively(m) == signalState[m] < 0

\* The count after one release, and whether the mutant is on a MutantListHead
\* from which a release that frees it must take it.
ReleasedCount(m) == signalState[m] + 1
OnMutantList(m) == signalState[m] <= 0

\* The part of KeReleaseMutant after the count is set: a mutant that is free
\* again leaves its owner and its waiters are looked at.
MutantReleased(m, count) ==
  /\ signalState' = [signalState EXCEPT ![m] = count]
  /\ IF count = 1
       THEN /\ mutantList' = IF OnMutantList(m)
                               THEN [mutantList EXCEPT ![m] = NoThread] ELSE mutantList
            /\ ownerThread' = [ownerThread EXCEPT ![m] = NoThread]
            /\ walk' = IF waitListHead[m] # << >> THEN m ELSE walk
       ELSE UNCHANGED <<mutantList, ownerThread, walk>>
  /\ UNCHANGED <<waitListHead, threadVars, noticeVars, pulsing>>

KeReleaseMutant(t, m, next) ==
  /\ LockFree /\ state[t] = "Ready" /\ request[t] = NoRequest
  /\ ownerThread[m] = t                   \* otherwise raises
  /\ KeepLockFor(next)
  /\ MutantReleased(m, ReleasedCount(m))
  /\ UNCHANGED abandoned

\* Mutated: mutants held more than once are left behind.
MutantsHeldOnce(t) == {m \in Mutants : mutantList[m] = t /\ signalState[m] = 0}

\* MutantListHead of thread t.
MutantsOf(t) == {m \in Mutants : mutantList[m] = t}

\* One round of the loop of PsTerminateCurrentThread over MutantListHead:
\* KeReleaseMutant with Abandon = TRUE.
AbandonMutant(t, m) ==
  /\ LockFree /\ state[t] = "Terminating" /\ m \in MutantsOf(t)
  /\ MutantReleased(m, 1)
  /\ abandoned' = [abandoned EXCEPT ![m] = TRUE]
  /\ UNCHANGED lockedBy
-------------------------------------------------------------------------------
(* Waiting: KeWaitForSingleObject, KeWaitForMultipleObjects and               *)
(* KeDelayExecutionThread, from taking the lock to returning or blocking.     *)

\* KeDelayExecutionThread tests the kernel mode flag whatever its WaitMode is.
TestedMode(w) == IF w.type = "Delay" THEN "KernelMode" ELSE w.mode

\* Nothing to take, or not everything: the thread must wait.
MustWait(t, w) ==
  CASE w.type = "WaitAny" -> \A o \in Members(w.objects) : ~KiIsObjectSignaled(o, t)
    [] w.type = "WaitAll" -> \E o \in Members(w.objects) : ~KiIsObjectSignaled(o, t)
    [] w.type = "Delay"   -> TRUE

\* What is taken at once otherwise: the first signaled object, or all of them.
Takes(t, w) ==
  IF w.type = "WaitAll" THEN Members(w.objects)
  ELSE {w.objects[i] : i \in {j \in DOMAIN w.objects :
          /\ KiIsObjectSignaled(w.objects[j], t)
          /\ \A k \in 1 .. j - 1 : ~KiIsObjectSignaled(w.objects[k], t)}}

Return(t, status) ==
  /\ request' = [request EXCEPT ![t] = NoRequest]
  /\ waitStatus' = [waitStatus EXCEPT ![t] = status]
  /\ UNCHANGED state

SatisfiedAtOnce(t, w) ==
  /\ ~MustWait(t, w)
  /\ w.type = "WaitAny" => \A o \in Takes(t, w) : signalState[o] # MinLong
  /\ KiSatisfyObjectWaits(Takes(t, w), t)
  /\ Return(t, "wait_0")
  /\ UNCHANGED <<waitListHead, timerInserted, alerted>>

\* STATUS_MUTANT_LIMIT_EXCEEDED is raised out of the wait.
RaisedLimit(t, w) ==
  /\ w.type = "WaitAny" /\ ~MustWait(t, w)
  /\ \E o \in Takes(t, w) : signalState[o] = MinLong
  /\ request' = [request EXCEPT ![t] = NoRequest]
  /\ UNCHANGED <<objectVars, mutantVars, state, waitStatus, timerInserted, alerted>>

\* A pending alert is taken into the wait status, and the thread waits all the
\* same: whatever ends the wait overwrites the status.
KiCheckAlertability(t, w) ==
  IF w.alertable /\ alerted[t][TestedMode(w)]
    THEN alerted' = [alerted EXCEPT ![t][TestedMode(w)] = FALSE]
    ELSE UNCHANGED alerted

StatusOnEntry(t, w) ==
  IF w.alertable /\ alerted[t][TestedMode(w)] THEN "alerted" ELSE "pending"

\* Mutated: the timer is linked but not marked as inserted.
KiInsertTimerUnmarked(t, w) ==
  timerInserted' = IF w.timeout = "none" THEN timerInserted
                   ELSE [timerInserted EXCEPT ![t] = FALSE]

\* KiInsertTimer on the thread's timer, for a wait that has a timeout.
KiInsertTimer(t, w) ==
  timerInserted' = CASE w.timeout = "later" -> [timerInserted EXCEPT ![t] = TRUE]
                     [] w.timeout = "past"  -> [timerInserted EXCEPT ![t] = FALSE]
                     [] OTHER               -> timerInserted

\* A timeout that has already passed ends an object wait here; a delay goes on
\* to block without a timer.
TimedOutAtOnce(t, w) ==
  /\ MustWait(t, w)
  /\ w.timeout \in {"zero", "past"} /\ w.type # "Delay"
  /\ KiCheckAlertability(t, w)
  /\ KiInsertTimer(t, w)
  /\ Return(t, "timeout")
  /\ UNCHANGED <<objectVars, mutantVars>>

\* PsBlockThread.  With a kernel APC pending the wait blocks are taken out of
\* their lists again (the thread's timer is not) and the thread stays ready.
BlocksOrSpins(t, w) ==
  /\ MustWait(t, w)
  /\ w.timeout \in {"none", "later"} \/ w.type = "Delay"
  /\ KiCheckAlertability(t, w)
  /\ request' = [request EXCEPT ![t] = w]
  /\ KiInsertTimer(t, w)
  /\ IF kernelApcPending[t]
       THEN /\ waitStatus' = [waitStatus EXCEPT ![t] = "kernel_apc"]
            /\ UNCHANGED <<state, waitListHead>>
       ELSE /\ waitStatus' = [waitStatus EXCEPT ![t] = StatusOnEntry(t, w)]
            /\ state' = [state EXCEPT ![t] = "Blocked"]
            /\ waitListHead' = [o \in Objects |->
                                  IF o \in Members(w.objects)
                                    THEN Link(waitListHead[o], t)
                                    ELSE waitListHead[o]]
  /\ UNCHANGED <<signalState, mutantVars>>

WaitLoop(t, w) ==
  /\ \/ SatisfiedAtOnce(t, w)
     \/ RaisedLimit(t, w)
     \/ TimedOutAtOnce(t, w)
     \/ BlocksOrSpins(t, w)
  /\ lockedBy' = NoThread
  /\ UNCHANGED <<kernelApcPending, walk, pulsing>>

BeginWait(t, w) ==
  /\ LockFor(t) /\ state[t] = "Ready" /\ request[t] = NoRequest
  /\ WaitLoop(t, w)

\* "Looping Again": after STATUS_KERNEL_APC the objects are looked at anew, and
\* a thread that must wait again goes to the tail of their lists.
RetryWait(t) ==
  /\ LockFree /\ state[t] = "Ready" /\ request[t] # NoRequest
  /\ WaitLoop(t, request[t])

\* KiExpireTimers reaches the thread's timer.  When the thread is not waiting
\* on it (see BlocksOrSpins) the timer merely leaves the list.
ExpireThreadTimer(t) ==
  /\ LockFree /\ timerInserted[t]
  /\ IF state[t] = "Blocked"
       THEN KiAbortWaitThread(t, "timeout")
       ELSE /\ timerInserted' = [timerInserted EXCEPT ![t] = FALSE]
            /\ UNCHANGED <<waitListHead, state, waitStatus, request>>
  /\ UNCHANGED <<signalState, mutantVars, noticeVars, lockVars>>
-------------------------------------------------------------------------------
(* Alerts, kernel APCs and termination. *)

\* Whether an alert in this mode breaks the wait thread t is in.
AlertBreaksWait(t, mode) ==
  /\ state[t] = "Blocked" /\ request[t].alertable
  /\ mode = "KernelMode" \/ request[t].mode = mode

KeAlertThread(t, mode) ==
  /\ LockFree /\ ~alerted[t][mode]
  /\ IF AlertBreaksWait(t, mode)
       THEN KiAbortWaitThread(t, "alerted") /\ UNCHANGED alerted
       ELSE /\ alerted' = [alerted EXCEPT ![t][mode] = TRUE]
            /\ UNCHANGED <<waitListHead, threadVars>>
  /\ UNCHANGED <<signalState, mutantVars, kernelApcPending, lockVars>>

\* KeInsertQueueApc for a kernel APC; a special one interrupts a wait (one that
\* began below APC_LEVEL: one that did not stands with the normal ones here).
KeInsertQueueApc(t, kind) ==
  /\ LockFree
  /\ kernelApcPending' = [kernelApcPending EXCEPT ![t] = TRUE]
  /\ IF state[t] = "Blocked" /\ kind = "special"
       THEN KiAbortWaitThread(t, "kernel_apc")
       ELSE UNCHANGED <<waitListHead, threadVars>>
  /\ UNCHANGED <<signalState, mutantVars, alerted, lockVars>>

\* KiDeliverApc as far as the dispatcher is concerned.
KiDeliverApc(t) ==
  /\ LockFree /\ state[t] = "Ready" /\ kernelApcPending[t]
  /\ kernelApcPending' = [kernelApcPending EXCEPT ![t] = FALSE]
  /\ UNCHANGED <<objectVars, mutantVars, threadVars, alerted, lockVars>>

\* The end of PsTerminateOtherThread: its APC is queued, and the thread, if it
\* waits on behalf of user mode, is taken out of the wait.
PsTerminateOtherThread(t) ==
  /\ LockFree /\ state[t] = "Blocked" /\ request[t].mode = "UserMode"
  /\ t \in Mortal /\ kernelApcPending[t]
  /\ KiAbortWaitThread(t, "terminating")
  /\ UNCHANGED <<signalState, mutantVars, noticeVars, lockVars>>

\* PsTerminateCurrentThread up to the loop that abandons the mutants; a thread
\* interrupted by its termination APC never goes back to its wait ...
BeginTerminate(t) ==
  /\ LockFree /\ state[t] = "Ready" /\ t \in Mortal
  /\ state' = [state EXCEPT ![t] = "Terminating"]
  /\ timerInserted' = [timerInserted EXCEPT ![t] = FALSE]
  /\ request' = [request EXCEPT ![t] = NoRequest]
  /\ UNCHANGED <<objectVars, mutantVars, waitStatus, noticeVars, lockVars>>

\* ... and from its end: the thread object is signaled.
EndTerminate(t) ==
  /\ LockFree /\ state[t] = "Terminating"
  /\ MutantsOf(t) = {}
  /\ state' = [state EXCEPT ![t] = "Terminated"]
  /\ signalState' = [signalState EXCEPT ![t] = 1]
  /\ walk' = t
  /\ UNCHANGED <<waitListHead, mutantVars, request, waitStatus, timerInserted,
                 noticeVars, pulsing, lockedBy>>
-------------------------------------------------------------------------------
\* Objects in any state their initialisation routines give them; a mutant may
\* be created with an owner.
Init ==
  /\ ownerThread \in [Mutants -> Threads \union {NoThread}]
  /\ \E event \in [Events -> {0, 1}], count \in [Semaphores -> 0 .. Limit] :
       signalState = [o \in Objects |->
                        CASE o \in Events     -> event[o]
                          [] o \in Semaphores -> count[o]
                          [] o \in Mutants    -> IF ownerThread[o] = NoThread THEN 1 ELSE 0
                          [] o \in Threads    -> 0]
  /\ waitListHead = [o \in Objects |-> << >>]
  /\ mutantList = ownerThread
  /\ abandoned = [m \in Mutants |-> FALSE]
  /\ state = [t \in Threads |-> "Ready"]
  /\ request = [t \in Threads |-> NoRequest]
  /\ waitStatus = [t \in Threads |-> "none"]
  /\ timerInserted = [t \in Threads |-> FALSE]
  /\ alerted = [t \in Threads |-> [mode \in Modes |-> FALSE]]
  /\ kernelApcPending = [t \in Threads |-> FALSE]
  /\ walk = NoObject /\ pulsing = FALSE /\ lockedBy = NoThread

SignalEvent ==
  \E e \in Events :
    \/ \E next \in Threads \union {NoThread} : KeSetEvent(e, next) \/ KePulseEvent(e, next)
    \/ KeResetEvent(e)
    \/ KeSetEventBoostPriority(e)

ReleaseSemaphore ==
  \E s \in Semaphores, n \in 1 .. Limit, next \in Threads \union {NoThread} :
    KeReleaseSemaphore(s, n, next)

ReleaseMutant(t) ==
  \E m \in Mutants, next \in {t, NoThread} : KeReleaseMutant(t, m, next)

Wait(t) == (\E w \in Requests : BeginWait(t, w)) \/ RetryWait(t)

Disturb(t) ==
  \/ \E mode \in AlertModes : KeAlertThread(t, mode)
  \/ \E kind \in ApcKinds : KeInsertQueueApc(t, kind)
  \/ KiDeliverApc(t)
  \/ PsTerminateOtherThread(t)

Terminate(t) ==
  BeginTerminate(t) \/ (\E m \in Mutants : AbandonMutant(t, m)) \/ EndTerminate(t)

Next ==
  \/ KiWaitTest
  \/ SignalEvent
  \/ ReleaseSemaphore
  \/ \E t \in Threads : \/ ReleaseMutant(t) \/ Wait(t) \/ ExpireThreadTimer(t)
                        \/ Disturb(t) \/ Terminate(t)

Spec == Init /\ [][Next]_vars

\* Fairness the scheduler justifies: a walk under the lock goes on, a thread
\* that kept the lock or was interrupted inside its wait runs, the clock expires
\* timers and pending APCs of a ready thread are delivered.  Strong where the
\* lock is needed: others may take it again and again, but on one processor it
\* is free whenever a DPC or another thread gets to run.
Progress ==
  /\ WF_vars(KiWaitTest)
  /\ \A t \in Threads :
       /\ WF_vars(lockedBy = t /\ Wait(t))
       /\ SF_vars(RetryWait(t))
       /\ SF_vars(ExpireThreadTimer(t))
       /\ SF_vars(KiDeliverApc(t))

\* In addition, that the owner of a mutant releases it is the caller's duty.
OwnersRelease ==
  \A t \in Threads, m \in Mutants : SF_vars(KeReleaseMutant(t, m, NoThread))

FairSpec == Spec /\ Progress
FairOwnersSpec == FairSpec /\ OwnersRelease
-------------------------------------------------------------------------------
\* Types; an event and a thread count 0 or 1.
TypeOK ==
  /\ signalState \in [Objects -> Int]
  /\ \A o \in Events \union Threads : signalState[o] \in {0, 1}
  /\ waitListHead \in [Objects -> Seq(Threads)]
  /\ ownerThread \in [Mutants -> Threads \union {NoThread}]
  /\ mutantList \in [Mutants -> Threads \union {NoThread}]
  /\ abandoned \in [Mutants -> BOOLEAN]
  /\ state \in [Threads -> ThreadStates]
  /\ request \in [Threads -> Requests \union {NoRequest}]
  /\ waitStatus \in [Threads -> Statuses]
  /\ timerInserted \in [Threads -> BOOLEAN]
  /\ alerted \in [Threads -> [Modes -> BOOLEAN]]
  /\ kernelApcPending \in [Threads -> BOOLEAN]
  /\ walk \in Objects \union {NoObject}
  /\ pulsing \in BOOLEAN
  /\ lockedBy \in Threads \union {NoThread}

\* The wait lists and the threads agree: a thread's block is linked in the list
\* of an object exactly while the thread is blocked in a wait that names the
\* object, and only once.  (The ASSERT of KiAbortWaitThread, for every object,
\* through walks, timeouts, alerts, APCs and terminations.)
WaitListsMatchThreads ==
  /\ \A o \in Objects, t \in Threads :
       t \in Members(waitListHead[o]) <=> state[t] = "Blocked" /\ o \in WaitsFor(t)
  /\ \A o \in Objects : \A i, j \in DOMAIN waitListHead[o] :
       waitListHead[o][i] = waitListHead[o][j] => i = j

\* No lost wake-up: once an operation has finished with an object, the object
\* does not stay signaled while a thread sleeps that waits for it alone or for
\* any of several.  (Only the waiters of the object being walked may be behind.)
NoMissedSignal ==
  \A o \in Objects \ {walk} :
    signalState[o] > 0 =>
      \A t \in Members(waitListHead[o]) : request[t].type # "WaitAny"

\* The three records of a mutant's ownership agree: it counts as taken exactly
\* while it has an owner and is on that thread's list, it is never counted free
\* more than once, and only a free mutant is marked abandoned.
MutantRecordsAgree ==
  \A m \in Mutants :
    /\ signalState[m] <= 0 <=> ownerThread[m] # NoThread
    /\ mutantList[m] = ownerThread[m]
    /\ signalState[m] <= 1
    /\ abandoned[m] => signalState[m] = 1

\* A terminated thread has left nothing behind: no mutant names it as its owner,
\* no list links it, no timer of it is running, and its waiters know.
TerminatedLeavesNothing ==
  \A t \in Threads : state[t] = "Terminated" =>
    /\ \A m \in Mutants : ownerThread[m] # t
    /\ \A o \in Objects : t \notin Members(waitListHead[o])
    /\ ~timerInserted[t] /\ signalState[t] = 1

\* A mutant leaves a thread that lives only when every recursive acquisition has
\* been released, and never passes from one thread to another in one step.
MutantLeavesAtLastRelease ==
  [][\A m \in Mutants : ownerThread'[m] # ownerThread[m] /\ ownerThread[m] # NoThread =>
       /\ ownerThread'[m] = NoThread
       /\ signalState[m] = 0 \/ state[ownerThread[m]] = "Terminating"]_vars

\* One signal ends one wait: a step that wakes a thread wakes no other.  A wait for any
\* of several objects is ended by at most one that is signaled, which, unless it stays
\* signaled for everybody, is signaled once less then; no other object's state changes,
\* and none at all where the wait is ended by something else.
OneSignalOneWait ==
  [][\A t \in Threads : state[t] = "Blocked" /\ state'[t] = "Ready" =>
       /\ \A u \in Threads \ {t} : state'[u] = state[u]
       /\ waitStatus'[t] # "wait_0" => signalState' = signalState
       /\ waitStatus'[t] = "wait_0" /\ request[t].type = "WaitAny" =>
            /\ \A o, p \in WaitsFor(t) : signalState[o] > 0 /\ signalState[p] > 0 => o = p
            /\ \A o \in Objects : signalState'[o] =
                 IF o \in WaitsFor(t) \ (NotificationEvents \union Threads) /\ signalState[o] > 0
                   THEN signalState[o] - 1 ELSE signalState[o]]_vars

\* A timed wait on objects ends whatever happens to the objects.
TimedWaitEnds ==
  \A t \in Threads :
    request[t].type # "Delay" /\ request[t] # NoRequest /\ request[t].timeout = "later"
      ~> request[t] = NoRequest

\* A thread that waits for one mutant gets it when its owners release: waiters
\* are served in order and a released mutant is handed over before anyone else
\* can take it.
MutantGranted ==
  \A t \in Threads, m \in Mutants :
    state[t] = "Blocked" /\ request[t].objects = <<m>> ~>
      ownerThread[m] = t \/ request[t].objects # <<m>>
-------------------------------------------------------------------------------
(* What comments of the code say and the code does not do. *)

\* KiWaitTest releases a WaitAll waiter only when all its objects are signaled
\* ("All the objects are signaled, we can satisfy").
WaitAllTakesSignaled ==
  [][\A t \in Threads :
       walk # NoObject /\ state[t] = "Blocked" /\ request[t].type = "WaitAll"
         /\ state'[t] = "Ready" =>
           \A o \in WaitsFor(t) : KiIsObjectSignaled(o, t)]_vars

\* The thread that takes an abandoned mutant is told so ("Return Status").
AbandonedReported ==
  [][\A m \in Mutants : abandoned[m] /\ ~abandoned'[m] =>
       waitStatus'[ownerThread'[m]] = "abandoned"]_vars

\* An alert found pending by an alertable wait becomes the status of the wait
\* ("If the Thread is Alerted, set the Wait Status accordingly").
AlertBecomesStatus ==
  [][\A t \in Threads, mode \in Modes : alerted[t][mode] /\ ~alerted'[t][mode] =>
       request'[t] = NoRequest /\ waitStatus'[t] = "alerted"]_vars

\* A delay lasts for an interval: it ends.
DelayEnds ==
  \A t \in Threads : request[t].type = "Delay" ~> request[t] = NoRequest

\* A timer is taken out of the timer list before it is inserted again ("Check if
\* it's inserted, and remove it if it is").
TimerInsertedOnce ==
  [][\A t \in Threads : Wait(t) /\ request'[t] # NoRequest /\ timerInserted'[t] =>
       ~timerInserted[t]]_vars
===============================================================================
