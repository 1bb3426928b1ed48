-------------------------------- MODULE KeQueue --------------------------------
(***************************************************************************)
(* Kernel queues (ntoskrnl/ke/queue.c): lists of entries served by the      *)
(* threads registered with the queue, of which no more than MaximumCount    *)
(* are meant to be active at a time.  Worker threads (ex/work.c) and I/O    *)
(* completion ports (io/iocomp.c) are built on them.                        *)
(*                                                                         *)
(* The count of active threads is kept by many hands: by KeRemoveQueue, by   *)
(* KiInsertQueue that hands an entry to a waiter, by every wait for another  *)
(* object of a registered thread (KiWakeQueue before PsBlockThread) and by   *)
(* whatever ends a wait (KiAbortWaitThread).                                 *)
(*                                                                         *)
(* Every operation is one step under the dispatcher database lock.  The      *)
(* objects of other waits are left out: such a wait may end at any time.     *)
(***************************************************************************)
EXTENDS Integers, Sequences, FiniteSets, Lists

CONSTANTS
  Threads,
  Queues,
  Entries,
  NoQueue,            \* the NULL queue pointer
  NoEntry,            \* a status instead of an entry, or nothing
  MaximumCount,       \* Queue->MaximumCount, the same for every queue
  Word,               \* the number of values of a ULONG
  Ends,               \* the ends at which entries are inserted
  ApcsInsert,         \* whether kernel APCs that interrupt KeRemoveQueue insert entries
  WaitsWithApcPending,\* whether a thread may block with KernelApcPending set
  Impatient,          \* the threads whose KeRemoveQueue may end without an entry
  Interrupted,        \* the threads that are sent special kernel APCs
  Mortal              \* the threads that may terminate

ASSUME QueuesAssumption ==
  /\ NoQueue \notin Queues /\ NoEntry \notin Entries
  /\ Impatient \subseteq Threads /\ Interrupted \subseteq Threads /\ Mortal \subseteq Threads
  /\ Ends \subseteq {"head", "tail"}
  /\ ApcsInsert \in BOOLEAN /\ WaitsWithApcPending \in BOOLEAN
ASSUME CountsAssumption ==
  /\ MaximumCount \in Nat \ {0}
  /\ Word \in Nat /\ MaximumCount < Word
  /\ IsFiniteSet(Threads) /\ Cardinality(Threads) < Word

VARIABLES
  entryListHead,     \* EntryListHead of every queue
  signalState,       \* Header.SignalState of every queue
  currentCount,      \* CurrentCount of every queue
  waitListHead,      \* Header.WaitListHead: the threads blocked in KeRemoveQueue
  initialized,       \* the queues that exist: initialised and not run down
  queue,             \* Thread->Queue
  place,             \* where the thread is, see Places
  entry,             \* the entry the thread was given and is working on
  kernelApcPending   \* Thread->ApcState.KernelApcPending

queueVars  == <<entryListHead, signalState, currentCount, waitListHead>>
threadVars == <<queue, place, entry>>
vars == <<queueVars, initialized, threadVars, kernelApcPending>>

\* Blocked in KeRemoveQueue or in a wait for some other object; woken from one
\* of them by a kernel APC and still inside the call ("Retry"); sent round its
\* loop by PsBlockThread because a kernel APC was pending ("Spin").
Places == {"Running", "QueueWait", "QueueRetry", "QueueSpin",
           "ObjectWait", "ObjectRetry", "ObjectSpin", "Terminated"}

Executing(t) == place[t] \notin {"QueueWait", "ObjectWait", "Terminated"}

\* ULONG arithmetic.
Inc(n) == (n + 1) % Word
Dec(n) == (n + Word - 1) % Word

HasRoom(count) == count < MaximumCount

Last(seq) == seq[Len(seq)]
Front(seq) == SubSeq(seq, 1, Len(seq) - 1)

-------------------------------------------------------------------------------
\* Mutated: the place that became free is offered to nobody.
WakesNobody(q) == FALSE

\* KiWakeQueue(q), called by a thread that becomes inactive: the youngest waiter
\* gets the oldest entry, if there are both and there is room.
WakesOne(q) ==
  HasRoom(Dec(currentCount[q])) /\ waitListHead[q] # << >> /\ entryListHead[q] # << >>

CountAfterWake(q) == IF WakesOne(q) THEN currentCount[q] ELSE Dec(currentCount[q])

Woken(q) == IF WakesOne(q) THEN {Last(waitListHead[q])} ELSE {}

\* The thread a new entry for queue q is handed to: the youngest waiter, unless
\* there is no room or the thread that inserts is itself taken out of its
\* KeRemoveQueue on this queue for an APC.
HandedTo(t, q) ==
  IF /\ HasRoom(currentCount[q]) /\ waitListHead[q] # << >>
     /\ queue[t] # q \/ place[t] # "QueueRetry"
    THEN {Last(waitListHead[q])} ELSE {}

\* Entries nobody has: in no queue and not in a thread's hands.
Free == {e \in Entries : /\ \A q \in Queues : e \notin Members(entryListHead[q])
                         /\ \A t \in Threads : entry[t] # e}

\* KeInsertQueue and KeInsertHeadQueue, executed by thread t or by a DPC that
\* interrupted it, of an entry that is free.
KiInsertQueue(t, q, e, end) ==
  /\ Executing(t) /\ q \in initialized /\ end \in Ends /\ e \in Free
  /\ place[t] = "QueueRetry" => ApcsInsert
  /\ \/ \E u \in HandedTo(t, q) :
          /\ currentCount' = [currentCount EXCEPT ![q] = Inc(@)]
          /\ waitListHead' = [waitListHead EXCEPT ![q] = Front(@)]
          /\ place' = [place EXCEPT ![u] = "Running"]
          /\ entry' = [entry EXCEPT ![u] = e]
          /\ UNCHANGED <<entryListHead, signalState>>
     \/ /\ HandedTo(t, q) = {}
        /\ signalState' = [signalState EXCEPT ![q] = @ + 1]
        /\ entryListHead' = [entryListHead EXCEPT ![q] = IF end = "head" THEN <<e>> \o @
                                                         ELSE Append(@, e)]
        /\ UNCHANGED <<currentCount, waitListHead, place, entry>>
  /\ UNCHANGED <<initialized, queue, kernelApcPending>>
-------------------------------------------------------------------------------
(* KeRemoveQueue. *)

\* The body of the loop, where the count of q stands at count, the lists of the
\* other queue changed as far as left says and the threads in woken have been
\* woken with its oldest entry.  left is the queue t was registered with before,
\* or NoQueue.
RemoveLoop(t, q, count, left, woken) ==
  LET takes == HasRoom(count) /\ entryListHead[q] # << >>
      Given(u) == IF u \in woken THEN Head(entryListHead[left]) ELSE entry[u]
      Counts(c) == [p \in Queues |-> IF p = q THEN c
                                     ELSE IF p = left THEN CountAfterWake(p)
                                     ELSE currentCount[p]]
      Lists(list) == [p \in Queues |->
                        IF p = q THEN list
                        ELSE IF p = left /\ woken # {} THEN Tail(entryListHead[p])
                        ELSE entryListHead[p]]
      Waiters(list) == [p \in Queues |->
                          IF p = q THEN list
                          ELSE IF p = left /\ woken # {} THEN Front(waitListHead[p])
                          ELSE waitListHead[p]]
      Goes(where) == place' = [u \in Threads |-> IF u = t THEN where
                                                 ELSE IF u \in woken THEN "Running"
                                                 ELSE place[u]]
      Returns(e) == /\ Goes("Running")
                    /\ entry' = [u \in Threads |-> IF u = t THEN e ELSE Given(u)]
                    /\ currentCount' = Counts(Inc(count))
                    /\ waitListHead' = Waiters(waitListHead[q])
  IN  /\ \/ /\ takes
            /\ Returns(Head(entryListHead[q]))
            /\ entryListHead' = Lists(Tail(entryListHead[q]))
         \/ /\ ~takes /\ t \in Impatient      \* zero timeout, or a user APC is pending
            /\ Returns(NoEntry)
            /\ entryListHead' = Lists(entryListHead[q])
         \/ /\ ~takes                        \* PsBlockThread
            /\ entry' = [u \in Threads |-> IF u = t THEN NoEntry ELSE Given(u)]
            /\ currentCount' = Counts(count)
            /\ entryListHead' = Lists(entryListHead[q])
            /\ IF kernelApcPending[t]
                 THEN Goes("QueueSpin") /\ waitListHead' = Waiters(waitListHead[q])
                 ELSE /\ Goes("QueueWait")
                      /\ waitListHead' = Waiters(Append(waitListHead[q], t))
      /\ queue' = [queue EXCEPT ![t] = q]
      /\ signalState' = [p \in Queues |-> Len(entryListHead'[p]) - Len(entryListHead[p])
                                          + signalState[p]]
      /\ UNCHANGED <<initialized, kernelApcPending>>

MayBlock(t) == kernelApcPending[t] => WaitsWithApcPending

\* Mutated: a thread that comes back to its queue still counts as active.
StillCounted(t, q) == currentCount[q]

\* The count of queue q once thread t has registered with it.
CountOnEntry(t, q) == IF queue[t] = q THEN Dec(currentCount[q]) ELSE currentCount[q]

KeRemoveQueue(t, q) ==
  /\ place[t] = "Running" /\ q \in initialized /\ MayBlock(t)
  /\ LET left == IF queue[t] = q THEN NoQueue ELSE queue[t]
     IN  RemoveLoop(t, q, CountOnEntry(t, q), left,
                    IF left = NoQueue THEN {} ELSE Woken(left))

\* "Looping again" after STATUS_KERNEL_APC; the count is decremented whether or
\* not the thread had been counted as active again.
RetryRemove(t) ==
  /\ place[t] \in {"QueueRetry", "QueueSpin"} /\ MayBlock(t)
  /\ RemoveLoop(t, queue[t], Dec(currentCount[queue[t]]), NoQueue, {})

\* The count of its queue when a thread is taken out of a wait.
CountAgain(t) ==
  [q \in Queues |-> IF q = queue[t] THEN Inc(currentCount[q]) ELSE currentCount[q]]

\* Any end of a wait but an entry: the timeout, a signaled object, a termination
\* ("Running") or a special kernel APC ("QueueRetry", "ObjectRetry").
KiAbortWaitThread(t, where) ==
  /\ currentCount' = CountAgain(t)
  /\ waitListHead' = [q \in Queues |-> Unlink(waitListHead[q], t)]
  /\ place' = [place EXCEPT ![t] = where]
  /\ UNCHANGED <<entryListHead, signalState, initialized, queue, entry>>

WaitEnds(t) ==
  /\ place[t] = "ObjectWait" \/ (place[t] = "QueueWait" /\ t \in Impatient)
  /\ KiAbortWaitThread(t, "Running")
  /\ UNCHANGED kernelApcPending
-------------------------------------------------------------------------------
(* Other waits of registered threads, APCs, termination, creation. *)

\* A wait for an object that has to block: KiWakeQueue, then PsBlockThread.
BlockOnObject(t) ==
  /\ queue[t] # NoQueue /\ MayBlock(t)
  /\ LET q == queue[t]
     IN  /\ currentCount' = [currentCount EXCEPT ![q] = CountAfterWake(q)]
         /\ place' = [u \in Threads |-> IF u = t THEN IF kernelApcPending[t] THEN "ObjectSpin"
                                                     ELSE "ObjectWait"
                                        ELSE IF u \in Woken(q) THEN "Running" ELSE place[u]]
         /\ IF Woken(q) = {}
              THEN UNCHANGED <<entryListHead, signalState, waitListHead, entry>>
              ELSE /\ entry' = [u \in Threads |-> IF u \in Woken(q) THEN Head(entryListHead[q])
                                                  ELSE entry[u]]
                   /\ entryListHead' = [entryListHead EXCEPT ![q] = Tail(@)]
                   /\ signalState' = [signalState EXCEPT ![q] = @ - 1]
                   /\ waitListHead' = [waitListHead EXCEPT ![q] = Front(@)]
  /\ UNCHANGED <<initialized, queue, kernelApcPending>>

KeWaitForObject(t) == place[t] = "Running" /\ BlockOnObject(t)

\* The loop of the object wait after STATUS_KERNEL_APC: it finds its object
\* signaled and returns, or blocks again.
FindsObjectSignaled(t) ==
  /\ place[t] \in {"ObjectRetry", "ObjectSpin"}
  /\ place' = [place EXCEPT ![t] = "Running"]
  /\ UNCHANGED <<queueVars, initialized, queue, entry, kernelApcPending>>

RetryObject(t) ==
  \/ FindsObjectSignaled(t)
  \/ place[t] \in {"ObjectRetry", "ObjectSpin"} /\ BlockOnObject(t)

\* KeInsertQueueApc for a special kernel APC.
KeInsertQueueApc(t) ==
  /\ t \in Interrupted /\ place[t] # "Terminated" /\ ~kernelApcPending[t]
  /\ kernelApcPending' = [kernelApcPending EXCEPT ![t] = TRUE]
  /\ CASE place[t] = "QueueWait"  -> KiAbortWaitThread(t, "QueueRetry")
       [] place[t] = "ObjectWait" -> KiAbortWaitThread(t, "ObjectRetry")
       [] OTHER -> UNCHANGED <<queueVars, initialized, threadVars>>

KiDeliverApc(t) ==
  /\ Executing(t) /\ kernelApcPending[t]
  /\ kernelApcPending' = [kernelApcPending EXCEPT ![t] = FALSE]
  /\ UNCHANGED <<queueVars, initialized, threadVars>>

\* PsTerminateCurrentThread: nothing is done about the thread's queue.
Terminate(t) ==
  /\ Executing(t) /\ t \in Mortal
  /\ place' = [place EXCEPT ![t] = "Terminated"]
  /\ entry' = [entry EXCEPT ![t] = NoEntry]
  /\ UNCHANGED <<queueVars, initialized, queue, kernelApcPending>>

\* KeInitializeQueue.
KeInitializeQueue(q) ==
  /\ q \notin initialized
  /\ initialized' = initialized \union {q}
  /\ entryListHead' = [entryListHead EXCEPT ![q] = << >>]
  /\ signalState' = [signalState EXCEPT ![q] = 0]
  /\ currentCount' = [currentCount EXCEPT ![q] = 0]
  /\ waitListHead' = [waitListHead EXCEPT ![q] = << >>]
  /\ UNCHANGED <<threadVars, kernelApcPending>>

\* Thread->Queue after ThreadListHead of q has been unlinked.
UnlinkThreads(q) == [t \in Threads |-> IF queue[t] = q THEN NoQueue ELSE queue[t]]

\* KeRundownQueue, when the last reference to the queue has gone: nobody is
\* inside KeRemoveQueue on it.  Its entries go back to the caller.
KeRundownQueue(q) ==
  /\ q \in initialized
  /\ \A t \in Threads : queue[t] = q => place[t] \notin {"QueueWait", "QueueRetry", "QueueSpin"}
  /\ initialized' = initialized \ {q}
  /\ entryListHead' = [entryListHead EXCEPT ![q] = << >>]
  /\ signalState' = [signalState EXCEPT ![q] = 0]
  /\ queue' = UnlinkThreads(q)
  /\ UNCHANGED <<currentCount, waitListHead, place, entry, kernelApcPending>>
-------------------------------------------------------------------------------
Init ==
  /\ entryListHead = [q \in Queues |-> << >>]
  /\ signalState = [q \in Queues |-> 0]
  /\ currentCount = [q \in Queues |-> 0]
  /\ waitListHead = [q \in Queues |-> << >>]
  /\ initialized = Queues
  /\ queue = [t \in Threads |-> NoQueue]
  /\ place = [t \in Threads |-> "Running"]
  /\ entry = [t \in Threads |-> NoEntry]
  /\ kernelApcPending = [t \in Threads |-> FALSE]

Next ==
  \/ \E t \in Threads :
       \/ \E q \in Queues :
            \/ KeRemoveQueue(t, q)
            \/ \E e \in Entries, end \in {"head", "tail"} : KiInsertQueue(t, q, e, end)
       \/ RetryRemove(t) \/ KeWaitForObject(t) \/ RetryObject(t) \/ WaitEnds(t)
       \/ KeInsertQueueApc(t) \/ KiDeliverApc(t) \/ Terminate(t)
  \/ \E q \in Queues : KeInitializeQueue(q) \/ KeRundownQueue(q)

Spec == Init /\ [][Next]_vars

\* The threads of a queue come back to it, as ExpWorkerThreadEntryPoint does, the
\* objects they wait for are signaled, pending APCs are delivered.  Strong where
\* an APC may come in between: the thread gets to run without one now and then.
ComesBack(t) == \E q \in Queues : q = queue[t] /\ KeRemoveQueue(t, q)

FairSpec ==
  /\ Spec
  /\ \A t \in Threads :
       /\ SF_vars(ComesBack(t))
       /\ SF_vars(RetryRemove(t))
       /\ SF_vars(FindsObjectSignaled(t) \/ (place[t] = "ObjectWait" /\ WaitEnds(t)))
       /\ WF_vars(KiDeliverApc(t))
-------------------------------------------------------------------------------
\* Types of the fields.
TypeOK ==
  /\ entryListHead \in [Queues -> Seq(Entries)]
  /\ signalState \in [Queues -> Nat]
  /\ currentCount \in [Queues -> 0 .. Word - 1]
  /\ waitListHead \in [Queues -> Seq(Threads)]
  /\ initialized \subseteq Queues
  /\ queue \in [Threads -> Queues \union {NoQueue}]
  /\ place \in [Threads -> Places]
  /\ entry \in [Threads -> Entries \union {NoEntry}]
  /\ kernelApcPending \in [Threads -> BOOLEAN]

\* "Returns number of entries in the queue": SignalState counts the list, and an
\* entry is in one list at most, once, or in the hands of one thread at most:
\* hand-over, retry and wake-up neither lose nor duplicate an entry.
EntriesAreOnce ==
  /\ \A q \in Queues : signalState[q] = Len(entryListHead[q])
  /\ \A p, q \in Queues : \A i \in DOMAIN entryListHead[p], j \in DOMAIN entryListHead[q] :
       entryListHead[p][i] = entryListHead[q][j] => p = q /\ i = j
  /\ \A t, u \in Threads : t # u /\ entry[t] # NoEntry => entry[t] # entry[u]
  /\ \A t \in Threads, q \in Queues : entry[t] \notin Members(entryListHead[q])

\* The waiters of a queue are the threads blocked in KeRemoveQueue on it, once,
\* and no live thread is registered with a queue that is gone.
RegisteredWhereTheyWait ==
  /\ \A q \in Queues, t \in Threads :
       t \in Members(waitListHead[q]) <=> place[t] = "QueueWait" /\ queue[t] = q
  /\ \A q \in Queues : NoDuplicates(waitListHead[q])
  /\ \A t \in Threads : queue[t] \in initialized \union {NoQueue}

\* The threads registered with queue q that are not blocked.
Active(q) == {t \in Threads : queue[t] = q /\ place[t] \notin {"QueueWait", "ObjectWait",
                                                               "ObjectSpin", "QueueSpin",
                                                               "Terminated"}}

\* "Decrement the number of active threads": CurrentCount is that number, as long
\* as no thread terminates while registered (see WorkersSurviveExit) or goes
\* round a wait with a kernel APC pending.
CountIsActiveThreads ==
  \A q \in initialized :
    (\A t \in Threads : queue[t] = q =>
       place[t] \notin {"QueueSpin", "ObjectSpin", "Terminated"})
      => currentCount[q] = Cardinality(Active(q))

\* An entry lies in queue q, which has room, and a thread waits for one.
PassedBy(q) ==
  q \in initialized /\ entryListHead[q] # << >> /\ waitListHead[q] # << >>
    /\ HasRoom(currentCount[q])

\* Whatever frees room in a queue, brings an entry or a waiter looks whether the
\* other two are there: entries and waiters come to face each other only when a
\* thread inserts from an APC that took it out of its own KeRemoveQueue.
NoEntryWaitsWithRoom ==
  [][\A q \in Queues : PassedBy(q)' /\ ~PassedBy(q) =>
       \E t \in Threads : /\ queue[t] = q /\ place[t] = "QueueRetry"
                          /\ entryListHead'[q] # entryListHead[q]]_vars

\* An entry is handed out only while fewer than MaximumCount threads are active:
\* the limit is exceeded by threads that come back from other waits, never by
\* handing out work.
LimitKeptOnHandOut ==
  [][\A q \in initialized : \A t \in Threads :
       entry'[t] # entry[t] /\ entry'[t] # NoEntry /\ queue'[t] = q
         => Cardinality(Active(q)') <= MaximumCount]_vars

\* No entry is lost or doubled, the waiters of a queue are those that wait, and the count
\* of active threads is that of the threads that are.
QueuesConsistent ==
  TypeOK /\ EntriesAreOnce /\ RegisteredWhereTheyWait /\ CountIsActiveThreads

\* The queues are consistent, no entry is left beside a waiter while there is room, and no step
\* hands one out when there is none.
WorkIsHandedOut == []QueuesConsistent /\ NoEntryWaitsWithRoom /\ LimitKeptOnHandOut

\* A KeRemoveQueue ends without an entry (a timeout, an alert) or is interrupted
\* while it waits for one.
FruitlessWait ==
  \E t \in Threads :
    /\ place[t] \in {"Running", "QueueWait", "QueueRetry", "QueueSpin"}
    /\ (\E q \in Queues : KeRemoveQueue(t, q)) \/ RetryRemove(t) \/ WaitEnds(t)
         \/ (place[t] = "QueueWait" /\ KeInsertQueueApc(t))
    /\ place'[t] \in {"Running", "QueueRetry"} /\ entry'[t] = NoEntry

\* A queue with entries is served as long as a thread is registered with it,
\* unless threads time out or are interrupted for ever, or terminate while they
\* are registered: moves between queues and waits elsewhere do not stop it.
QueueIsServed ==
  \/ []<><<FruitlessWait>>_vars
  \/ <>(\E t \in Threads : place[t] = "Terminated" /\ queue[t] # NoQueue)
  \/ \A q \in Queues : entryListHead[q] # << >> ~>
       \/ entryListHead[q] = << >> \/ \A t \in Threads : queue[t] # q
       \/ \E t \in Threads : queue[t] = q /\ entry[t] # NoEntry

\* "To kill a worker thread you must queue an item whose callback calls
\* PsTerminateSystemThread": the workers that are left go on with the work.
WorkersSurviveExit ==
  \A q \in Queues : entryListHead[q] # << >> /\ (\E t \in Threads \ Mortal : queue[t] = q) ~>
    \/ entryListHead[q] = << >> \/ \A t \in Threads \ Mortal : queue[t] # q
    \/ \E t \in Threads \ Mortal : queue[t] = q /\ entry[t] # NoEntry
===============================================================================
