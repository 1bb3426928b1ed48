----------------------------- MODULE KeQueueProofs -----------------------------
(***************************************************************************)
(* Theorems about KeQueue, for any number of threads, queues and entries, and *)
(* about KeDeviceQueue, for any number of packets.                            *)
(*                                                                         *)
(* Entries and waiters are kept right whatever the threads do.  The count of  *)
(* active threads is right, and with it the hand-out of work, as long as no    *)
(* thread blocks with a kernel APC pending: each round of PsBlockThread's       *)
(* loop takes such a thread off the count once more.                          *)
(*                                                                         *)
(* A device queue keeps its order only while it has one: a packet without a    *)
(* key is linked behind all others.                                           *)
(***************************************************************************)
EXTENDS KeQueue, KeDeviceQueue, ListLemmas, FiniteSetTheorems

(* Arithmetic of the count. *)

LEMMA Counting ==
  ASSUME NEW n \in 0 .. Word - 1
  PROVE  /\ Inc(n) \in 0 .. Word - 1 /\ Dec(n) \in 0 .. Word - 1
         /\ n + 1 < Word => Inc(n) = n + 1
         /\ n > 0 => Dec(n) = n - 1
<1>1. Word \in Nat /\ Word > 0
  BY CountsAssumption
<1>2. Inc(n) \in 0 .. Word - 1
  BY <1>1 DEF Inc
<1>3. Dec(n) \in 0 .. Word - 1
  BY <1>1 DEF Dec
<1>4. n + 1 < Word => Inc(n) = n + 1
  BY <1>1 DEF Inc
<1>5. n > 0 => Dec(n) = n - 1
  BY <1>1 DEF Dec
<1> QED
  BY <1>2, <1>3, <1>4, <1>5
-------------------------------------------------------------------------------
(* Entries. *)

\* EntriesAreOnce with the lists as sets.
EntriesInOnePlace ==
  /\ \A q \in Queues : signalState[q] = Len(entryListHead[q]) /\ NoDuplicates(entryListHead[q])
  /\ \A p, q \in Queues : p # q => Members(entryListHead[p]) \cap Members(entryListHead[q]) = {}
  /\ \A t, u \in Threads : t # u /\ entry[t] # NoEntry => entry[t] # entry[u]
  /\ \A t \in Threads, q \in Queues : entry[t] \notin Members(entryListHead[q])

LEMMA EntriesAlike == EntriesAreOnce <=> EntriesInOnePlace
<1>1. ASSUME EntriesAreOnce PROVE EntriesInOnePlace
  BY <1>1 DEF EntriesAreOnce, EntriesInOnePlace, Members, NoDuplicates
<1>2. ASSUME EntriesInOnePlace PROVE EntriesAreOnce
  <2>1. ASSUME NEW p \in Queues, NEW q \in Queues,
               NEW i \in DOMAIN entryListHead[p], NEW j \in DOMAIN entryListHead[q],
               entryListHead[p][i] = entryListHead[q][j]
        PROVE  p = q /\ i = j
    <3>1. p = q
      BY <1>2, <2>1 DEF EntriesInOnePlace, Members
    <3> QED
      BY <1>2, <2>1, <3>1 DEF EntriesInOnePlace, NoDuplicates
  <2> QED
    BY <1>2, <2>1 DEF EntriesInOnePlace, EntriesAreOnce
<1> QED
  BY <1>1, <1>2

EntryTypes ==
  /\ entryListHead \in [Queues -> Seq(Entries)]
  /\ signalState \in [Queues -> Nat]
  /\ entry \in [Threads -> Entries \union {NoEntry}]

\* Threads that are given the first entry of a queue, one thread of each queue
\* that is served, and threads that drop theirs.
LEMMA TakingKeepsEntries ==
  ASSUME EntryTypes, EntriesInOnePlace,
         NEW served \in SUBSET Queues, NEW taker \in [served -> Threads],
         entryListHead' \in [Queues -> Seq(Entries)],
         DOMAIN signalState' = Queues, signalState' = [q \in Queues |-> signalState'[q]],
         entry' \in [Threads -> Entries \union {NoEntry}],
         \A q \in served : /\ entryListHead[q] # << >>
                           /\ entryListHead'[q] = Tail(entryListHead[q])
                           /\ signalState'[q] = signalState[q] - 1
                           /\ entry'[taker[q]] = Head(entryListHead[q]),
         \A q \in Queues \ served : /\ entryListHead'[q] = entryListHead[q]
                                    /\ signalState'[q] = signalState[q],
         \A t \in Threads : entry'[t] \in {entry[t], NoEntry} \/ \E q \in served : taker[q] = t
  PROVE  EntriesInOnePlace' /\ EntryTypes'
<1>1. \A q \in Queues : /\ entryListHead[q] \in Seq(Entries)
                        /\ NoDuplicates(entryListHead[q])
                        /\ signalState[q] = Len(entryListHead[q])
  BY DEF EntryTypes, EntriesInOnePlace
<1>2. ASSUME NEW q \in served
      PROVE  /\ Head(entryListHead[q]) \in Entries
             /\ Head(entryListHead[q]) \in Members(entryListHead[q])
             /\ NoDuplicates(entryListHead'[q])
             /\ Members(entryListHead'[q]) = Members(entryListHead[q]) \ {Head(entryListHead[q])}
             /\ signalState'[q] \in Nat /\ signalState'[q] = Len(entryListHead'[q])
  <2>1. q \in Queues /\ entryListHead[q] # << >> /\ entryListHead'[q] = Tail(entryListHead[q])
    OBVIOUS
  <2>2. /\ Head(entryListHead[q]) \in Entries
        /\ Head(entryListHead[q]) \in Members(entryListHead[q])
    BY <1>1, <2>1, HeadIsMember
  <2>3. /\ NoDuplicates(Tail(entryListHead[q]))
        /\ Members(Tail(entryListHead[q])) = Members(entryListHead[q]) \ {Head(entryListHead[q])}
    BY <1>1, <2>1, TailDrops
  <2>4. Len(Tail(entryListHead[q])) = Len(entryListHead[q]) - 1 /\ Len(entryListHead[q]) \in Nat \ {0}
    BY <1>1, <2>1, HeadTailProperties, EmptySeq
  <2>5. signalState'[q] = Len(entryListHead[q]) - 1
    BY <1>1, <2>1
  <2>6. signalState'[q] \in Nat /\ signalState'[q] = Len(entryListHead'[q])
    BY <2>1, <2>4, <2>5
  <2> QED
    BY <2>1, <2>2, <2>3, <2>6
<1>3. ASSUME NEW q \in Queues
      PROVE  /\ NoDuplicates(entryListHead'[q])
             /\ Members(entryListHead'[q]) \subseteq Members(entryListHead[q])
             /\ signalState'[q] \in Nat /\ signalState'[q] = Len(entryListHead'[q])
  <2>1. CASE q \in served
    BY <1>2, <2>1
  <2>2. CASE q \notin served
    <3>1. entryListHead'[q] = entryListHead[q] /\ signalState'[q] = signalState[q]
      BY <2>2
    <3> QED
      BY <1>1, <3>1, LenProperties
  <2> QED
    BY <2>1, <2>2
<1>4. ASSUME NEW t \in Threads
      PROVE  /\ entry[t] \in Entries \union {NoEntry}
             /\ \/ entry'[t] = entry[t]
                \/ entry'[t] = NoEntry
                \/ \E q \in served : taker[q] = t /\ entry'[t] = Head(entryListHead[q])
  <2>1. entry[t] \in Entries \union {NoEntry}
    BY DEF EntryTypes
  <2>2. ASSUME NEW q \in served, taker[q] = t PROVE entry'[t] = Head(entryListHead[q])
    BY <2>2
  <2> QED
    BY <2>1, <2>2
<1>5. EntryTypes'
  BY <1>3 DEF EntryTypes
<1>6. ASSUME NEW p \in Queues, NEW q \in Queues, p # q
      PROVE  Members(entryListHead'[p]) \cap Members(entryListHead'[q]) = {}
  <2>1. Members(entryListHead[p]) \cap Members(entryListHead[q]) = {}
    BY <1>6 DEF EntriesInOnePlace
  <2> QED
    BY <1>3, <2>1
<1>7. ASSUME NEW t \in Threads, NEW u \in Threads, t # u, entry'[t] # NoEntry
      PROVE  entry'[t] # entry'[u]
  <2>1. \A v, w \in Threads : v # w /\ entry[v] # NoEntry => entry[v] # entry[w]
    BY DEF EntriesInOnePlace
  <2>2. \A v \in Threads, q \in Queues : entry[v] \notin Members(entryListHead[q])
    BY DEF EntriesInOnePlace
  <2>3. \A p, q \in served : Head(entryListHead[p]) = Head(entryListHead[q]) => p = q
    BY <1>2 DEF EntriesInOnePlace
  <2>4. CASE entry'[t] = entry[t]
    BY <1>2, <1>4, <1>7, <2>1, <2>2, <2>4
  <2>5. CASE \E q \in served : taker[q] = t /\ entry'[t] = Head(entryListHead[q])
    <3> PICK q \in served : taker[q] = t /\ entry'[t] = Head(entryListHead[q])
      BY <2>5
    <3>1. CASE entry'[u] = entry[u]
      BY <1>2, <2>2, <3>1
    <3>2. CASE entry'[u] = NoEntry
      BY <1>7, <3>2
    <3>3. CASE \E p \in served : taker[p] = u /\ entry'[u] = Head(entryListHead[p])
      BY <1>7, <2>3, <3>3
    <3> QED
      BY <1>4, <3>1, <3>2, <3>3
  <2> QED
    BY <1>4, <1>7, <2>4, <2>5
<1>8. ASSUME NEW t \in Threads, NEW q \in Queues
      PROVE  entry'[t] \notin Members(entryListHead'[q])
  <2>1. NoEntry \notin Members(entryListHead[q])
    BY <1>1, QueuesAssumption DEF Members
  <2>2. entry[t] \notin Members(entryListHead[q])
    BY DEF EntriesInOnePlace
  <2>3. ASSUME NEW p \in served PROVE Head(entryListHead[p]) \notin Members(entryListHead'[q])
    <3>1. CASE p = q
      BY <1>2, <3>1
    <3>2. CASE p # q
      BY <1>2, <1>3, <3>2 DEF EntriesInOnePlace
    <3> QED
      BY <3>1, <3>2
  <2>4. Members(entryListHead'[q]) \subseteq Members(entryListHead[q])
    BY <1>3
  <2>5. CASE entry'[t] = entry[t]
    BY <2>2, <2>4, <2>5
  <2>6. CASE entry'[t] = NoEntry
    BY <2>1, <2>4, <2>6
  <2>7. CASE \E p \in served : taker[p] = t /\ entry'[t] = Head(entryListHead[p])
    BY <2>3, <2>7
  <2> QED
    BY <1>4, <2>5, <2>6, <2>7
<1> QED
  BY <1>3, <1>5, <1>6, <1>7, <1>8 DEF EntriesInOnePlace
-------------------------------------------------------------------------------
(* Waiters. *)

\* The threads blocked in KeRemoveQueue on queue q.
Waiting(q) == {t \in Threads : place[t] = "QueueWait" /\ queue[t] = q}

WaitersAreListed ==
  /\ \A q \in Queues : NoDuplicates(waitListHead[q]) /\ Members(waitListHead[q]) = Waiting(q)
  /\ \A t \in Threads : queue[t] \in initialized \union {NoQueue}
  /\ \A t \in Threads : place[t] \in {"QueueWait", "QueueRetry", "QueueSpin"} => queue[t] # NoQueue

WaiterTypes ==
  /\ waitListHead \in [Queues -> Seq(Threads)]
  /\ currentCount \in [Queues -> 0 .. Word - 1]
  /\ initialized \subseteq Queues
  /\ queue \in [Threads -> Queues \union {NoQueue}]
  /\ place \in [Threads -> Places]
  /\ kernelApcPending \in [Threads -> BOOLEAN]

LEMMA TypesApart == TypeOK <=> EntryTypes /\ WaiterTypes
BY DEF TypeOK, EntryTypes, WaiterTypes

LEMMA WaitersAlike ==
  WaiterTypes /\ WaitersAreListed => RegisteredWhereTheyWait
BY DEF WaiterTypes, WaitersAreListed, RegisteredWhereTheyWait, Waiting

\* The thread KiWakeQueue or KiInsertQueue takes off the waiters of a queue.
LEMMA WaiterIsTaken ==
  ASSUME WaiterTypes, WaitersAreListed, NEW q \in Queues, waitListHead[q] # << >>
  PROVE  LET u == Last(waitListHead[q])
         IN  /\ u \in Threads /\ place[u] = "QueueWait" /\ queue[u] = q
             /\ Front(waitListHead[q]) \in Seq(Threads)
             /\ NoDuplicates(Front(waitListHead[q]))
             /\ Members(Front(waitListHead[q])) = Waiting(q) \ {u}
<1>1. waitListHead[q] \in Seq(Threads) /\ NoDuplicates(waitListHead[q])
      /\ Members(waitListHead[q]) = Waiting(q)
  BY DEF WaiterTypes, WaitersAreListed
<1>2. /\ Front(waitListHead[q]) \in Seq(Threads)
      /\ NoDuplicates(Front(waitListHead[q]))
      /\ Last(waitListHead[q]) \in Members(waitListHead[q])
      /\ Members(Front(waitListHead[q])) = Members(waitListHead[q]) \ {Last(waitListHead[q])}
  BY <1>1, FrontDrops DEF Front, Last
<1> QED
  BY <1>1, <1>2 DEF Waiting
-------------------------------------------------------------------------------
(* KeRemoveQueue as one operation: entered, or entered again. *)

\* The queue that thread t leaves, and the threads that are woken there.
Left(t, q) == IF queue[t] = q THEN NoQueue ELSE queue[t]
WokenBy(t, q) == IF Left(t, q) = NoQueue THEN {} ELSE Woken(Left(t, q))

Enters(t, q) ==
  /\ q \in initialized /\ place[t] \in {"Running", "QueueRetry", "QueueSpin"} /\ MayBlock(t)
  /\ RemoveLoop(t, q, CountOnEntry(t, q), Left(t, q), WokenBy(t, q))

\* There is an entry for thread t in queue q.
Takes(t, q) == HasRoom(CountOnEntry(t, q)) /\ entryListHead[q] # << >>

LEMMA RemoveEnters ==
  ASSUME WaiterTypes, WaitersAreListed, NEW t \in Threads
  PROVE  /\ \A q \in Queues : KeRemoveQueue(t, q) => Enters(t, q)
         /\ RetryRemove(t) => queue[t] \in Queues /\ Enters(t, queue[t])
<1>1. ASSUME NEW q \in Queues, KeRemoveQueue(t, q) PROVE Enters(t, q)
  BY <1>1 DEF KeRemoveQueue, Enters, Left, WokenBy
<1>2. ASSUME RetryRemove(t) PROVE queue[t] \in Queues /\ Enters(t, queue[t])
  <2>1. queue[t] \in initialized /\ queue[t] \in Queues
    BY <1>2 DEF RetryRemove, WaitersAreListed, WaiterTypes
  <2>2. /\ CountOnEntry(t, queue[t]) = Dec(currentCount[queue[t]])
        /\ Left(t, queue[t]) = NoQueue /\ WokenBy(t, queue[t]) = {}
    BY DEF CountOnEntry, Left, WokenBy
  <2> QED
    BY <1>2, <2>1, <2>2 DEF RetryRemove, Enters
<1> QED
  BY <1>1, <1>2

\* What the loop's body does to the thread and to each queue.
LEMMA EnterDoes ==
  ASSUME EntryTypes, WaiterTypes, NEW t \in Threads, NEW q \in Queues, Enters(t, q)
  PROVE  LET left == Left(t, q)  woken == WokenBy(t, q)  count == CountOnEntry(t, q)
         IN  /\ queue' = [queue EXCEPT ![t] = q]
             /\ initialized' = initialized /\ kernelApcPending' = kernelApcPending
             /\ entryListHead' = [p \in Queues |->
                  IF (p = q /\ Takes(t, q)) \/ (p = left /\ woken # {})
                    THEN Tail(entryListHead[p]) ELSE entryListHead[p]]
             /\ signalState' = [p \in Queues |-> Len(entryListHead'[p]) - Len(entryListHead[p])
                                                   + signalState[p]]
             /\ place' = [u \in Threads |-> IF u = t THEN place'[t]
                                            ELSE IF u \in woken THEN "Running" ELSE place[u]]
             /\ place'[t] \in {"Running", "QueueWait", "QueueSpin"}
             /\ place'[t] = "QueueSpin" => kernelApcPending[t]
             /\ Takes(t, q) => place'[t] = "Running"
             /\ entry' = [u \in Threads |-> IF u = t THEN IF Takes(t, q) THEN Head(entryListHead[q])
                                                          ELSE NoEntry
                                            ELSE IF u \in woken THEN Head(entryListHead[left])
                                            ELSE entry[u]]
             /\ waitListHead' = [p \in Queues |->
                  IF p = q THEN IF place'[t] = "QueueWait" THEN Append(waitListHead[q], t)
                                ELSE waitListHead[q]
                  ELSE IF p = left /\ woken # {} THEN Front(waitListHead[p])
                  ELSE waitListHead[p]]
             /\ currentCount' = [p \in Queues |->
                  IF p = q THEN IF place'[t] = "Running" THEN Inc(count) ELSE count
                  ELSE IF p = left THEN CountAfterWake(p) ELSE currentCount[p]]
<1>1. RemoveLoop(t, q, CountOnEntry(t, q), Left(t, q), WokenBy(t, q))
  BY DEF Enters
<1>2. Left(t, q) # q /\ (Left(t, q) \in Queues \/ Left(t, q) = NoQueue)
  BY QueuesAssumption DEF Left, WaiterTypes
<1>3. Left(t, q) = NoQueue => WokenBy(t, q) = {}
  BY DEF WokenBy
<1>4. NoQueue \notin Queues
  BY QueuesAssumption
<1>5. entryListHead = [p \in Queues |-> entryListHead[p]]
  BY DEF EntryTypes
<1> DEFINE left == Left(t, q)  woken == WokenBy(t, q)  count == CountOnEntry(t, q)
<1> HIDE DEF left, woken, count
<1>6. RemoveLoop(t, q, count, left, woken)
  BY <1>1 DEF left, woken, count
<1>7. Takes(t, q) <=> HasRoom(count) /\ entryListHead[q] # << >>
  BY DEF Takes, count
<1>8. left # q
  BY <1>2 DEF left
<1>9. CASE Takes(t, q)
  BY <1>5, <1>6, <1>7, <1>8, <1>9 DEF RemoveLoop, left, woken, count
<1>10. CASE ~Takes(t, q)
  BY <1>5, <1>6, <1>7, <1>8, <1>10 DEF RemoveLoop, left, woken, count
<1> QED
  BY <1>9, <1>10

\* The thread that is woken in the queue t leaves is another one, in that queue.
LEMMA WokenWaits ==
  ASSUME EntryTypes, WaiterTypes, WaitersAreListed, NEW q \in Queues, Woken(q) # {}
  PROVE  /\ Woken(q) = {Last(waitListHead[q])} /\ WakesOne(q)
         /\ waitListHead[q] # << >> /\ entryListHead[q] # << >>
         /\ Last(waitListHead[q]) \in Threads
         /\ place[Last(waitListHead[q])] = "QueueWait" /\ queue[Last(waitListHead[q])] = q
<1>1. WakesOne(q) /\ Woken(q) = {Last(waitListHead[q])}
  BY DEF Woken
<1>2. waitListHead[q] # << >> /\ entryListHead[q] # << >>
  BY <1>1 DEF WakesOne
<1> QED
  BY <1>1, <1>2, WaiterIsTaken

LEMMA EnterKeepsEntries ==
  ASSUME EntryTypes, WaiterTypes, WaitersAreListed, EntriesInOnePlace,
         NEW t \in Threads, NEW q \in Queues, Enters(t, q)
  PROVE  EntriesInOnePlace' /\ EntryTypes'
<1> DEFINE left == Left(t, q)
           woken == WokenBy(t, q)
           served == {p \in Queues : (p = q /\ Takes(t, q)) \/ (p = left /\ woken # {})}
           taker == [p \in served |-> IF p = q THEN t ELSE Last(waitListHead[p])]
<1>1. left # q /\ (left \in Queues \/ left = NoQueue) /\ NoQueue \notin Queues
  BY QueuesAssumption DEF Left, WaiterTypes
<1>2. woken # {} => /\ left \in Queues /\ woken = {Last(waitListHead[left])}
                    /\ entryListHead[left] # << >>
                    /\ Last(waitListHead[left]) \in Threads
                    /\ place[Last(waitListHead[left])] = "QueueWait"
  BY <1>1, WokenWaits DEF WokenBy
<1>3. place[t] # "QueueWait"
  BY DEF Enters
<1>4. Takes(t, q) => entryListHead[q] # << >>
  BY DEF Takes
<1>5. /\ entryListHead' = [p \in Queues |->
           IF (p = q /\ Takes(t, q)) \/ (p = left /\ woken # {})
             THEN Tail(entryListHead[p]) ELSE entryListHead[p]]
      /\ signalState' = [p \in Queues |-> Len(entryListHead'[p]) - Len(entryListHead[p])
                                            + signalState[p]]
      /\ entry' = [u \in Threads |-> IF u = t THEN IF Takes(t, q) THEN Head(entryListHead[q])
                                                   ELSE NoEntry
                                     ELSE IF u \in woken THEN Head(entryListHead[left])
                                     ELSE entry[u]]
  BY EnterDoes
<1>6. taker \in [served -> Threads]
  BY <1>1, <1>2
<1>7. \A p \in served : entryListHead[p] # << >>
  BY <1>1, <1>2, <1>4
<1>14. \A p \in Queues :
         /\ entryListHead'[p] = IF p \in served THEN Tail(entryListHead[p]) ELSE entryListHead[p]
         /\ signalState'[p] = Len(entryListHead'[p]) - Len(entryListHead[p]) + signalState[p]
  BY <1>5
<1> HIDE DEF served
<1>8. ASSUME NEW p \in Queues
      PROVE  /\ entryListHead'[p] \in Seq(Entries)
             /\ p \in served => signalState'[p] = signalState[p] - 1
             /\ p \notin served => signalState'[p] = signalState[p]
  <2>1. /\ entryListHead[p] \in Seq(Entries) /\ Len(entryListHead[p]) \in Nat
        /\ signalState[p] \in Nat
    BY DEF EntryTypes
  <2>2. CASE p \in served
    <3>1. Tail(entryListHead[p]) \in Seq(Entries)
          /\ Len(Tail(entryListHead[p])) = Len(entryListHead[p]) - 1
      BY <1>7, <2>1, <2>2, HeadTailProperties
    <3>2. entryListHead'[p] = Tail(entryListHead[p])
      BY <1>14, <2>2
    <3>3. Len(entryListHead'[p]) = Len(entryListHead[p]) - 1
      BY <3>1, <3>2
    <3>4. signalState'[p] = (Len(entryListHead[p]) - 1) - Len(entryListHead[p]) + signalState[p]
      BY <1>14, <3>3
    <3> QED
      BY <2>1, <2>2, <3>1, <3>2, <3>4
  <2>3. CASE p \notin served
    <3>1. entryListHead'[p] = entryListHead[p]
      BY <1>14, <2>3
    <3>2. signalState'[p] = Len(entryListHead[p]) - Len(entryListHead[p]) + signalState[p]
      BY <1>14, <3>1
    <3> QED
      BY <2>1, <2>3, <3>1, <3>2
  <2> QED
    BY <2>2, <2>3
<1>9. ASSUME NEW p \in served
      PROVE  entryListHead'[p] = Tail(entryListHead[p]) /\ entry'[taker[p]] = Head(entryListHead[p])
  BY <1>1, <1>2, <1>3, <1>5 DEF served
<1>10. ASSUME NEW u \in Threads
       PROVE  entry'[u] \in {entry[u], NoEntry} \/ \E p \in served : taker[p] = u
  BY <1>1, <1>2, <1>3, <1>5 DEF served
<1>11. served \in SUBSET Queues
  BY DEF served
<1>12. /\ entryListHead' \in [Queues -> Seq(Entries)]
       /\ DOMAIN signalState' = Queues /\ signalState' = [p \in Queues |-> signalState'[p]]
       /\ entry' \in [Threads -> Entries \union {NoEntry}]
  <2>1. entryListHead' \in [Queues -> Seq(Entries)]
    BY <1>5, <1>8
  <2>2. DOMAIN signalState' = Queues /\ signalState' = [p \in Queues |-> signalState'[p]]
    BY <1>5
  <2>3. \A p \in served : Head(entryListHead[p]) \in Entries
    BY <1>7, <1>11, HeadIsMember DEF EntryTypes
  <2>4. \A u \in Threads : entry'[u] \in Entries \union {NoEntry}
    <3> TAKE u \in Threads
    <3>1. entry[u] \in Entries \union {NoEntry}
      BY DEF EntryTypes
    <3>2. ASSUME NEW p \in served, taker[p] = u PROVE entry'[u] \in Entries
      BY <1>9, <2>3, <3>2
    <3> QED
      BY <1>10, <3>1, <3>2
  <2> QED
    BY <1>5, <2>1, <2>2, <2>4
<1> HIDE DEF taker, left, woken
<1>13. /\ \A p \in served : /\ entryListHead[p] # << >>
                            /\ entryListHead'[p] = Tail(entryListHead[p])
                            /\ signalState'[p] = signalState[p] - 1
                            /\ entry'[taker[p]] = Head(entryListHead[p])
       /\ \A p \in Queues \ served : /\ entryListHead'[p] = entryListHead[p]
                                      /\ signalState'[p] = signalState[p]
  BY <1>7, <1>8, <1>9, <1>11, <1>14
<1> QED
  BY <1>6, <1>10, <1>11, <1>12, <1>13, TakingKeepsEntries

LEMMA EnterKeepsWaiters ==
  ASSUME EntryTypes, WaiterTypes, WaitersAreListed, NEW t \in Threads, NEW q \in Queues, Enters(t, q)
  PROVE  WaitersAreListed' /\ WaiterTypes'
<1> DEFINE left == Left(t, q)
           woken == WokenBy(t, q)
<1>1. left # q /\ (left \in Queues \/ left = NoQueue) /\ NoQueue \notin Queues
  BY QueuesAssumption DEF Left, WaiterTypes
<1>2. woken # {} => /\ left \in Queues /\ woken = {Last(waitListHead[left])}
                    /\ waitListHead[left] # << >>
                    /\ Last(waitListHead[left]) \in Threads
                    /\ place[Last(waitListHead[left])] = "QueueWait"
                    /\ queue[Last(waitListHead[left])] = left
  BY <1>1, WokenWaits DEF WokenBy
<1>3. place[t] # "QueueWait" /\ q \in initialized
  BY DEF Enters
<1>4. \A p \in Queues : /\ waitListHead[p] \in Seq(Threads) /\ NoDuplicates(waitListHead[p])
                        /\ Members(waitListHead[p]) = Waiting(p)
                        /\ currentCount[p] \in 0 .. Word - 1
  BY DEF WaiterTypes, WaitersAreListed
<1>5. /\ queue' = [queue EXCEPT ![t] = q]
      /\ initialized' = initialized /\ kernelApcPending' = kernelApcPending
      /\ place' = [u \in Threads |-> IF u = t THEN place'[t]
                                     ELSE IF u \in woken THEN "Running" ELSE place[u]]
      /\ place'[t] \in {"Running", "QueueWait", "QueueSpin"}
      /\ waitListHead' = [p \in Queues |->
           IF p = q THEN IF place'[t] = "QueueWait" THEN Append(waitListHead[q], t)
                         ELSE waitListHead[q]
           ELSE IF p = left /\ woken # {} THEN Front(waitListHead[p])
           ELSE waitListHead[p]]
      /\ currentCount' = [p \in Queues |->
           IF p = q THEN IF place'[t] = "Running" THEN Inc(CountOnEntry(t, q)) ELSE CountOnEntry(t, q)
           ELSE IF p = left THEN CountAfterWake(p) ELSE currentCount[p]]
  BY EnterDoes
<1> HIDE DEF left, woken
<1>6. /\ \A u \in Threads : place'[u] = IF u = t THEN place'[t]
                                         ELSE IF u \in woken THEN "Running" ELSE place[u]
      /\ \A u \in Threads : queue'[u] = IF u = t THEN q ELSE queue[u]
  BY <1>5 DEF WaiterTypes
<1>7. ASSUME NEW p \in Queues
      PROVE  /\ waitListHead'[p] \in Seq(Threads) /\ NoDuplicates(waitListHead'[p])
             /\ Members(waitListHead'[p]) = Waiting(p)'
  <2>1. CASE p = q /\ place'[t] = "QueueWait"
    <3>1. t \notin Members(waitListHead[q])
      BY <1>3, <1>4 DEF Waiting
    <3>2. /\ Append(waitListHead[q], t) \in Seq(Threads)
          /\ NoDuplicates(Append(waitListHead[q], t))
          /\ Members(Append(waitListHead[q], t)) = Waiting(q) \union {t}
      BY <1>4, <3>1, AppendAdds
    <3>3. Waiting(q)' = Waiting(q) \union {t}
      BY <1>1, <1>2, <1>6, <2>1 DEF Waiting
    <3> QED
      BY <1>5, <2>1, <3>2, <3>3
  <2>2. CASE p = q /\ place'[t] # "QueueWait"
    <3>1. Waiting(q)' = Waiting(q)
      BY <1>1, <1>2, <1>3, <1>6, <2>2 DEF Waiting
    <3> QED
      BY <1>4, <1>5, <2>2, <3>1
  <2>3. CASE p = left /\ woken # {}
    <3>1. /\ Front(waitListHead[p]) \in Seq(Threads)
          /\ NoDuplicates(Front(waitListHead[p]))
          /\ Members(Front(waitListHead[p])) = Waiting(p) \ {Last(waitListHead[p])}
      BY <1>2, <2>3, WaiterIsTaken
    <3>2. Waiting(p)' = Waiting(p) \ {Last(waitListHead[p])}
      BY <1>1, <1>2, <1>3, <1>6, <2>3 DEF Waiting
    <3> QED
      BY <1>1, <1>5, <2>3, <3>1, <3>2
  <2>4. CASE p # q /\ ~(p = left /\ woken # {})
    <3>1. Waiting(p)' = Waiting(p)
      BY <1>1, <1>2, <1>3, <1>6, <2>4 DEF Waiting
    <3> QED
      BY <1>4, <1>5, <2>4, <3>1
  <2> QED
    BY <2>1, <2>2, <2>3, <2>4
<1>8. ASSUME NEW p \in Queues PROVE currentCount'[p] \in 0 .. Word - 1
  <2>1. CountOnEntry(t, q) \in 0 .. Word - 1
    BY <1>4, Counting DEF CountOnEntry
  <2>2. CountAfterWake(p) \in 0 .. Word - 1
    BY <1>4, Counting DEF CountAfterWake
  <2>3. Inc(CountOnEntry(t, q)) \in 0 .. Word - 1
    BY <2>1, Counting
  <2> QED
    BY <1>4, <1>5, <2>1, <2>2, <2>3
<1>9. place' \in [Threads -> Places]
  <2>1. \A u \in Threads : place'[u] \in Places
    BY <1>5, <1>6 DEF WaiterTypes, Places
  <2> QED
    BY <1>5, <2>1
<1>10. WaiterTypes'
  <2>1. /\ waitListHead' \in [Queues -> Seq(Threads)] /\ currentCount' \in [Queues -> 0 .. Word - 1]
    BY <1>5, <1>7, <1>8
  <2>2. queue' \in [Threads -> Queues \union {NoQueue}]
    BY <1>5 DEF WaiterTypes
  <2> QED
    BY <1>5, <1>9, <2>1, <2>2 DEF WaiterTypes
<1>11. \A u \in Threads : /\ queue'[u] \in initialized' \union {NoQueue}
                          /\ place'[u] \in {"QueueWait", "QueueRetry", "QueueSpin"} => queue'[u] # NoQueue
  BY <1>1, <1>3, <1>5, <1>6 DEF WaitersAreListed
<1> QED
  BY <1>7, <1>10, <1>11 DEF WaitersAreListed
-------------------------------------------------------------------------------
(* Waits for other objects. *)

LEMMA BlockDoes ==
  ASSUME EntryTypes, WaiterTypes, NEW t \in Threads, BlockOnObject(t)
  PROVE  LET q == queue[t]
         IN  /\ q \in Queues /\ MayBlock(t)
             /\ queue' = queue /\ initialized' = initialized /\ kernelApcPending' = kernelApcPending
             /\ entryListHead' = [p \in Queues |-> IF p = q /\ Woken(q) # {} THEN Tail(entryListHead[p])
                                                   ELSE entryListHead[p]]
             /\ signalState' = [p \in Queues |-> IF p = q /\ Woken(q) # {} THEN signalState[p] - 1
                                                 ELSE signalState[p]]
             /\ place' = [u \in Threads |-> IF u = t THEN place'[t]
                                            ELSE IF u \in Woken(q) THEN "Running" ELSE place[u]]
             /\ place'[t] = IF kernelApcPending[t] THEN "ObjectSpin" ELSE "ObjectWait"
             /\ entry' = [u \in Threads |-> IF u \in Woken(q) THEN Head(entryListHead[q]) ELSE entry[u]]
             /\ waitListHead' = [p \in Queues |-> IF p = q /\ Woken(q) # {} THEN Front(waitListHead[p])
                                                  ELSE waitListHead[p]]
             /\ currentCount' = [p \in Queues |-> IF p = q THEN CountAfterWake(p) ELSE currentCount[p]]
<1> DEFINE q == queue[t]
<1>1. q \in Queues
  BY DEF BlockOnObject, WaiterTypes
<1>2. CASE Woken(q) = {}
  BY <1>1, <1>2 DEF BlockOnObject, EntryTypes, WaiterTypes
<1>3. CASE Woken(q) # {}
  BY <1>1, <1>3 DEF BlockOnObject, EntryTypes, WaiterTypes
<1> QED
  BY <1>2, <1>3

LEMMA BlockKeepsEntries ==
  ASSUME EntryTypes, WaiterTypes, WaitersAreListed, EntriesInOnePlace,
         NEW t \in Threads, BlockOnObject(t)
  PROVE  EntriesInOnePlace' /\ EntryTypes'
<1> DEFINE q == queue[t]
           served == IF Woken(q) = {} THEN {} ELSE {q}
           taker == [p \in served |-> Last(waitListHead[p])]
<1>1. /\ q \in Queues
      /\ entryListHead' = [p \in Queues |-> IF p = q /\ Woken(q) # {} THEN Tail(entryListHead[p])
                                            ELSE entryListHead[p]]
      /\ signalState' = [p \in Queues |-> IF p = q /\ Woken(q) # {} THEN signalState[p] - 1
                                          ELSE signalState[p]]
      /\ entry' = [u \in Threads |-> IF u \in Woken(q) THEN Head(entryListHead[q]) ELSE entry[u]]
  BY BlockDoes
<1>2. Woken(q) # {} => /\ Woken(q) = {Last(waitListHead[q])}
                       /\ entryListHead[q] # << >>
                       /\ Last(waitListHead[q]) \in Threads
  BY <1>1, WokenWaits
<1>3. \A p \in Queues : entryListHead[p] \in Seq(Entries)
  BY DEF EntryTypes
<1> HIDE DEF q
<1>4. \A p \in Queues : /\ p \in served <=> p = q /\ Woken(q) # {}
                        /\ p \in served => p = q /\ Woken(q) = {Last(waitListHead[q])}
                        /\ p \in served => entryListHead[p] # << >>
  BY <1>2
<1>5. served \in SUBSET Queues /\ taker \in [served -> Threads]
  BY <1>1, <1>2
<1>6. \A p \in served : taker[p] = Last(waitListHead[p])
  OBVIOUS
<1> HIDE DEF served, taker
<1>7. \A p \in Queues :
        /\ entryListHead'[p] = IF p \in served THEN Tail(entryListHead[p]) ELSE entryListHead[p]
        /\ signalState'[p] = IF p \in served THEN signalState[p] - 1 ELSE signalState[p]
  BY <1>1, <1>4
<1>8. ASSUME NEW p \in served
      PROVE  Head(entryListHead[p]) \in Entries /\ entry'[taker[p]] = Head(entryListHead[p])
  <2>1. Head(entryListHead[p]) \in Entries
    BY <1>3, <1>4, <1>5, HeadIsMember
  <2> QED
    BY <1>1, <1>4, <1>5, <1>6, <2>1
<1>9. ASSUME NEW u \in Threads
      PROVE  entry'[u] \in {entry[u], NoEntry} \/ \E p \in served : taker[p] = u
  BY <1>1, <1>4, <1>5, <1>6
<1>10. ASSUME NEW p \in Queues PROVE entryListHead'[p] \in Seq(Entries)
  <2>1. CASE p \in served
    BY <1>3, <1>4, <1>7, <2>1, HeadTailProperties
  <2>2. CASE p \notin served
    BY <1>3, <1>7, <2>2
  <2> QED
    BY <2>1, <2>2
<1>11. ASSUME NEW u \in Threads PROVE entry'[u] \in Entries \union {NoEntry}
  <2>1. entry[u] \in Entries \union {NoEntry}
    BY DEF EntryTypes
  <2>2. ASSUME NEW p \in served, taker[p] = u PROVE entry'[u] \in Entries
    BY <1>8, <2>2
  <2> QED
    BY <1>9, <2>1, <2>2
<1>12. /\ entryListHead' \in [Queues -> Seq(Entries)]
       /\ DOMAIN signalState' = Queues /\ signalState' = [p \in Queues |-> signalState'[p]]
       /\ entry' \in [Threads -> Entries \union {NoEntry}]
  BY <1>1, <1>10, <1>11
<1>13. /\ \A p \in served : /\ entryListHead[p] # << >>
                            /\ entryListHead'[p] = Tail(entryListHead[p])
                            /\ signalState'[p] = signalState[p] - 1
                            /\ entry'[taker[p]] = Head(entryListHead[p])
       /\ \A p \in Queues \ served : /\ entryListHead'[p] = entryListHead[p]
                                      /\ signalState'[p] = signalState[p]
  BY <1>4, <1>5, <1>7, <1>8
<1> QED
  BY <1>5, <1>9, <1>12, <1>13, TakingKeepsEntries

LEMMA BlockKeepsWaiters ==
  ASSUME EntryTypes, WaiterTypes, WaitersAreListed, NEW t \in Threads, BlockOnObject(t),
         place[t] # "QueueWait"
  PROVE  WaitersAreListed' /\ WaiterTypes'
<1> DEFINE q == queue[t]
<1>1. /\ q \in Queues
      /\ queue' = queue /\ initialized' = initialized /\ kernelApcPending' = kernelApcPending
      /\ place' = [u \in Threads |-> IF u = t THEN place'[t]
                                     ELSE IF u \in Woken(q) THEN "Running" ELSE place[u]]
      /\ place'[t] \in {"ObjectSpin", "ObjectWait"}
      /\ waitListHead' = [p \in Queues |-> IF p = q /\ Woken(q) # {} THEN Front(waitListHead[p])
                                           ELSE waitListHead[p]]
      /\ currentCount' = [p \in Queues |-> IF p = q THEN CountAfterWake(p) ELSE currentCount[p]]
  BY BlockDoes
<1>2. Woken(q) # {} => /\ Woken(q) = {Last(waitListHead[q])}
                       /\ waitListHead[q] # << >>
                       /\ Last(waitListHead[q]) \in Threads
                       /\ place[Last(waitListHead[q])] = "QueueWait"
                       /\ queue[Last(waitListHead[q])] = q
  BY <1>1, WokenWaits
<1>3. \A p \in Queues : /\ waitListHead[p] \in Seq(Threads) /\ NoDuplicates(waitListHead[p])
                        /\ Members(waitListHead[p]) = Waiting(p)
                        /\ currentCount[p] \in 0 .. Word - 1
  BY DEF WaiterTypes, WaitersAreListed
<1> HIDE DEF q
<1>4. \A u \in Threads : place'[u] = IF u = t THEN place'[t]
                                     ELSE IF u \in Woken(q) THEN "Running" ELSE place[u]
  BY <1>1
<1>5. ASSUME NEW p \in Queues
      PROVE  /\ waitListHead'[p] \in Seq(Threads) /\ NoDuplicates(waitListHead'[p])
             /\ Members(waitListHead'[p]) = Waiting(p)'
  <2>1. CASE p = q /\ Woken(q) # {}
    <3>1. /\ Front(waitListHead[p]) \in Seq(Threads)
          /\ NoDuplicates(Front(waitListHead[p]))
          /\ Members(Front(waitListHead[p])) = Waiting(p) \ {Last(waitListHead[p])}
      BY <1>2, <2>1, WaiterIsTaken
    <3>2. Waiting(p)' = Waiting(p) \ {Last(waitListHead[p])}
      BY <1>1, <1>2, <1>4, <2>1 DEF Waiting
    <3> QED
      BY <1>1, <2>1, <3>1, <3>2
  <2>2. CASE ~(p = q /\ Woken(q) # {})
    <3>1. Waiting(p)' = Waiting(p)
      BY <1>1, <1>2, <1>4, <2>2 DEF Waiting
    <3> QED
      BY <1>1, <1>3, <2>2, <3>1
  <2> QED
    BY <2>1, <2>2
<1>6. ASSUME NEW p \in Queues PROVE currentCount'[p] \in 0 .. Word - 1
  <2>1. CountAfterWake(p) \in 0 .. Word - 1
    BY <1>3, Counting DEF CountAfterWake
  <2> QED
    BY <1>1, <1>3, <2>1
<1>7. place' \in [Threads -> Places]
  <2>1. \A u \in Threads : place'[u] \in Places
    BY <1>1, <1>4 DEF WaiterTypes, Places
  <2> QED
    BY <1>1, <2>1
<1>8. WaiterTypes'
  <2>1. /\ waitListHead' \in [Queues -> Seq(Threads)] /\ currentCount' \in [Queues -> 0 .. Word - 1]
    BY <1>1, <1>5, <1>6
  <2> QED
    BY <1>1, <1>7, <2>1 DEF WaiterTypes
<1>9. \A u \in Threads : /\ queue'[u] \in initialized' \union {NoQueue}
                         /\ place'[u] \in {"QueueWait", "QueueRetry", "QueueSpin"} => queue'[u] # NoQueue
  BY <1>1, <1>4 DEF WaitersAreListed
<1> QED
  BY <1>5, <1>8, <1>9 DEF WaitersAreListed
-------------------------------------------------------------------------------
(* Insertions. *)

\* What an insertion does: it hands the entry to a waiter, or links it.
Hands(t, q, e) ==
  /\ HandedTo(t, q) # {}
  /\ waitListHead[q] # << >> /\ HasRoom(currentCount[q])
  /\ currentCount' = [currentCount EXCEPT ![q] = Inc(@)]
  /\ waitListHead' = [waitListHead EXCEPT ![q] = Front(@)]
  /\ place' = [place EXCEPT ![Last(waitListHead[q])] = "Running"]
  /\ entry' = [entry EXCEPT ![Last(waitListHead[q])] = e]
  /\ UNCHANGED <<entryListHead, signalState>>

Links(t, q, e) ==
  /\ HandedTo(t, q) = {}
  /\ signalState' = [signalState EXCEPT ![q] = @ + 1]
  /\ entryListHead' = [entryListHead EXCEPT ![q] = entryListHead'[q]]
  /\ entryListHead'[q] = <<e>> \o entryListHead[q] \/ entryListHead'[q] = Append(entryListHead[q], e)
  /\ UNCHANGED <<currentCount, waitListHead, place, entry>>

LEMMA InsertDoes ==
  ASSUME EntryTypes, NEW t \in Threads, NEW q \in Queues, NEW e \in Entries,
         NEW end \in {"head", "tail"}, KiInsertQueue(t, q, e, end)
  PROVE  /\ Hands(t, q, e) \/ Links(t, q, e)
         /\ q \in initialized /\ e \in Free
         /\ UNCHANGED <<initialized, queue, kernelApcPending>>
<1>1. HandedTo(t, q) = {} \/ /\ HandedTo(t, q) = {Last(waitListHead[q])}
                             /\ waitListHead[q] # << >> /\ HasRoom(currentCount[q])
  BY DEF HandedTo
<1>2. CASE HandedTo(t, q) # {}
  BY <1>1, <1>2 DEF KiInsertQueue, Hands
<1>3. CASE HandedTo(t, q) = {}
  <2>1. /\ signalState' = [signalState EXCEPT ![q] = @ + 1]
        /\ entryListHead' = [entryListHead EXCEPT ![q] = IF end = "head" THEN <<e>> \o @
                                                         ELSE Append(@, e)]
        /\ UNCHANGED <<currentCount, waitListHead, place, entry>>
    BY <1>3 DEF KiInsertQueue
  <2> DEFINE new == IF end = "head" THEN <<e>> \o entryListHead[q] ELSE Append(entryListHead[q], e)
  <2>2. entryListHead' = [entryListHead EXCEPT ![q] = new]
    BY <2>1
  <2>3. new = <<e>> \o entryListHead[q] \/ new = Append(entryListHead[q], e)
    OBVIOUS
  <2> HIDE DEF new
  <2>4. entryListHead'[q] = new
    BY <2>2 DEF EntryTypes
  <2>5. entryListHead' = [entryListHead EXCEPT ![q] = entryListHead'[q]]
    BY <2>2, <2>4
  <2>6. entryListHead'[q] = <<e>> \o entryListHead[q] \/ entryListHead'[q] = Append(entryListHead[q], e)
    BY <2>3, <2>4
  <2>7. Links(t, q, e)
    BY <1>3, <2>1, <2>5, <2>6 DEF Links
  <2> QED
    BY <2>7 DEF KiInsertQueue
<1> QED
  BY <1>2, <1>3 DEF KiInsertQueue

LEMMA InsertKeepsEntries ==
  ASSUME EntryTypes, WaiterTypes, WaitersAreListed, EntriesInOnePlace,
         NEW t \in Threads, NEW q \in Queues, NEW e \in Entries,
         NEW end \in {"head", "tail"}, KiInsertQueue(t, q, e, end)
  PROVE  EntriesInOnePlace' /\ EntryTypes'
<1>1. /\ \A p \in Queues : e \notin Members(entryListHead[p])
      /\ \A u \in Threads : entry[u] # e
  BY InsertDoes DEF Free
<1>2. \A p \in Queues : /\ entryListHead[p] \in Seq(Entries) /\ NoDuplicates(entryListHead[p])
                        /\ signalState[p] \in Nat /\ signalState[p] = Len(entryListHead[p])
  BY DEF EntryTypes, EntriesInOnePlace
<1>3. CASE Hands(t, q, e)
  <2>1. Last(waitListHead[q]) \in Threads
    BY <1>3, WaiterIsTaken DEF Hands
  <2>2. \A u \in Threads : entry'[u] = IF u = Last(waitListHead[q]) THEN e ELSE entry[u]
    BY <1>3, <2>1 DEF Hands, EntryTypes
  <2>3. EntryTypes'
    BY <1>3, <2>1 DEF Hands, EntryTypes
  <2>4. entryListHead' = entryListHead /\ signalState' = signalState
    BY <1>3 DEF Hands
  <2> QED
    BY <1>1, <2>2, <2>3, <2>4 DEF EntriesInOnePlace
<1>4. CASE Links(t, q, e)
  <2> DEFINE new == entryListHead'[q]
  <2>1. /\ entryListHead' = [entryListHead EXCEPT ![q] = new]
        /\ signalState' = [signalState EXCEPT ![q] = @ + 1] /\ entry' = entry
        /\ new = <<e>> \o entryListHead[q] \/ new = Append(entryListHead[q], e)
    BY <1>4 DEF Links
  <2>2. /\ new \in Seq(Entries) /\ NoDuplicates(new)
        /\ Members(new) = Members(entryListHead[q]) \union {e}
    <3>1. CASE new = <<e>> \o entryListHead[q]
      BY <1>1, <1>2, <3>1, PrependAdds
    <3>2. CASE new = Append(entryListHead[q], e)
      BY <1>1, <1>2, <3>2, AppendAdds
    <3> QED
      BY <2>1, <3>1, <3>2
  <2>3. Len(new) = Len(entryListHead[q]) + 1
    <3>1. CASE new = <<e>> \o entryListHead[q]
      <4>1. <<e>> \in Seq(Entries) /\ Len(<<e>>) = 1
        OBVIOUS
      <4> QED
        BY <1>2, <3>1, <4>1, ConcatProperties, LenProperties
    <3>2. CASE new = Append(entryListHead[q], e)
      BY <1>2, <3>2, AppendProperties
    <3> QED
      BY <2>1, <3>1, <3>2
  <2>4. DOMAIN entryListHead = Queues /\ DOMAIN signalState = Queues
    BY DEF EntryTypes
  <2> HIDE DEF new
  <2>5. \A p \in Queues : /\ entryListHead'[p] = IF p = q THEN new ELSE entryListHead[p]
                          /\ signalState'[p] = IF p = q THEN signalState[p] + 1 ELSE signalState[p]
    BY <2>1, <2>4
  <2>6. \A p \in Queues : signalState'[p] \in Nat /\ signalState'[p] = Len(entryListHead'[p])
    BY <1>2, <2>3, <2>5
  <2>7. EntryTypes'
    BY <2>1, <2>2, <2>5, <2>6 DEF EntryTypes
  <2>8. \A p \in Queues : NoDuplicates(entryListHead'[p])
    BY <1>2, <2>2, <2>5
  <2>9. \A p \in Queues : Members(entryListHead'[p]) = IF p = q THEN Members(entryListHead[p]) \union {e}
                                                       ELSE Members(entryListHead[p])
    BY <2>2, <2>5
  <2>10. \A p, r \in Queues : p # r => Members(entryListHead'[p]) \cap Members(entryListHead'[r]) = {}
    <3>1. \A p, r \in Queues : p # r => Members(entryListHead[p]) \cap Members(entryListHead[r]) = {}
      BY DEF EntriesInOnePlace
    <3> QED
      BY <1>1, <2>9, <3>1
  <2>11. \A u \in Threads, p \in Queues : entry'[u] \notin Members(entryListHead'[p])
    <3>1. \A u \in Threads, p \in Queues : entry[u] \notin Members(entryListHead[p])
      BY DEF EntriesInOnePlace
    <3> TAKE u \in Threads, p \in Queues
    <3>2. entry'[u] = entry[u] /\ entry[u] # e /\ entry[u] \notin Members(entryListHead[p])
      BY <1>1, <2>1, <3>1
    <3>3. Members(entryListHead'[p]) \subseteq Members(entryListHead[p]) \union {e}
      BY <2>9
    <3> QED
      BY <3>2, <3>3
  <2> QED
    BY <2>1, <2>6, <2>7, <2>8, <2>10, <2>11 DEF EntriesInOnePlace
<1> QED
  BY <1>3, <1>4, InsertDoes

LEMMA InsertKeepsWaiters ==
  ASSUME EntryTypes, WaiterTypes, WaitersAreListed, NEW t \in Threads, NEW q \in Queues,
         NEW e \in Entries, NEW end \in {"head", "tail"}, KiInsertQueue(t, q, e, end)
  PROVE  WaitersAreListed' /\ WaiterTypes'
<1>1. UNCHANGED <<initialized, queue, kernelApcPending>>
  BY InsertDoes
<1>2. CASE Hands(t, q, e)
  <2> DEFINE u == Last(waitListHead[q])
  <2>1. /\ u \in Threads /\ place[u] = "QueueWait" /\ queue[u] = q
        /\ Front(waitListHead[q]) \in Seq(Threads)
        /\ NoDuplicates(Front(waitListHead[q]))
        /\ Members(Front(waitListHead[q])) = Waiting(q) \ {u}
    BY <1>2, WaiterIsTaken DEF Hands
  <2>2. /\ waitListHead' = [waitListHead EXCEPT ![q] = Front(@)]
        /\ currentCount' = [currentCount EXCEPT ![q] = Inc(@)]
        /\ place' = [place EXCEPT ![u] = "Running"]
    BY <1>2 DEF Hands
  <2> HIDE DEF u
  <2>3. \A v \in Threads : place'[v] = IF v = u THEN "Running" ELSE place[v]
    BY <2>1, <2>2 DEF WaiterTypes
  <2>4. \A p \in Queues : waitListHead'[p] = IF p = q THEN Front(waitListHead[q]) ELSE waitListHead[p]
    BY <2>2 DEF WaiterTypes
  <2>5. \A p \in Queues : Waiting(p)' = IF p = q THEN Waiting(p) \ {u} ELSE Waiting(p)
    BY <1>1, <2>1, <2>3 DEF Waiting
  <2>6. currentCount' \in [Queues -> 0 .. Word - 1]
    <3>1. currentCount[q] \in 0 .. Word - 1
      BY DEF WaiterTypes
    <3>2. Inc(currentCount[q]) \in 0 .. Word - 1
      BY <3>1, Counting
    <3> QED
      BY <2>2, <3>2 DEF WaiterTypes
  <2>7. WaiterTypes'
    BY <1>1, <2>1, <2>2, <2>4, <2>6 DEF WaiterTypes, Places
  <2> QED
    BY <1>1, <2>1, <2>3, <2>4, <2>5, <2>7 DEF WaitersAreListed
<1>3. CASE Links(t, q, e)
  <2>1. UNCHANGED <<currentCount, waitListHead, place>>
    BY <1>3 DEF Links
  <2> QED
    BY <1>1, <2>1 DEF WaiterTypes, WaitersAreListed, Waiting
<1> QED
  BY <1>2, <1>3, InsertDoes
-------------------------------------------------------------------------------
(* Ends of waits. *)

LEMMA AbortKeepsWaiters ==
  ASSUME WaiterTypes, WaitersAreListed, NEW t \in Threads, NEW where \in Places,
         KiAbortWaitThread(t, where), where # "QueueWait",
         where \in {"QueueRetry", "QueueSpin"} => place[t] = "QueueWait",
         kernelApcPending' \in [Threads -> BOOLEAN]
  PROVE  WaitersAreListed' /\ WaiterTypes'
<1>1. /\ UNCHANGED <<initialized, queue>>
      /\ currentCount' = CountAgain(t)
      /\ waitListHead' = [q \in Queues |-> Unlink(waitListHead[q], t)]
      /\ place' = [place EXCEPT ![t] = where]
  BY DEF KiAbortWaitThread
<1>2. ASSUME NEW q \in Queues
      PROVE  /\ waitListHead'[q] \in Seq(Threads) /\ NoDuplicates(waitListHead'[q])
             /\ Members(waitListHead'[q]) = Waiting(q) \ {t}
  <2>1. /\ waitListHead[q] \in Seq(Threads) /\ NoDuplicates(waitListHead[q])
        /\ Members(waitListHead[q]) = Waiting(q)
    BY DEF WaiterTypes, WaitersAreListed
  <2>2. /\ Unlink(waitListHead[q], t) \in Seq(Threads) /\ NoDuplicates(Unlink(waitListHead[q], t))
        /\ Members(Unlink(waitListHead[q], t)) = Waiting(q) \ {t}
    BY <2>1, UnlinkRemoves
  <2> QED
    BY <1>1, <2>2
<1>3. \A u \in Threads : place'[u] = IF u = t THEN where ELSE place[u]
  BY <1>1 DEF WaiterTypes
<1>4. \A q \in Queues : Waiting(q)' = Waiting(q) \ {t}
  BY <1>1, <1>3 DEF Waiting
<1>5. \A q \in Queues : currentCount'[q] \in 0 .. Word - 1
  BY <1>1, Counting DEF CountAgain, WaiterTypes
<1>6. currentCount' \in [Queues -> 0 .. Word - 1]
  BY <1>1, <1>5 DEF CountAgain
<1>7. WaiterTypes'
  BY <1>1, <1>2, <1>6 DEF WaiterTypes
<1>8. \A u \in Threads : place[u] \in {"QueueWait", "QueueRetry", "QueueSpin"} => queue[u] # NoQueue
  BY DEF WaitersAreListed
<1>9. \A u \in Threads :
        place'[u] \in {"QueueWait", "QueueRetry", "QueueSpin"} => queue'[u] # NoQueue
  BY <1>1, <1>3, <1>8
<1>10. \A u \in Threads : queue'[u] \in initialized' \union {NoQueue}
  BY <1>1 DEF WaitersAreListed
<1> QED
  BY <1>2, <1>4, <1>7, <1>9, <1>10 DEF WaitersAreListed
-------------------------------------------------------------------------------
(* Entries and waiters in every step. *)

QueueInv == EntryTypes /\ WaiterTypes /\ EntriesInOnePlace /\ WaitersAreListed

LEMMA QueueInvInit == Init => QueueInv
<1> SUFFICES ASSUME Init PROVE QueueInv
  OBVIOUS
<1>1. NoQueue \notin Queues /\ NoEntry \notin Entries /\ 0 \in 0 .. Word - 1
  BY QueuesAssumption, CountsAssumption
<1>2. EntryTypes /\ WaiterTypes
  BY <1>1 DEF Init, EntryTypes, WaiterTypes, Places
<1>3. \A q \in Queues : /\ Members(entryListHead[q]) = {} /\ NoDuplicates(entryListHead[q])
                        /\ Members(waitListHead[q]) = {} /\ NoDuplicates(waitListHead[q])
  BY EmptyHasNone DEF Init, NoDuplicates
<1>4. EntriesInOnePlace
  BY <1>3 DEF Init, EntriesInOnePlace
<1>5. WaitersAreListed
  BY <1>3 DEF Init, WaitersAreListed, Waiting
<1> QED
  BY <1>2, <1>4, <1>5 DEF QueueInv

\* A step that changes neither the entries nor the waiters' lists, and moves at
\* most thread t, out of no wait and into none, inside no call it was not in.
LEMMA BystandersKeep ==
  ASSUME QueueInv, NEW t \in Threads, NEW where \in {"Running", "Terminated"},
         place[t] # "QueueWait",
         place' = place \/ place' = [place EXCEPT ![t] = where],
         UNCHANGED <<queueVars, initialized, queue>>,
         entry' = entry \/ entry' = [entry EXCEPT ![t] = NoEntry],
         kernelApcPending' \in [Threads -> BOOLEAN]
  PROVE  QueueInv'
<1>1. /\ UNCHANGED <<entryListHead, signalState, currentCount, waitListHead, initialized, queue>>
  BY DEF queueVars
<1>2. \A u \in Threads : place'[u] = place[u] \/ (u = t /\ place'[u] = where)
  BY DEF QueueInv, WaiterTypes
<1>3. \A u \in Threads : entry'[u] = entry[u] \/ (u = t /\ entry'[u] = NoEntry)
  BY DEF QueueInv, EntryTypes
<1>4. \A q \in Queues : Waiting(q)' = Waiting(q)
  BY <1>1, <1>2 DEF Waiting
<1>5. EntryTypes'
  BY <1>1 DEF QueueInv, EntryTypes
<1>6. WaiterTypes'
  BY <1>1 DEF QueueInv, WaiterTypes, Places
<1>7. WaitersAreListed'
  BY <1>1, <1>2, <1>4 DEF QueueInv, WaitersAreListed
<1>8. EntriesInOnePlace'
  <2>1. \A q \in Queues : NoEntry \notin Members(entryListHead[q])
    BY QueuesAssumption DEF QueueInv, EntryTypes, Members
  <2>2. \A u \in Threads, q \in Queues : entry'[u] \notin Members(entryListHead'[q])
    BY <1>1, <1>3, <2>1 DEF QueueInv, EntriesInOnePlace
  <2>3. \A u, v \in Threads : u # v /\ entry'[u] # NoEntry => entry'[u] # entry'[v]
    BY <1>3 DEF QueueInv, EntriesInOnePlace
  <2> QED
    BY <1>1, <2>2, <2>3 DEF QueueInv, EntriesInOnePlace
<1> QED
  BY <1>5, <1>6, <1>7, <1>8 DEF QueueInv

LEMMA InitializeKeeps ==
  ASSUME QueueInv, NEW q \in Queues, KeInitializeQueue(q)
  PROVE  QueueInv'
<1>1. /\ q \notin initialized /\ initialized' = initialized \union {q}
      /\ entryListHead' = [entryListHead EXCEPT ![q] = << >>]
      /\ signalState' = [signalState EXCEPT ![q] = 0]
      /\ currentCount' = [currentCount EXCEPT ![q] = 0]
      /\ waitListHead' = [waitListHead EXCEPT ![q] = << >>]
      /\ UNCHANGED <<queue, place, entry, kernelApcPending>>
  BY DEF KeInitializeQueue, threadVars
<1>2. Members(<< >>) = {} /\ NoDuplicates(<< >>) /\ Len(<< >>) = 0
  BY EmptyHasNone DEF NoDuplicates
<1>3. \A p \in Queues : /\ entryListHead'[p] = IF p = q THEN << >> ELSE entryListHead[p]
                        /\ signalState'[p] = IF p = q THEN 0 ELSE signalState[p]
                        /\ waitListHead'[p] = IF p = q THEN << >> ELSE waitListHead[p]
  BY <1>1 DEF QueueInv, EntryTypes, WaiterTypes
<1>4. EntryTypes'
  BY <1>1 DEF QueueInv, EntryTypes
<1>5. WaiterTypes'
  BY <1>1, CountsAssumption DEF QueueInv, WaiterTypes
<1>6. EntriesInOnePlace'
  <2>1. \A p \in Queues : /\ NoDuplicates(entryListHead'[p])
                          /\ signalState'[p] = Len(entryListHead'[p])
                          /\ Members(entryListHead'[p]) \subseteq Members(entryListHead[p])
    BY <1>2, <1>3 DEF QueueInv, EntriesInOnePlace
  <2> QED
    BY <1>1, <2>1 DEF QueueInv, EntriesInOnePlace
<1>7. WaitersAreListed'
  <2>1. Waiting(q) = {} /\ \A p \in Queues : Waiting(p)' = Waiting(p)
    BY <1>1 DEF QueueInv, WaitersAreListed, Waiting
  <2>2. \A p \in Queues : /\ NoDuplicates(waitListHead'[p])
                          /\ Members(waitListHead'[p]) = Waiting(p)'
    BY <1>2, <1>3, <2>1 DEF QueueInv, WaitersAreListed
  <2> QED
    BY <1>1, <2>2 DEF QueueInv, WaitersAreListed
<1> QED
  BY <1>4, <1>5, <1>6, <1>7 DEF QueueInv

LEMMA RundownKeeps ==
  ASSUME QueueInv, NEW q \in Queues, KeRundownQueue(q)
  PROVE  QueueInv'
<1>1. /\ initialized' = initialized \ {q}
      /\ \A t \in Threads : queue[t] = q => place[t] \notin {"QueueWait", "QueueRetry", "QueueSpin"}
      /\ entryListHead' = [entryListHead EXCEPT ![q] = << >>]
      /\ signalState' = [signalState EXCEPT ![q] = 0]
      /\ queue' = UnlinkThreads(q)
      /\ UNCHANGED <<currentCount, waitListHead, place, entry, kernelApcPending>>
  BY DEF KeRundownQueue
<1>2. Members(<< >>) = {} /\ NoDuplicates(<< >>) /\ Len(<< >>) = 0
  BY EmptyHasNone DEF NoDuplicates
<1>3. \A p \in Queues : /\ entryListHead'[p] = IF p = q THEN << >> ELSE entryListHead[p]
                        /\ signalState'[p] = IF p = q THEN 0 ELSE signalState[p]
  BY <1>1 DEF QueueInv, EntryTypes
<1>4. \A t \in Threads : queue'[t] = IF queue[t] = q THEN NoQueue ELSE queue[t]
  BY <1>1 DEF UnlinkThreads
<1>5. EntryTypes'
  BY <1>1 DEF QueueInv, EntryTypes
<1>6. WaiterTypes'
  BY <1>1 DEF QueueInv, WaiterTypes, UnlinkThreads
<1>7. EntriesInOnePlace'
  <2>1. \A p \in Queues : /\ NoDuplicates(entryListHead'[p])
                          /\ signalState'[p] = Len(entryListHead'[p])
                          /\ Members(entryListHead'[p]) \subseteq Members(entryListHead[p])
    BY <1>2, <1>3 DEF QueueInv, EntriesInOnePlace
  <2> QED
    BY <1>1, <2>1 DEF QueueInv, EntriesInOnePlace
<1>8. WaitersAreListed'
  <2>1. \A p \in Queues : Waiting(p)' = Waiting(p)
    BY <1>1, <1>4, QueuesAssumption DEF Waiting
  <2>2. \A t \in Threads : queue'[t] \in initialized' \union {NoQueue}
    BY <1>1, <1>4 DEF QueueInv, WaitersAreListed
  <2>3. \A t \in Threads : place'[t] \in {"QueueWait", "QueueRetry", "QueueSpin"} => queue'[t] # NoQueue
    BY <1>1, <1>4 DEF QueueInv, WaitersAreListed
  <2> QED
    BY <1>1, <2>1, <2>2, <2>3 DEF QueueInv, WaitersAreListed
<1> QED
  BY <1>5, <1>6, <1>7, <1>8 DEF QueueInv

LEMMA AbortKeeps ==
  ASSUME QueueInv, NEW t \in Threads, NEW where \in Places, KiAbortWaitThread(t, where),
         where # "QueueWait", where \in {"QueueRetry", "QueueSpin"} => place[t] = "QueueWait",
         kernelApcPending' \in [Threads -> BOOLEAN]
  PROVE  QueueInv'
<1>1. WaitersAreListed' /\ WaiterTypes'
  BY AbortKeepsWaiters DEF QueueInv
<1>2. UNCHANGED <<entryListHead, signalState, entry>>
  BY DEF KiAbortWaitThread
<1> QED
  BY <1>1, <1>2 DEF QueueInv, EntryTypes, EntriesInOnePlace

LEMMA QueueInvNext == QueueInv /\ [Next]_vars => QueueInv'
<1> SUFFICES ASSUME QueueInv, [Next]_vars PROVE QueueInv'
  OBVIOUS
<1>1. EntryTypes /\ WaiterTypes /\ EntriesInOnePlace /\ WaitersAreListed
  BY DEF QueueInv
<1>2. kernelApcPending \in [Threads -> BOOLEAN]
  BY <1>1 DEF WaiterTypes
<1>3. ASSUME NEW t \in Threads, NEW q \in Queues, Enters(t, q) PROVE QueueInv'
  BY <1>1, <1>3, EnterKeepsEntries, EnterKeepsWaiters DEF QueueInv
<1>4. ASSUME NEW t \in Threads, BlockOnObject(t), place[t] # "QueueWait" PROVE QueueInv'
  BY <1>1, <1>4, BlockKeepsEntries, BlockKeepsWaiters DEF QueueInv
<1>5. ASSUME NEW t \in Threads, NEW q \in Queues, KeRemoveQueue(t, q) PROVE QueueInv'
  BY <1>1, <1>3, <1>5, RemoveEnters
<1>6. ASSUME NEW t \in Threads, NEW q \in Queues, NEW e \in Entries, NEW end \in {"head", "tail"},
             KiInsertQueue(t, q, e, end)
      PROVE  QueueInv'
  BY <1>1, <1>6, InsertKeepsEntries, InsertKeepsWaiters DEF QueueInv
<1>7. ASSUME NEW t \in Threads, RetryRemove(t) PROVE QueueInv'
  BY <1>1, <1>3, <1>7, RemoveEnters
<1>8. ASSUME NEW t \in Threads, KeWaitForObject(t) PROVE QueueInv'
  BY <1>4, <1>8 DEF KeWaitForObject
<1>9. ASSUME NEW t \in Threads, RetryObject(t) PROVE QueueInv'
  <2>1. CASE FindsObjectSignaled(t)
    BY <1>2, <2>1, BystandersKeep DEF FindsObjectSignaled
  <2>2. CASE place[t] \in {"ObjectRetry", "ObjectSpin"} /\ BlockOnObject(t)
    BY <1>4, <2>2
  <2> QED
    BY <1>9, <2>1, <2>2 DEF RetryObject
<1>10. ASSUME NEW t \in Threads, WaitEnds(t) PROVE QueueInv'
  <2>1. KiAbortWaitThread(t, "Running") /\ kernelApcPending' = kernelApcPending /\ "Running" \in Places
    BY <1>10 DEF WaitEnds, Places
  <2> QED
    BY <1>2, <2>1, AbortKeeps
<1>11. ASSUME NEW t \in Threads, KeInsertQueueApc(t) PROVE QueueInv'
  <2>1. kernelApcPending' \in [Threads -> BOOLEAN]
    BY <1>2, <1>11 DEF KeInsertQueueApc
  <2>2. CASE place[t] = "QueueWait" /\ KiAbortWaitThread(t, "QueueRetry")
    BY <2>1, <2>2, AbortKeeps DEF Places
  <2>3. CASE place[t] = "ObjectWait" /\ KiAbortWaitThread(t, "ObjectRetry")
    BY <2>1, <2>3, AbortKeeps DEF Places
  <2>4. CASE UNCHANGED <<queueVars, initialized, threadVars>>
    BY <1>1, <2>1, <2>4
    DEF QueueInv, EntryTypes, WaiterTypes, EntriesInOnePlace, WaitersAreListed, Waiting,
        queueVars, threadVars
  <2> QED
    BY <1>11, <2>2, <2>3, <2>4 DEF KeInsertQueueApc
<1>12. ASSUME NEW t \in Threads, KiDeliverApc(t) PROVE QueueInv'
  <2>1. kernelApcPending' \in [Threads -> BOOLEAN] /\ UNCHANGED <<queueVars, initialized, threadVars>>
    BY <1>2, <1>12 DEF KiDeliverApc
  <2> QED
    BY <1>1, <2>1
    DEF QueueInv, EntryTypes, WaiterTypes, EntriesInOnePlace, WaitersAreListed, Waiting,
        queueVars, threadVars
<1>13. ASSUME NEW t \in Threads, Terminate(t) PROVE QueueInv'
  BY <1>2, <1>13, BystandersKeep DEF Terminate, Executing
<1>14. CASE UNCHANGED vars
  BY <1>1, <1>14
  DEF QueueInv, EntryTypes, WaiterTypes, EntriesInOnePlace, WaitersAreListed, Waiting,
      vars, queueVars, threadVars
<1> QED
  BY <1>5, <1>6, <1>7, <1>8, <1>9, <1>10, <1>11, <1>12, <1>13, <1>14, InitializeKeeps, RundownKeeps
  DEF Next

LEMMA QueueInvAlways == Spec => []QueueInv
BY QueueInvInit, QueueInvNext, PTL DEF Spec

\* Whatever threads, interrupts and APCs do: no entry is lost or doubled between the
\* list, the waiters it is handed to and the retry, and SignalState counts the list.
THEOREM EntriesKept == Spec => []EntriesAreOnce
<1>1. QueueInv => EntriesAreOnce
  BY EntriesAlike DEF QueueInv
<1> QED
  BY <1>1, QueueInvAlways, PTL

\* Whatever they do: a queue's waiters are the threads that wait in KeRemoveQueue on
\* it, and no thread is registered with a queue that has been run down.
THEOREM WaitersKept == Spec => []RegisteredWhereTheyWait
<1>1. QueueInv => RegisteredWhereTheyWait
  BY WaitersAlike DEF QueueInv
<1> QED
  BY <1>1, QueueInvAlways, PTL
-------------------------------------------------------------------------------
(* The count of active threads. *)

\* The threads that queue q counts: those that have not come to a wait, and those
\* that terminated without leaving the queue.
Counted(q) == {t \in Threads : queue[t] = q /\ place[t] \notin {"QueueWait", "ObjectWait"}}

CountsAreKept ==
  /\ \A t \in Threads : place[t] \notin {"QueueSpin", "ObjectSpin"}
  /\ \A q \in initialized : currentCount[q] = Cardinality(Counted(q))

LEMMA CountedIsFinite ==
  ASSUME NEW q, NEW A \in SUBSET Counted(q)
  PROVE  /\ IsFiniteSet(A) /\ Cardinality(A) \in Nat /\ Cardinality(A) < Word
         /\ Cardinality(A) <= Cardinality(Counted(q))
         /\ \A t \in Threads : t \notin A => Cardinality(A) + 1 < Word
<1>1. IsFiniteSet(Threads) /\ Cardinality(Threads) \in Nat /\ Cardinality(Threads) < Word /\ Word \in Nat
  BY CountsAssumption, FS_CardinalityType
<1>2. A \in SUBSET Threads /\ Counted(q) \in SUBSET Threads
  BY DEF Counted
<1>3. /\ IsFiniteSet(A) /\ Cardinality(A) <= Cardinality(Threads)
      /\ IsFiniteSet(Counted(q)) /\ Cardinality(Counted(q)) <= Cardinality(Threads)
  BY <1>1, <1>2, FS_Subset
<1>4. Cardinality(A) \in Nat /\ Cardinality(Counted(q)) \in Nat
  BY <1>3, FS_CardinalityType
<1>5. Cardinality(A) <= Cardinality(Counted(q))
  BY <1>3, FS_Subset
<1>6. ASSUME NEW t \in Threads, t \notin A PROVE Cardinality(A) + 1 < Word
  <2>1. A \union {t} \in SUBSET Threads /\ Cardinality(A \union {t}) = Cardinality(A) + 1
    BY <1>2, <1>3, <1>6, FS_AddElement
  <2>2. Cardinality(A \union {t}) <= Cardinality(Threads)
    BY <1>1, <2>1, FS_Subset
  <2> QED
    BY <1>1, <1>4, <2>1, <2>2
<1> QED
  BY <1>1, <1>3, <1>4, <1>5, <1>6

\* The count that a thread which is not blocked finds when it enters a queue is that
\* of the other threads.
LEMMA CountOfOthers ==
  ASSUME WaiterTypes, CountsAreKept, NEW q \in Queues, q \in initialized, NEW t \in Threads,
         place[t] \notin {"QueueWait", "ObjectWait"}
  PROVE  /\ CountOnEntry(t, q) = Cardinality(Counted(q) \ {t})
         /\ CountOnEntry(t, q) \in Nat /\ CountOnEntry(t, q) + 1 < Word
         /\ Inc(CountOnEntry(t, q)) = CountOnEntry(t, q) + 1
         /\ CountOnEntry(t, q) + 1 = Cardinality(Counted(q) \union {t})
<1>1. currentCount[q] = Cardinality(Counted(q)) /\ IsFiniteSet(Counted(q)) /\ Cardinality(Counted(q)) \in Nat
  BY CountedIsFinite DEF CountsAreKept
<1>2. /\ IsFiniteSet(Counted(q) \ {t}) /\ Cardinality(Counted(q) \ {t}) \in Nat
      /\ Cardinality(Counted(q) \ {t}) + 1 < Word
  <2>1. Counted(q) \ {t} \in SUBSET Counted(q)
    OBVIOUS
  <2> QED
    BY <2>1, CountedIsFinite
<1>3. CountOnEntry(t, q) = Cardinality(Counted(q) \ {t})
  <2>1. CASE queue[t] = q
    <3>1. t \in Counted(q)
      BY <2>1 DEF Counted
    <3>2. Cardinality(Counted(q) \ {t}) = Cardinality(Counted(q)) - 1
      BY <1>1, <3>1, FS_RemoveElement
    <3>3. currentCount[q] \in 0 .. Word - 1 /\ currentCount[q] > 0
      BY <1>1, <1>2, <3>2 DEF WaiterTypes
    <3>4. Dec(currentCount[q]) = currentCount[q] - 1
      BY <3>3, Counting
    <3> QED
      BY <1>1, <2>1, <3>2, <3>4 DEF CountOnEntry
  <2>2. CASE queue[t] # q
    <3>1. Counted(q) \ {t} = Counted(q)
      BY <2>2 DEF Counted
    <3> QED
      BY <1>1, <2>2, <3>1 DEF CountOnEntry
  <2> QED
    BY <2>1, <2>2
<1>4. Inc(CountOnEntry(t, q)) = CountOnEntry(t, q) + 1
  <2>1. CountOnEntry(t, q) \in 0 .. Word - 1
    BY <1>2, <1>3, CountsAssumption
  <2> QED
    BY <1>2, <1>3, <2>1, Counting
<1>5. Cardinality(Counted(q) \union {t}) = Cardinality(Counted(q) \ {t}) + 1
  <2>1. Counted(q) \union {t} = (Counted(q) \ {t}) \union {t}
    OBVIOUS
  <2> QED
    BY <1>2, <2>1, FS_AddElement
<1> QED
  BY <1>2, <1>3, <1>4, <1>5

\* The count of a queue that one of its threads leaves for a wait or another queue.
LEMMA CountOfLeft ==
  ASSUME EntryTypes, WaiterTypes, WaitersAreListed, CountsAreKept, NEW t \in Threads,
         place[t] \notin {"QueueWait", "ObjectWait"}, queue[t] \in Queues
  PROVE  LET q == queue[t]
         IN  /\ q \in initialized /\ t \in Counted(q)
             /\ Woken(q) \cap Counted(q) = {} /\ Woken(q) \in SUBSET Threads
             /\ CountAfterWake(q) = Cardinality((Counted(q) \ {t}) \union Woken(q))
             /\ Woken(q) # {} => currentCount[q] <= MaximumCount
<1> DEFINE q == queue[t]
<1>1. q \in initialized /\ t \in Counted(q)
  BY QueuesAssumption DEF WaitersAreListed, Counted
<1>2. currentCount[q] = Cardinality(Counted(q)) /\ currentCount[q] \in 0 .. Word - 1
  BY <1>1 DEF CountsAreKept, WaiterTypes
<1>3. /\ CountOnEntry(t, q) = Dec(currentCount[q])
      /\ CountOnEntry(t, q) = Cardinality(Counted(q) \ {t})
      /\ CountOnEntry(t, q) \in Nat
      /\ CountOnEntry(t, q) + 1 = Cardinality(Counted(q) \union {t})
  BY <1>1, CountOfOthers DEF CountOnEntry
<1>4. Counted(q) \union {t} = Counted(q)
  BY <1>1
<1>5. CASE Woken(q) = {}
  <2>1. ~WakesOne(q)
    BY <1>5 DEF Woken
  <2> QED
    BY <1>1, <1>3, <1>5, <2>1 DEF CountAfterWake
<1>6. CASE Woken(q) # {}
  <2> DEFINE u == Last(waitListHead[q])
  <2>1. Woken(q) = {u} /\ WakesOne(q) /\ u \in Threads /\ place[u] = "QueueWait"
    BY <1>6, WokenWaits
  <2> HIDE DEF u
  <2>2. u \notin Counted(q)
    BY <2>1 DEF Counted
  <2>3. IsFiniteSet(Counted(q) \ {t})
    <3>1. Counted(q) \ {t} \in SUBSET Counted(q)
      OBVIOUS
    <3> QED
      BY <3>1, CountedIsFinite
  <2>4. Cardinality((Counted(q) \ {t}) \union {u}) = Cardinality(Counted(q) \ {t}) + 1
    BY <2>2, <2>3, FS_AddElement
  <2>5. CountAfterWake(q) = currentCount[q]
    BY <2>1 DEF CountAfterWake
  <2>6. currentCount[q] = Dec(currentCount[q]) + 1
    BY <1>2, <1>3, <1>4
  <2>7. Dec(currentCount[q]) < MaximumCount
    BY <2>1 DEF WakesOne, HasRoom
  <2>8. currentCount[q] <= MaximumCount
    BY <1>3, <2>6, <2>7, CountsAssumption
  <2> QED
    BY <1>1, <1>3, <2>1, <2>2, <2>4, <2>5, <2>6, <2>8
<1> QED
  BY <1>5, <1>6

\* What a step must not do: give work beyond the limit, or leave an entry beside a
\* waiter that are new to each other while there is room.
GivesWithinLimit ==
  \A q \in initialized : \A t \in Threads :
    entry'[t] # entry[t] /\ entry'[t] # NoEntry /\ queue'[t] = q => currentCount'[q] <= MaximumCount

BringsNobodyTogether == \A q \in Queues : PassedBy(q)' => PassedBy(q)

LEMMA EnterKeepsCounts ==
  ASSUME QueueInv, CountsAreKept, ~WaitsWithApcPending, NEW t \in Threads, NEW q \in Queues, Enters(t, q)
  PROVE  CountsAreKept' /\ GivesWithinLimit /\ BringsNobodyTogether
<1> USE DEF QueueInv
<1> DEFINE left == Left(t, q)
           woken == WokenBy(t, q)
           count == CountOnEntry(t, q)
<1>1. /\ left # q /\ (left \in Queues \/ left = NoQueue) /\ NoQueue \notin Queues
      /\ left # NoQueue => left = queue[t]
  BY QueuesAssumption DEF Left, WaiterTypes
<1>2. woken # {} => /\ left \in Queues /\ woken = {Last(waitListHead[left])} /\ woken = Woken(left)
                    /\ waitListHead[left] # << >> /\ entryListHead[left] # << >>
                    /\ Last(waitListHead[left]) \in Threads
                    /\ place[Last(waitListHead[left])] = "QueueWait"
                    /\ queue[Last(waitListHead[left])] = left
  BY <1>1, WokenWaits DEF WokenBy
<1>3. /\ q \in initialized /\ ~kernelApcPending[t]
      /\ place[t] \notin {"QueueWait", "ObjectWait"}
  BY DEF Enters, MayBlock
<1>4. /\ queue' = [queue EXCEPT ![t] = q] /\ initialized' = initialized
      /\ entryListHead' = [p \in Queues |->
           IF (p = q /\ Takes(t, q)) \/ (p = left /\ woken # {})
             THEN Tail(entryListHead[p]) ELSE entryListHead[p]]
      /\ place' = [u \in Threads |-> IF u = t THEN place'[t]
                                     ELSE IF u \in woken THEN "Running" ELSE place[u]]
      /\ place'[t] \in {"Running", "QueueWait"}
      /\ Takes(t, q) => place'[t] = "Running"
      /\ entry' = [u \in Threads |-> IF u = t THEN IF Takes(t, q) THEN Head(entryListHead[q])
                                                   ELSE NoEntry
                                     ELSE IF u \in woken THEN Head(entryListHead[left])
                                     ELSE entry[u]]
      /\ waitListHead' = [p \in Queues |->
           IF p = q THEN IF place'[t] = "QueueWait" THEN Append(waitListHead[q], t)
                         ELSE waitListHead[q]
           ELSE IF p = left /\ woken # {} THEN Front(waitListHead[p])
           ELSE waitListHead[p]]
      /\ currentCount' = [p \in Queues |->
           IF p = q THEN IF place'[t] = "Running" THEN Inc(count) ELSE count
           ELSE IF p = left THEN CountAfterWake(p) ELSE currentCount[p]]
  BY <1>3, EnterDoes
<1>5. /\ count = Cardinality(Counted(q) \ {t})
      /\ count \in Nat /\ count + 1 < Word /\ Inc(count) = count + 1
      /\ count + 1 = Cardinality(Counted(q) \union {t})
  BY <1>3, CountOfOthers
<1>6. left \in Queues =>
        /\ left \in initialized /\ t \in Counted(left)
        /\ Woken(left) \cap Counted(left) = {}
        /\ CountAfterWake(left) = Cardinality((Counted(left) \ {t}) \union Woken(left))
        /\ Woken(left) # {} => currentCount[left] <= MaximumCount
  BY <1>1, <1>3, CountOfLeft
<1>7. left \in Queues => woken = Woken(left)
  BY <1>1 DEF WokenBy
<1>8. ASSUME WakesOne(left), left \in Queues
      PROVE  woken # {} /\ CountAfterWake(left) = currentCount[left]
  BY <1>7, <1>8 DEF Woken, CountAfterWake
<1>9. ASSUME ~WakesOne(left), left \in Queues
      PROVE  woken = {} /\ CountAfterWake(left) = Dec(currentCount[left])
  BY <1>7, <1>9 DEF Woken, CountAfterWake
<1>10. Takes(t, q) <=> HasRoom(count) /\ entryListHead[q] # << >>
  BY DEF Takes
<1>11. /\ \A p \in Queues : entryListHead[p] \in Seq(Entries) /\ waitListHead[p] \in Seq(Threads)
       /\ \A p \in Queues : currentCount[p] \in 0 .. Word - 1
  BY DEF EntryTypes, WaiterTypes
<1> HIDE DEF left, woken, count
<1>12. \A u \in Threads : /\ place'[u] = IF u = t THEN place'[t]
                                         ELSE IF u \in woken THEN "Running" ELSE place[u]
                          /\ queue'[u] = IF u = t THEN q ELSE queue[u]
  BY <1>4 DEF WaiterTypes
<1>13. CountsAreKept'
  <2>1. \A u \in Threads : place'[u] \notin {"QueueSpin", "ObjectSpin"}
    BY <1>4, <1>12 DEF CountsAreKept
  <2>2. ASSUME NEW p \in initialized, p # q, p # left
        PROVE  currentCount'[p] = Cardinality(Counted(p)')
    <3>1. p \in Queues /\ queue[t] # p
      BY <1>1, <2>2 DEF WaiterTypes, left, Left
    <3>2. Counted(p)' = Counted(p)
      BY <1>1, <1>2, <1>12, <2>2, <3>1 DEF Counted, left, Left
    <3> QED
      BY <1>4, <2>2, <3>2 DEF CountsAreKept, WaiterTypes
  <2>3. currentCount'[q] = Cardinality(Counted(q)')
    <3>1. CASE place'[t] = "Running"
      <4>1. Counted(q)' = Counted(q) \union {t}
        BY <1>1, <1>2, <1>3, <1>12, <3>1 DEF Counted
      <4> QED
        BY <1>4, <1>5, <3>1, <4>1
    <3>2. CASE place'[t] = "QueueWait"
      <4>1. Counted(q)' = Counted(q) \ {t}
        BY <1>1, <1>2, <1>3, <1>12, <3>2 DEF Counted
      <4> QED
        BY <1>4, <1>5, <3>2, <4>1
    <3> QED
      BY <1>4, <3>1, <3>2
  <2>4. ASSUME NEW l \in Queues, l = left PROVE currentCount'[l] = Cardinality(Counted(l)')
    <3>1. Counted(l)' = (Counted(l) \ {t}) \union woken
      <4>1. woken \in SUBSET Threads /\ t \notin woken
        BY <1>2, <1>3
      <4>2. ASSUME NEW u \in Threads
            PROVE  u \in Counted(l)' <=> (u \in Counted(l) /\ u # t) \/ u \in woken
        <5>1. CASE u = t
          BY <1>1, <1>12, <2>4, <4>1, <5>1 DEF Counted
        <5>2. CASE u \in woken
          BY <1>1, <1>2, <1>12, <2>4, <4>1, <5>2 DEF Counted
        <5>3. CASE u # t /\ u \notin woken
          BY <1>12, <5>3 DEF Counted
        <5> QED
          BY <5>1, <5>2, <5>3
      <4> QED
        BY <4>1, <4>2 DEF Counted
    <3> QED
      BY <1>1, <1>4, <1>6, <1>7, <2>4, <3>1
  <2>5. ASSUME NEW p \in initialized PROVE currentCount'[p] = Cardinality(Counted(p)')
    <3>1. p \in Queues
      BY DEF WaiterTypes
    <3> QED
      BY <2>2, <2>3, <2>4, <3>1
  <2> QED
    BY <1>4, <2>1, <2>5 DEF CountsAreKept
<1>14. GivesWithinLimit
  <2> SUFFICES ASSUME NEW u \in Threads, entry'[u] # entry[u], entry'[u] # NoEntry, queue'[u] \in initialized
               PROVE  currentCount'[queue'[u]] <= MaximumCount
    BY DEF GivesWithinLimit
  <2>1. CASE u = t
    <3>1. Takes(t, q)
      BY <1>4, <2>1
    <3>2. currentCount'[q] = count + 1 /\ count < MaximumCount
      BY <1>4, <1>5, <1>10, <3>1 DEF HasRoom
    <3> QED
      BY <1>5, <1>12, <2>1, <3>2, CountsAssumption
  <2>2. CASE u # t
    <3>1. u \in woken
      BY <1>4, <2>2
    <3>2. queue'[u] = left /\ left \in Queues /\ currentCount'[left] = CountAfterWake(left)
      BY <1>1, <1>2, <1>4, <1>12, <2>2, <3>1
    <3>3. CountAfterWake(left) = currentCount[left]
      BY <1>8, <1>9, <3>1, <3>2
    <3> QED
      BY <1>6, <1>7, <3>1, <3>2, <3>3
  <2> QED
    BY <2>1, <2>2
<1>15. BringsNobodyTogether
  <2> SUFFICES ASSUME NEW p \in Queues, PassedBy(p)' PROVE PassedBy(p)
    BY DEF BringsNobodyTogether
  <2>1. /\ p \in initialized /\ entryListHead'[p] # << >> /\ waitListHead'[p] # << >>
        /\ HasRoom(currentCount'[p])
    BY <1>4 DEF PassedBy, HasRoom
  <2>2. CASE p = q
    <3>1. CASE Takes(t, q)
      <4>1. entryListHead[p] # << >> /\ waitListHead[p] # << >>
        BY <1>4, <1>10, <2>1, <2>2, <3>1
      <4>2. currentCount'[p] = count + 1
        BY <1>4, <1>5, <2>2, <3>1
      <4>3. currentCount[p] \in {count, count + 1}
        <5>1. CASE queue[t] = q
          <6>1. count = Dec(currentCount[q]) /\ t \in Counted(q)
            BY <1>3, <5>1 DEF count, CountOnEntry, Counted
          <6>2. Counted(q) \union {t} = Counted(q)
            BY <6>1
          <6> QED
            BY <1>3, <1>5, <2>2, <6>2 DEF CountsAreKept
        <5>2. CASE queue[t] # q
          BY <2>2, <5>2 DEF count, CountOnEntry
        <5> QED
          BY <5>1, <5>2
      <4>4. HasRoom(currentCount[p])
        BY <1>5, <2>1, <4>2, <4>3, CountsAssumption DEF HasRoom
      <4> QED
        BY <2>1, <4>1, <4>4 DEF PassedBy
    <3>2. CASE ~Takes(t, q)
      <4>1. entryListHead[q] # << >>
        BY <1>1, <1>4, <2>1, <2>2, <3>2
      <4>2. ~HasRoom(count)
        BY <1>10, <3>2, <4>1
      <4>3. currentCount'[q] \in {count, count + 1}
        BY <1>4, <1>5
      <4> QED
        BY <1>5, <2>1, <2>2, <4>2, <4>3, CountsAssumption DEF HasRoom
    <3> QED
      BY <3>1, <3>2
  <2>3. CASE p = left
    <3>1. CASE WakesOne(p)
      <4>1. /\ woken # {} /\ currentCount'[p] = currentCount[p]
        BY <1>1, <1>4, <1>8, <2>3, <3>1
      <4>2. entryListHead[p] # << >> /\ waitListHead[p] # << >>
        BY <1>2, <2>3, <4>1
      <4> QED
        BY <2>1, <4>1, <4>2 DEF PassedBy
    <3>2. CASE ~WakesOne(p)
      <4>1. /\ woken = {} /\ currentCount'[p] = Dec(currentCount[p])
        BY <1>1, <1>4, <1>9, <2>3, <3>2
      <4>2. entryListHead'[p] = entryListHead[p] /\ waitListHead'[p] = waitListHead[p]
        BY <1>1, <1>4, <2>3, <4>1
      <4> QED
        BY <2>1, <3>2, <4>1, <4>2 DEF WakesOne
    <3> QED
      BY <3>1, <3>2
  <2>4. CASE p # q /\ p # left
    <3>1. entryListHead'[p] = entryListHead[p] /\ waitListHead'[p] = waitListHead[p]
          /\ currentCount'[p] = currentCount[p]
      BY <1>4, <2>4
    <3> QED
      BY <2>1, <3>1 DEF PassedBy
  <2> QED
    BY <2>2, <2>3, <2>4
<1> QED
  BY <1>13, <1>14, <1>15

LEMMA BlockKeepsCounts ==
  ASSUME QueueInv, CountsAreKept, ~WaitsWithApcPending, NEW t \in Threads, BlockOnObject(t),
         place[t] \notin {"QueueWait", "ObjectWait"}
  PROVE  CountsAreKept' /\ GivesWithinLimit /\ BringsNobodyTogether
<1> USE DEF QueueInv
<1>1. PICK q \in Queues : q = queue[t]
  BY BlockDoes
<1>2. /\ ~kernelApcPending[t] /\ queue' = queue /\ initialized' = initialized
      /\ \A p \in Queues : entryListHead'[p] = IF p = q /\ Woken(q) # {} THEN Tail(entryListHead[p])
                                               ELSE entryListHead[p]
      /\ \A u \in Threads : place'[u] = IF u = t THEN place'[t]
                                         ELSE IF u \in Woken(q) THEN "Running" ELSE place[u]
      /\ \A u \in Threads : entry'[u] = IF u \in Woken(q) THEN Head(entryListHead[q]) ELSE entry[u]
      /\ \A p \in Queues : waitListHead'[p] = IF p = q /\ Woken(q) # {} THEN Front(waitListHead[p])
                                              ELSE waitListHead[p]
      /\ \A p \in Queues : currentCount'[p] = IF p = q THEN CountAfterWake(p) ELSE currentCount[p]
  <2>1. /\ ~kernelApcPending[t] /\ queue' = queue /\ initialized' = initialized
        /\ \A p \in Queues : entryListHead'[p] = IF p = queue[t] /\ Woken(queue[t]) # {} THEN Tail(entryListHead[p])
                                                 ELSE entryListHead[p]
        /\ \A u \in Threads : place'[u] = IF u = t THEN place'[t]
                                           ELSE IF u \in Woken(queue[t]) THEN "Running" ELSE place[u]
        /\ \A u \in Threads : entry'[u] = IF u \in Woken(queue[t]) THEN Head(entryListHead[queue[t]]) ELSE entry[u]
        /\ \A p \in Queues : waitListHead'[p] = IF p = queue[t] /\ Woken(queue[t]) # {} THEN Front(waitListHead[p])
                                                ELSE waitListHead[p]
        /\ \A p \in Queues : currentCount'[p] = IF p = queue[t] THEN CountAfterWake(p) ELSE currentCount[p]
    <3> DEFINE r == queue[t]
    <3>1. /\ MayBlock(t) /\ queue' = queue /\ initialized' = initialized
          /\ entryListHead' = [p \in Queues |-> IF p = r /\ Woken(r) # {} THEN Tail(entryListHead[p])
                                                ELSE entryListHead[p]]
          /\ place' = [u \in Threads |-> IF u = t THEN place'[t]
                                         ELSE IF u \in Woken(r) THEN "Running" ELSE place[u]]
          /\ entry' = [u \in Threads |-> IF u \in Woken(r) THEN Head(entryListHead[r]) ELSE entry[u]]
          /\ waitListHead' = [p \in Queues |-> IF p = r /\ Woken(r) # {} THEN Front(waitListHead[p])
                                               ELSE waitListHead[p]]
          /\ currentCount' = [p \in Queues |-> IF p = r THEN CountAfterWake(p) ELSE currentCount[p]]
      BY BlockDoes
    <3> QED
      BY <3>1 DEF MayBlock
  <2> QED
    BY <1>1, <2>1
<1>3. place'[t] = "ObjectWait"
  BY <1>2, BlockDoes
<1>4. Woken(q) # {} => /\ Woken(q) = {Last(waitListHead[q])}
                       /\ waitListHead[q] # << >> /\ entryListHead[q] # << >>
                       /\ Last(waitListHead[q]) \in Threads
                       /\ place[Last(waitListHead[q])] = "QueueWait"
                       /\ queue[Last(waitListHead[q])] = q
  BY WokenWaits
<1>5. /\ q \in initialized /\ t \in Counted(q)
      /\ Woken(q) \cap Counted(q) = {} /\ Woken(q) \in SUBSET Threads
      /\ CountAfterWake(q) = Cardinality((Counted(q) \ {t}) \union Woken(q))
      /\ Woken(q) # {} => currentCount[q] <= MaximumCount
  BY <1>1, CountOfLeft
<1>6. CountAfterWake(q) = IF Woken(q) # {} THEN currentCount[q] ELSE Dec(currentCount[q])
  BY DEF CountAfterWake, Woken
<1>7. \A u \in Threads : place'[u] = IF u = t THEN "ObjectWait"
                                     ELSE IF u \in Woken(q) THEN "Running" ELSE place[u]
  BY <1>2, <1>3
<1>8. CountsAreKept'
  <2>1. Counted(q)' = (Counted(q) \ {t}) \union Woken(q)
    BY <1>1, <1>2, <1>4, <1>5, <1>7 DEF Counted
  <2>2. ASSUME NEW p \in initialized, p # q PROVE currentCount'[p] = Cardinality(Counted(p)')
    <3>1. Counted(p)' = Counted(p)
      BY <1>1, <1>2, <1>4, <1>7, <2>2 DEF Counted
    <3>2. p \in Queues
      BY DEF WaiterTypes
    <3> QED
      BY <1>2, <2>2, <3>1, <3>2 DEF CountsAreKept
  <2>3. currentCount'[q] = Cardinality(Counted(q)')
    BY <1>2, <1>5, <2>1
  <2>4. \A u \in Threads : place'[u] \notin {"QueueSpin", "ObjectSpin"}
    BY <1>7 DEF CountsAreKept
  <2> QED
    BY <1>2, <2>2, <2>3, <2>4 DEF CountsAreKept
<1>9. GivesWithinLimit
  <2> SUFFICES ASSUME NEW u \in Threads, entry'[u] # entry[u], queue'[u] \in initialized
               PROVE  currentCount'[queue'[u]] <= MaximumCount
    BY DEF GivesWithinLimit
  <2>1. u \in Woken(q) /\ queue'[u] = q
    BY <1>2, <1>4
  <2> QED
    BY <1>2, <1>5, <1>6, <2>1
<1>10. BringsNobodyTogether
  <2> SUFFICES ASSUME NEW p \in Queues, PassedBy(p)' PROVE PassedBy(p)
    BY DEF BringsNobodyTogether
  <2>1. /\ p \in initialized /\ entryListHead'[p] # << >> /\ waitListHead'[p] # << >>
        /\ HasRoom(currentCount'[p])
    BY <1>2 DEF PassedBy, HasRoom
  <2>2. CASE p = q /\ Woken(q) # {}
    BY <1>2, <1>4, <1>6, <2>1, <2>2 DEF PassedBy
  <2>3. CASE p = q /\ Woken(q) = {}
    <3>1. ~WakesOne(q)
      BY <2>3 DEF Woken
    <3> QED
      BY <1>2, <1>6, <2>1, <2>3, <3>1 DEF WakesOne
  <2>4. CASE p # q
    BY <1>2, <2>1, <2>4 DEF PassedBy
  <2> QED
    BY <2>2, <2>3, <2>4
<1> QED
  BY <1>8, <1>9, <1>10

\* The count goes up by one for a thread that comes to be counted.
LEMMA CountsOneMore ==
  ASSUME WaiterTypes, CountsAreKept, NEW q \in initialized, NEW t \in Threads, t \notin Counted(q)
  PROVE  /\ Inc(currentCount[q]) = currentCount[q] + 1
         /\ currentCount[q] + 1 = Cardinality(Counted(q) \union {t})
         /\ currentCount[q] \in Nat
<1>1. /\ currentCount[q] = Cardinality(Counted(q)) /\ IsFiniteSet(Counted(q))
      /\ currentCount[q] \in Nat /\ currentCount[q] + 1 < Word
  BY CountedIsFinite DEF CountsAreKept
<1>2. currentCount[q] \in 0 .. Word - 1
  BY DEF WaiterTypes
<1> QED
  BY <1>1, <1>2, Counting, FS_AddElement

LEMMA InsertKeepsCounts ==
  ASSUME QueueInv, CountsAreKept, NEW t \in Threads, NEW q \in Queues, NEW e \in Entries,
         NEW end \in {"head", "tail"}, KiInsertQueue(t, q, e, end)
  PROVE  /\ CountsAreKept' /\ GivesWithinLimit
         /\ \A p \in Queues : PassedBy(p)' /\ ~PassedBy(p) =>
              queue[t] = p /\ place[t] = "QueueRetry" /\ entryListHead'[p] # entryListHead[p]
<1> USE DEF QueueInv
<1>1. q \in initialized /\ UNCHANGED <<initialized, queue>>
  BY InsertDoes
<1>2. CASE Hands(t, q, e)
  <2>1. PICK u \in Threads : u = Last(waitListHead[q])
    BY <1>2, WaiterIsTaken DEF Hands
  <2>2. place[u] = "QueueWait" /\ queue[u] = q /\ waitListHead[q] # << >> /\ HasRoom(currentCount[q])
    BY <1>2, <2>1, WaiterIsTaken DEF Hands
  <2>3. u \notin Counted(q)
    BY <2>2 DEF Counted
  <2>4. /\ Inc(currentCount[q]) = currentCount[q] + 1
        /\ currentCount[q] + 1 = Cardinality(Counted(q) \union {u})
        /\ currentCount[q] \in Nat
    BY <1>1, <2>3, CountsOneMore
  <2>5. \A v \in Threads : place'[v] = IF v = u THEN "Running" ELSE place[v]
    BY <1>2, <2>1 DEF Hands, WaiterTypes
  <2>6. \A p \in Queues : currentCount'[p] = IF p = q THEN currentCount[q] + 1 ELSE currentCount[p]
    BY <1>2, <2>4 DEF Hands, WaiterTypes
  <2>7. CountsAreKept'
    <3>1. Counted(q)' = Counted(q) \union {u}
      BY <1>1, <2>2, <2>5 DEF Counted
    <3>2. \A p \in initialized : p # q => Counted(p)' = Counted(p)
      BY <1>1, <2>2, <2>5 DEF Counted
    <3>3. \A p \in initialized : p \in Queues
      BY DEF WaiterTypes
    <3>4. \A p \in initialized : currentCount'[p] = Cardinality(Counted(p)')
      BY <2>4, <2>6, <3>1, <3>2, <3>3 DEF CountsAreKept
    <3>5. \A v \in Threads : place'[v] \notin {"QueueSpin", "ObjectSpin"}
      BY <2>5 DEF CountsAreKept
    <3> QED
      BY <1>1, <3>4, <3>5 DEF CountsAreKept
  <2>8. GivesWithinLimit
    <3>1. \A v \in Threads : entry'[v] # entry[v] => v = u
      BY <1>2, <2>1 DEF Hands, EntryTypes
    <3>2. currentCount'[q] <= MaximumCount
      BY <2>2, <2>4, <2>6, CountsAssumption DEF HasRoom
    <3> QED
      BY <1>1, <2>2, <3>1, <3>2 DEF GivesWithinLimit
  <2>9. ASSUME NEW p \in Queues, PassedBy(p)' PROVE PassedBy(p)
    <3>1. /\ p \in initialized /\ entryListHead[p] # << >> /\ waitListHead'[p] # << >>
          /\ HasRoom(currentCount'[p])
      BY <1>1, <1>2, <2>9 DEF PassedBy, HasRoom, Hands
    <3>2. CASE p = q
      BY <2>2, <3>1, <3>2 DEF PassedBy
    <3>3. CASE p # q
      BY <1>2, <2>6, <3>1, <3>3 DEF PassedBy, Hands, WaiterTypes
    <3> QED
      BY <3>2, <3>3
  <2> QED
    BY <2>7, <2>8, <2>9
<1>3. CASE Links(t, q, e)
  <2>1. /\ HandedTo(t, q) = {}
        /\ UNCHANGED <<currentCount, waitListHead, place, entry>>
    BY <1>3 DEF Links
  <2>2. \A p \in Queues : p # q => entryListHead'[p] = entryListHead[p]
    BY <1>3 DEF Links, EntryTypes
  <2>3. CountsAreKept'
    BY <1>1, <2>1 DEF CountsAreKept, Counted
  <2>4. GivesWithinLimit
    BY <2>1 DEF GivesWithinLimit
  <2>5. ASSUME NEW p \in Queues, PassedBy(p)', ~PassedBy(p)
        PROVE  queue[t] = p /\ place[t] = "QueueRetry" /\ entryListHead'[p] # entryListHead[p]
    <3>1. /\ p \in initialized /\ entryListHead'[p] # << >> /\ waitListHead[p] # << >>
          /\ HasRoom(currentCount[p])
      BY <1>1, <2>1, <2>5 DEF PassedBy, HasRoom
    <3>2. entryListHead'[p] # entryListHead[p]
      BY <2>5, <3>1 DEF PassedBy
    <3>3. p = q
      BY <2>2, <3>2
    <3>4. queue[t] = q /\ place[t] = "QueueRetry"
      BY <2>1, <3>1, <3>3 DEF HandedTo
    <3> QED
      BY <3>2, <3>3, <3>4
  <2> QED
    BY <2>3, <2>4, <2>5
<1> QED
  BY <1>2, <1>3, InsertDoes

LEMMA AbortKeepsCounts ==
  ASSUME QueueInv, CountsAreKept, NEW t \in Threads, NEW where \in {"Running", "QueueRetry", "ObjectRetry"},
         KiAbortWaitThread(t, where), place[t] \in {"QueueWait", "ObjectWait"}
  PROVE  CountsAreKept' /\ GivesWithinLimit /\ BringsNobodyTogether
<1> USE DEF QueueInv
<1>1. /\ UNCHANGED <<entryListHead, initialized, queue, entry>>
      /\ currentCount' = CountAgain(t)
      /\ waitListHead' = [q \in Queues |-> Unlink(waitListHead[q], t)]
      /\ place' = [place EXCEPT ![t] = where]
  BY DEF KiAbortWaitThread
<1>2. \A q \in Queues : t \notin Counted(q)
  BY DEF Counted
<1>3. \A q \in initialized : q \in Queues
  BY DEF WaiterTypes
<1>4. \A u \in Threads : place'[u] = IF u = t THEN where ELSE place[u]
  BY <1>1 DEF WaiterTypes
<1>5. \A q \in initialized : q = queue[t] =>
        /\ currentCount'[q] = currentCount[q] + 1
        /\ currentCount[q] + 1 = Cardinality(Counted(q) \union {t})
        /\ currentCount[q] \in Nat
  BY <1>1, <1>2, <1>3, CountsOneMore DEF CountAgain
<1>6. \A q \in initialized : q # queue[t] => currentCount'[q] = currentCount[q]
  BY <1>1, <1>3 DEF CountAgain
<1>7. CountsAreKept'
  <2>1. \A q \in initialized : Counted(q)' = IF q = queue[t] THEN Counted(q) \union {t} ELSE Counted(q)
    BY <1>1, <1>4 DEF Counted
  <2>2. \A q \in initialized : currentCount'[q] = Cardinality(Counted(q)')
    BY <1>5, <1>6, <2>1 DEF CountsAreKept
  <2>3. \A u \in Threads : place'[u] \notin {"QueueSpin", "ObjectSpin"}
    BY <1>4 DEF CountsAreKept
  <2> QED
    BY <1>1, <2>2, <2>3 DEF CountsAreKept
<1>8. GivesWithinLimit
  BY <1>1 DEF GivesWithinLimit
<1>9. BringsNobodyTogether
  <2> SUFFICES ASSUME NEW q \in Queues, PassedBy(q)' PROVE PassedBy(q)
    BY DEF BringsNobodyTogether
  <2>1. /\ q \in initialized /\ entryListHead[q] # << >> /\ waitListHead'[q] # << >>
        /\ HasRoom(currentCount'[q])
    BY <1>1 DEF PassedBy, HasRoom
  <2>2. waitListHead[q] # << >>
    <3>1. Unlink(<< >>, t) = << >>
      BY EmptyHasNone DEF Unlink
    <3> QED
      BY <1>1, <2>1, <3>1
  <2>3. HasRoom(currentCount[q])
    <3>1. CASE q = queue[t]
      <4>1. currentCount'[q] = currentCount[q] + 1 /\ currentCount[q] \in Nat
        BY <1>5, <2>1, <3>1
      <4> QED
        BY <2>1, <4>1, CountsAssumption DEF HasRoom
    <3>2. CASE q # queue[t]
      BY <1>6, <2>1, <3>2
    <3> QED
      BY <3>1, <3>2
  <2> QED
    BY <2>1, <2>2, <2>3 DEF PassedBy
<1> QED
  BY <1>7, <1>8, <1>9

\* A step that moves no thread into a wait or out of one.
LEMMA BystandersKeepCounts ==
  ASSUME QueueInv, CountsAreKept,
         UNCHANGED <<entryListHead, currentCount, waitListHead, initialized, queue>>,
         \A t \in Threads : place'[t] = place[t] \/ (/\ place[t] \notin {"QueueWait", "ObjectWait"}
                                                     /\ place'[t] \in {"Running", "Terminated"}),
         \A t \in Threads : entry'[t] \in {entry[t], NoEntry}
  PROVE  CountsAreKept' /\ GivesWithinLimit /\ BringsNobodyTogether
<1>1. \A q \in Queues : Counted(q)' = Counted(q)
  BY DEF Counted
<1>2. CountsAreKept'
  BY <1>1 DEF CountsAreKept, QueueInv, WaiterTypes
<1>3. GivesWithinLimit
  BY DEF GivesWithinLimit
<1>4. BringsNobodyTogether
  BY DEF BringsNobodyTogether, PassedBy
<1> QED
  BY <1>2, <1>3, <1>4

LEMMA InitializeKeepsCounts ==
  ASSUME QueueInv, CountsAreKept, NEW q \in Queues, KeInitializeQueue(q)
  PROVE  CountsAreKept' /\ GivesWithinLimit /\ BringsNobodyTogether
<1> USE DEF QueueInv
<1>1. /\ q \notin initialized /\ initialized' = initialized \union {q}
      /\ UNCHANGED <<queue, place, entry>>
      /\ \A p \in Queues : /\ entryListHead'[p] = IF p = q THEN << >> ELSE entryListHead[p]
                           /\ currentCount'[p] = IF p = q THEN 0 ELSE currentCount[p]
                           /\ waitListHead'[p] = IF p = q THEN << >> ELSE waitListHead[p]
  BY DEF KeInitializeQueue, threadVars, EntryTypes, WaiterTypes
<1>2. /\ Counted(q) = {} /\ \A p \in Queues : Counted(p)' = Counted(p)
  BY <1>1, QueuesAssumption DEF Counted, WaitersAreListed
<1>3. CountsAreKept'
  <2>1. \A p \in initialized : p \in Queues
    BY DEF WaiterTypes
  <2>2. \A p \in initialized' : currentCount'[p] = Cardinality(Counted(p)')
    BY <1>1, <1>2, <2>1, FS_EmptySet DEF CountsAreKept
  <2> QED
    BY <1>1, <2>2 DEF CountsAreKept
<1>4. GivesWithinLimit
  BY <1>1 DEF GivesWithinLimit
<1>5. BringsNobodyTogether
  BY <1>1 DEF BringsNobodyTogether, PassedBy
<1> QED
  BY <1>3, <1>4, <1>5

LEMMA RundownKeepsCounts ==
  ASSUME QueueInv, CountsAreKept, NEW q \in Queues, KeRundownQueue(q)
  PROVE  CountsAreKept' /\ GivesWithinLimit /\ BringsNobodyTogether
<1> USE DEF QueueInv
<1>1. /\ initialized' = initialized \ {q}
      /\ UNCHANGED <<currentCount, waitListHead, place, entry>>
      /\ \A p \in Queues : entryListHead'[p] = IF p = q THEN << >> ELSE entryListHead[p]
      /\ \A t \in Threads : queue'[t] = IF queue[t] = q THEN NoQueue ELSE queue[t]
  BY DEF KeRundownQueue, UnlinkThreads, EntryTypes
<1>2. \A p \in Queues \ {q} : Counted(p)' = Counted(p)
  BY <1>1, QueuesAssumption DEF Counted
<1>3. CountsAreKept'
  BY <1>1, <1>2 DEF CountsAreKept, WaiterTypes
<1>4. GivesWithinLimit
  BY <1>1 DEF GivesWithinLimit
<1>5. BringsNobodyTogether
  BY <1>1 DEF BringsNobodyTogether, PassedBy
<1> QED
  BY <1>3, <1>4, <1>5

\* The one step that brings an entry and a waiter together, with room for both.
InsertsFromApc(p) ==
  \E t \in Threads : /\ queue[t] = p /\ place[t] = "QueueRetry"
                     /\ entryListHead'[p] # entryListHead[p]

CountStep ==
  /\ CountsAreKept' /\ GivesWithinLimit
  /\ \A p \in Queues : PassedBy(p)' /\ ~PassedBy(p) => InsertsFromApc(p)

LEMMA CountsNext ==
  ASSUME ~WaitsWithApcPending, QueueInv, CountsAreKept, [Next]_vars
  PROVE  CountStep
<1>0. EntryTypes /\ WaiterTypes /\ WaitersAreListed
  BY DEF QueueInv
<1> DEFINE Kept == CountsAreKept' /\ GivesWithinLimit /\ BringsNobodyTogether
<1>1. Kept => CountStep
  BY DEF CountStep, BringsNobodyTogether
<1>2. ASSUME NEW t \in Threads, NEW q \in Queues, KeRemoveQueue(t, q) PROVE Kept
  BY <1>0, <1>2, RemoveEnters, EnterKeepsCounts
<1>3. ASSUME NEW t \in Threads, NEW q \in Queues, NEW e \in Entries, NEW end \in {"head", "tail"},
             KiInsertQueue(t, q, e, end)
      PROVE  CountStep
  BY <1>3, InsertKeepsCounts DEF CountStep, InsertsFromApc
<1>4. ASSUME NEW t \in Threads, RetryRemove(t) PROVE Kept
  BY <1>0, <1>4, RemoveEnters, EnterKeepsCounts
<1>5. ASSUME NEW t \in Threads, KeWaitForObject(t) PROVE Kept
  BY <1>5, BlockKeepsCounts DEF KeWaitForObject
<1>6. ASSUME NEW t \in Threads, RetryObject(t) PROVE Kept
  <2>1. CASE FindsObjectSignaled(t)
    <3>1. /\ UNCHANGED <<entryListHead, currentCount, waitListHead, initialized, queue, entry>>
          /\ place[t] \in {"ObjectRetry", "ObjectSpin"}
          /\ place' = [place EXCEPT ![t] = "Running"]
      BY <2>1 DEF FindsObjectSignaled, queueVars
    <3>2. \A u \in Threads : place'[u] = place[u] \/ (/\ place[u] \notin {"QueueWait", "ObjectWait"}
                                                      /\ place'[u] \in {"Running", "Terminated"})
      BY <1>0, <3>1 DEF WaiterTypes
    <3> QED
      BY <3>1, <3>2, BystandersKeepCounts
  <2>2. CASE place[t] \in {"ObjectRetry", "ObjectSpin"} /\ BlockOnObject(t)
    BY <2>2, BlockKeepsCounts
  <2> QED
    BY <1>6, <2>1, <2>2 DEF RetryObject
<1>7. ASSUME NEW t \in Threads, WaitEnds(t) PROVE Kept
  BY <1>7, AbortKeepsCounts DEF WaitEnds
<1>8. ASSUME UNCHANGED <<queueVars, initialized, threadVars>> PROVE Kept
  <2>1. UNCHANGED <<entryListHead, currentCount, waitListHead, initialized, queue, place, entry>>
    BY <1>8 DEF queueVars, threadVars
  <2> QED
    BY <2>1, BystandersKeepCounts
<1>9. ASSUME NEW t \in Threads, KeInsertQueueApc(t) PROVE Kept
  <2>1. CASE place[t] = "QueueWait" /\ KiAbortWaitThread(t, "QueueRetry")
    BY <2>1, AbortKeepsCounts
  <2>2. CASE place[t] = "ObjectWait" /\ KiAbortWaitThread(t, "ObjectRetry")
    BY <2>2, AbortKeepsCounts
  <2> QED
    BY <1>8, <1>9, <2>1, <2>2 DEF KeInsertQueueApc
<1>10. ASSUME NEW t \in Threads, KiDeliverApc(t) PROVE Kept
  BY <1>8, <1>10 DEF KiDeliverApc
<1>11. ASSUME NEW t \in Threads, Terminate(t) PROVE Kept
  <2>1. /\ UNCHANGED <<entryListHead, currentCount, waitListHead, initialized, queue>>
        /\ place[t] \notin {"QueueWait", "ObjectWait"}
        /\ place' = [place EXCEPT ![t] = "Terminated"] /\ entry' = [entry EXCEPT ![t] = NoEntry]
    BY <1>11 DEF Terminate, Executing, queueVars
  <2>2. \A u \in Threads : /\ place'[u] = IF u = t THEN "Terminated" ELSE place[u]
                           /\ entry'[u] = IF u = t THEN NoEntry ELSE entry[u]
    BY <1>0, <2>1 DEF WaiterTypes, EntryTypes
  <2> QED
    BY <2>1, <2>2, BystandersKeepCounts
<1>12. CASE UNCHANGED vars
  BY <1>1, <1>8, <1>12 DEF vars
<1> HIDE DEF Kept
<1>13. ASSUME NEW q \in Queues, KeInitializeQueue(q) \/ KeRundownQueue(q) PROVE Kept
  BY <1>13, InitializeKeepsCounts, RundownKeepsCounts DEF Kept
<1> QED
  BY <1>1, <1>2, <1>3, <1>4, <1>5, <1>6, <1>7, <1>9, <1>10, <1>11, <1>12, <1>13 DEF Next
-------------------------------------------------------------------------------
LEMMA CountsInit == Init => CountsAreKept
<1> SUFFICES ASSUME Init PROVE CountsAreKept
  OBVIOUS
<1>1. \A q \in Queues : Counted(q) = {}
  BY QueuesAssumption DEF Init, Counted
<1> QED
  BY <1>1, FS_EmptySet DEF Init, CountsAreKept

\* CurrentCount is the number of threads that are active, for CountIsActiveThreads,
\* and bounds that number where threads have terminated.
LEMMA CountsAgree ==
  ASSUME QueueInv, CountsAreKept
  PROVE  CountIsActiveThreads /\ \A q \in initialized : Cardinality(Active(q)) <= currentCount[q]
<1>1. ASSUME NEW q \in initialized PROVE Cardinality(Active(q)) <= currentCount[q]
  <2>1. Active(q) \in SUBSET Counted(q) /\ Counted(q) \in SUBSET Counted(q)
    BY DEF Active, Counted
  <2>2. IsFiniteSet(Counted(q)) /\ Cardinality(Active(q)) <= Cardinality(Counted(q))
    BY <2>1, CountedIsFinite
  <2> QED
    BY <2>2 DEF CountsAreKept
<1>2. ASSUME NEW q \in initialized,
             \A t \in Threads : queue[t] = q => place[t] \notin {"QueueSpin", "ObjectSpin", "Terminated"}
      PROVE  currentCount[q] = Cardinality(Active(q))
  <2>1. Active(q) = Counted(q)
    BY <1>2 DEF Active, Counted
  <2> QED
    BY <2>1 DEF CountsAreKept
<1> QED
  BY <1>1, <1>2 DEF CountIsActiveThreads

\* No queue loses count of its threads, or an entry, or a waiter; an entry is handed
\* out only while there is room, and is not left beside a waiter for which there is.
THEOREM WorkHandedOut == ~WaitsWithApcPending => (Spec => WorkIsHandedOut)
<1> SUFFICES ASSUME ~WaitsWithApcPending PROVE Spec => WorkIsHandedOut
  OBVIOUS
<1> DEFINE Inv == QueueInv /\ CountsAreKept
           Within == \A q \in initialized : Cardinality(Active(q)) <= currentCount[q]
<1>1. Init => Inv
  BY QueueInvInit, CountsInit
<1>2. Inv /\ [Next]_vars => Inv'
  BY QueueInvNext, CountsNext DEF CountStep
<1>3. Inv => QueuesConsistent /\ Within
  BY TypesApart, EntriesAlike, WaitersAlike, CountsAgree DEF QueueInv, QueuesConsistent
<1>4. Inv /\ Inv' /\ Within' /\ [Next]_vars =>
        /\ [\A q \in Queues : PassedBy(q)' /\ ~PassedBy(q) =>
              \E t \in Threads : /\ queue[t] = q /\ place[t] = "QueueRetry"
                                 /\ entryListHead'[q] # entryListHead[q]]_vars
        /\ [\A q \in initialized : \A t \in Threads :
              entry'[t] # entry[t] /\ entry'[t] # NoEntry /\ queue'[t] = q
                => Cardinality(Active(q)') <= MaximumCount]_vars
  <2> SUFFICES ASSUME Inv, Inv', Within', [Next]_vars
               PROVE  /\ \A q \in Queues : PassedBy(q)' /\ ~PassedBy(q) => InsertsFromApc(q)
                      /\ \A q \in initialized : \A t \in Threads :
                           entry'[t] # entry[t] /\ entry'[t] # NoEntry /\ queue'[t] = q
                             => Cardinality(Active(q)') <= MaximumCount
    BY DEF InsertsFromApc
  <2>1. CountStep
    BY CountsNext
  <2>2. ASSUME NEW q \in initialized, NEW t \in Threads,
               entry'[t] # entry[t], entry'[t] # NoEntry, queue'[t] = q
        PROVE  Cardinality(Active(q)') <= MaximumCount
    <3>1. currentCount'[q] <= MaximumCount
      BY <2>1, <2>2 DEF CountStep, GivesWithinLimit
    <3>2. q \in Queues /\ q \in initialized'
      BY <2>2, QueuesAssumption DEF QueueInv, WaiterTypes, WaitersAreListed
    <3>3. Cardinality(Active(q)') <= currentCount'[q]
      BY <3>2
    <3>4. Cardinality(Active(q)') \in Nat /\ currentCount'[q] \in Nat
      <4>1. IsFiniteSet(Active(q)')
        BY CountsAssumption, FS_Subset DEF Active
      <4> QED
        BY <3>2, <4>1, FS_CardinalityType, CountsAssumption DEF QueueInv, WaiterTypes
    <3> QED
      BY <3>1, <3>3, <3>4, CountsAssumption
  <2> QED
    BY <2>1, <2>2 DEF CountStep
<1> HIDE DEF Inv, Within
<1> QED
  BY <1>1, <1>2, <1>3, <1>4, PTL
  DEF Spec, WorkIsHandedOut, NoEntryWaitsWithRoom, LimitKeptOnHandOut
-------------------------------------------------------------------------------
(* Device queues. *)

DeviceInv == DeviceTypeOK /\ PacketsAccountedFor /\ BusyMeansCurrent

LEMMA KeysAreNumbers ==
  ASSUME DeviceAssumption, DeviceTypeOK
  PROVE  /\ Keys \subseteq Int /\ sortKey \in [Irps -> Int]
         /\ Len(list) \in Nat /\ DOMAIN list = 1 .. Len(list)
         /\ \A i \in 1 .. Len(list) : list[i] \in Irps /\ sortKey[list[i]] \in Int
<1>1. Keys \subseteq Int /\ Keys \union {0} \subseteq Int
  BY DEF DeviceAssumption
<1>2. sortKey \in [Irps -> Int]
  <2>1. sortKey \in [Irps -> Keys \union {0}]
    BY DEF DeviceTypeOK
  <2> QED
    BY <1>1, <2>1
<1>3. list \in Seq(Irps)
  BY DEF DeviceTypeOK
<1> QED
  BY <1>1, <1>2, <1>3

\* InsertAscendingListFIFO links its entry behind those with a key up to its own.
LEMMA PlaceByKey ==
  ASSUME DeviceAssumption, DeviceTypeOK, NEW irp \in Irps, NEW key \in Keys
  PROVE  \E n \in 0 .. Len(list) :
           /\ InsertAscendingListFIFO(irp, key) = InsertAfter(list, n, irp)
           /\ \A i \in 1 .. n : sortKey[list[i]] <= key
           /\ n < Len(list) => key < sortKey[list[n + 1]]
<1> DEFINE P == {i \in DOMAIN list : \A j \in 1 .. i : sortKey[list[j]] <= key}
           n == Cardinality(P)
<1>1. Len(list) \in Nat /\ DOMAIN list = 1 .. Len(list)
  BY KeysAreNumbers
<1>2. key \in Int /\ \A i \in 1 .. Len(list) : sortKey[list[i]] \in Int
  BY KeysAreNumbers
<1>3. P \in SUBSET (1 .. Len(list)) /\ \A i \in P : 1 .. i \subseteq P
  BY <1>1
<1> HIDE DEF P
<1>4. n \in 0 .. Len(list) /\ P = 1 .. n
  BY <1>1, <1>3, PrefixCount
<1>5. InsertAscendingListFIFO(irp, key) = InsertAfter(list, n, irp)
  BY DEF InsertAscendingListFIFO, P
<1> HIDE DEF n
<1>6. ASSUME NEW i \in 1 .. n PROVE sortKey[list[i]] <= key
  <2>1. i \in P /\ i \in 1 .. i
    BY <1>4
  <2> QED
    BY <2>1 DEF P
<1>7. ASSUME n < Len(list) PROVE key < sortKey[list[n + 1]]
  <2> SUFFICES ASSUME ~(key < sortKey[list[n + 1]]) PROVE FALSE
    OBVIOUS
  <2>1. n + 1 \in DOMAIN list /\ n + 1 \notin 1 .. n
    BY <1>1, <1>4, <1>7
  <2>2. sortKey[list[n + 1]] <= key
    BY <1>1, <1>2, <2>1
  <2>3. \A j \in 1 .. n + 1 : sortKey[list[j]] <= key
    <3> TAKE j \in 1 .. n + 1
    <3>1. j \in 1 .. n \/ j = n + 1
      BY <1>4
    <3> QED
      BY <1>6, <2>2, <3>1
  <2> QED
    BY <1>4, <2>1, <2>3 DEF P
<1> QED
  BY <1>4, <1>5, <1>6, <1>7

\* A packet becomes the current one or waits in the list that it is linked into.
LEMMA PacketEnters ==
  ASSUME DeviceAssumption, DeviceInv, NEW irp \in Irps, NEW newList \in Seq(Irps),
         irp \notin pending =>
           NoDuplicates(newList) /\ Members(newList) = Members(list) \union {irp},
         IoStartPacket(irp, newList), sortKey' \in [Irps -> Keys \union {0}]
  PROVE  DeviceInv' /\ (~busy => list' = list /\ list = << >>)
<1>1. /\ DeviceTypeOK /\ PacketsAccountedFor /\ BusyMeansCurrent /\ NoIrp \notin Irps
      /\ irp \notin pending /\ irp # NoIrp
      /\ NoDuplicates(newList) /\ Members(newList) = Members(list) \union {irp}
  BY DEF DeviceInv, DeviceAssumption, IoStartPacket
<1>2. irp \notin Members(list) /\ irp # currentIrp
  BY <1>1 DEF PacketsAccountedFor
<1>3. CASE busy
  <2>1. /\ list' = newList /\ queued' = queued \union {irp} /\ busy' = TRUE
        /\ currentIrp' = currentIrp /\ pending' = pending \union {irp}
    BY <1>3 DEF IoStartPacket, InsertEntry
  <2>2. DeviceTypeOK'
    BY <1>1, <2>1 DEF DeviceTypeOK
  <2>3. PacketsAccountedFor'
    BY <1>1, <1>2, <2>1 DEF PacketsAccountedFor
  <2>4. BusyMeansCurrent'
    BY <1>1, <1>3, <2>1 DEF BusyMeansCurrent
  <2> QED
    BY <1>3, <2>2, <2>3, <2>4 DEF DeviceInv
<1>4. CASE ~busy
  <2>1. /\ list' = list /\ queued' = queued \ {irp} /\ busy' = TRUE
        /\ currentIrp' = irp /\ pending' = pending \union {irp}
    BY <1>4 DEF IoStartPacket, InsertEntry
  <2>2. list = << >> /\ currentIrp = NoIrp /\ Members(list) = {}
    BY <1>1, <1>4, EmptyHasNone DEF BusyMeansCurrent
  <2>3. DeviceTypeOK'
    BY <1>1, <2>1 DEF DeviceTypeOK
  <2>4. PacketsAccountedFor'
    BY <1>1, <1>2, <2>1, <2>2 DEF PacketsAccountedFor
  <2>5. BusyMeansCurrent'
    BY <1>1, <2>1 DEF BusyMeansCurrent
  <2> QED
    BY <2>1, <2>2, <2>3, <2>4, <2>5 DEF DeviceInv
<1> QED
  BY <1>3, <1>4

\* A packet without a key is the last of the list.
LEMMA TailStarts ==
  ASSUME DeviceAssumption, DeviceInv, NEW irp \in Irps, IoStartPacketTail(irp)
  PROVE  DeviceInv' /\ BehindEqualKeys
<1>1. /\ DeviceTypeOK /\ list \in Seq(Irps) /\ NoDuplicates(list) /\ irp \notin Members(list)
      /\ IoStartPacket(irp, Append(list, irp)) /\ sortKey' = sortKey
  BY DEF DeviceInv, DeviceTypeOK, PacketsAccountedFor, IoStartPacketTail, IoStartPacket
<1>2. /\ Append(list, irp) \in Seq(Irps) /\ NoDuplicates(Append(list, irp))
      /\ Members(Append(list, irp)) = Members(list) \union {irp}
  BY <1>1, AppendAdds
<1>3. DeviceInv' /\ (~busy => list' = list)
  <2>1. sortKey' \in [Irps -> Keys \union {0}]
    BY <1>1 DEF DeviceTypeOK
  <2> QED
    BY <1>1, <1>2, <2>1, PacketEnters
<1>4. CASE ~busy
  <2>1. list' = list
    BY <1>3, <1>4
  <2> QED
    BY <1>3, <2>1 DEF BehindEqualKeys, Members
<1>5. CASE busy
  <2>1. list' = Append(list, irp)
    BY <1>1, <1>5 DEF IoStartPacket, InsertEntry
  <2>2. /\ Len(list) \in Nat /\ DOMAIN list' = 1 .. Len(list) + 1 /\ list'[Len(list) + 1] = irp
        /\ DOMAIN list = 1 .. Len(list) /\ \A i \in 1 .. Len(list) : list'[i] = list[i]
    BY <1>1, <1>2, <2>1, AppendProperties
  <2>3. ASSUME NEW i \in DOMAIN list', NEW j \in DOMAIN list',
               list'[i] \notin Members(list), list'[j] \in Members(list)
        PROVE  j < i
    <3>1. i = Len(list) + 1
      BY <2>2, <2>3 DEF Members
    <3>2. j # Len(list) + 1
      BY <1>1, <2>2, <2>3
    <3> QED
      BY <2>2, <3>1, <3>2
  <2> QED
    BY <1>3, <2>3 DEF BehindEqualKeys
<1> QED
  BY <1>4, <1>5

\* A packet with a key is behind those with a key up to its own.
LEMMA KeyedStarts ==
  ASSUME DeviceAssumption, DeviceInv, NEW irp \in Irps, NEW key \in Keys,
         IoStartPacketByKey(irp, key)
  PROVE  DeviceInv' /\ (InOrder => InOrder' /\ BehindEqualKeys)
<1> DEFINE newList == InsertAscendingListFIFO(irp, key)
<1>1. /\ DeviceTypeOK /\ list \in Seq(Irps) /\ NoDuplicates(list) /\ irp \notin Members(list)
      /\ IoStartPacket(irp, newList) /\ sortKey' = [sortKey EXCEPT ![irp] = key]
  BY DEF DeviceInv, DeviceTypeOK, PacketsAccountedFor, IoStartPacketByKey, IoStartPacket
<1>2. PICK n \in 0 .. Len(list) :
        /\ newList = InsertAfter(list, n, irp)
        /\ \A i \in 1 .. n : sortKey[list[i]] <= key
        /\ n < Len(list) => key < sortKey[list[n + 1]]
  BY <1>1, PlaceByKey
<1>3. /\ Len(list) \in Nat /\ DOMAIN list = 1 .. Len(list) /\ key \in Int
      /\ \A i \in 1 .. Len(list) : sortKey[list[i]] \in Int /\ list[i] \in Irps /\ list[i] # irp
      /\ sortKey \in [Irps -> Int] /\ sortKey' \in [Irps -> Keys \union {0}]
  <2>1. sortKey' \in [Irps -> Keys \union {0}]
    BY <1>1 DEF DeviceTypeOK
  <2>2. \A i \in DOMAIN list : list[i] # irp
    BY <1>1 DEF Members
  <2> QED
    BY <1>1, <2>1, <2>2, KeysAreNumbers
<1>4. /\ newList \in Seq(Irps) /\ NoDuplicates(newList)
      /\ Members(newList) = Members(list) \union {irp}
  BY <1>1, <1>2, InsertAdds
<1> HIDE DEF newList
<1>5. DeviceInv' /\ (~busy => list' = list /\ list = << >>)
  BY <1>1, <1>3, <1>4, PacketEnters
<1>6. CASE ~busy
  <2>1. list' = << >> /\ DOMAIN list' = {}
    BY <1>5, <1>6
  <2> QED
    BY <1>5, <2>1 DEF BehindEqualKeys, InOrder
<1>7. CASE busy
  <2> SUFFICES ASSUME InOrder PROVE InOrder' /\ BehindEqualKeys
    BY <1>5
  <2>1. list' = InsertAfter(list, n, irp)
    BY <1>1, <1>2, <1>7 DEF IoStartPacket, InsertEntry
  <2>2. SortedBy(list, sortKey)
    BY DEF InOrder, SortedBy
  <2>3. InOrder'
    <3>1. n < Len(list) => key <= sortKey[list[n + 1]]
      BY <1>2, <1>3
    <3>2. SortedBy(list', sortKey')
      BY <1>1, <1>2, <1>3, <2>1, <2>2, <3>1, InsertKeepsOrder
    <3> QED
      BY <3>2 DEF InOrder, SortedBy
  <2>4. /\ DOMAIN list' = 1 .. Len(list) + 1 /\ list'[n + 1] = irp
        /\ \A i \in 1 .. n : list'[i] = list[i]
        /\ \A i \in n + 2 .. Len(list) + 1 : list'[i] = list[i - 1]
    <3>1. IsInserted(list', list, n, irp)
      BY <1>1, <2>1, InsertPlaces
    <3> QED
      BY <3>1 DEF IsInserted
  <2>5. ASSUME NEW i \in DOMAIN list', NEW j \in DOMAIN list',
               list'[i] \notin Members(list), list'[j] \in Members(list),
               sortKey[list'[j]] <= sortKey'[list'[i]]
        PROVE  j < i
    <3>1. \A k \in 1 .. Len(list) : list[k] \in Members(list)
      BY <1>3 DEF Members
    <3>2. i = n + 1
      <4>1. i \in 1 .. n \/ i = n + 1 \/ (i \in n + 2 .. Len(list) + 1 /\ i - 1 \in 1 .. Len(list))
        BY <1>3, <2>4
      <4> QED
        BY <1>3, <2>4, <2>5, <3>1, <4>1
    <3>3. sortKey'[list'[i]] = key
      BY <1>1, <1>3, <2>4, <3>2
    <3>4. ASSUME j \in n + 2 .. Len(list) + 1 PROVE FALSE
      <4>1. /\ j - 1 \in DOMAIN list /\ n + 1 \in DOMAIN list /\ n < Len(list)
            /\ n + 1 = j - 1 \/ n + 1 < j - 1
        BY <1>3, <3>4
      <4>2. sortKey[list[n + 1]] <= sortKey[list[j - 1]]
        BY <1>3, <4>1 DEF InOrder
      <4>3. list'[j] = list[j - 1]
        BY <2>4, <3>4
      <4> QED
        BY <1>2, <1>3, <2>5, <3>3, <4>1, <4>2, <4>3
    <3>5. j # n + 1
      BY <1>1, <2>4, <2>5
    <3> QED
      BY <1>3, <2>4, <3>2, <3>4, <3>5
  <2> QED
    BY <2>3, <2>5 DEF BehindEqualKeys
<1> QED
  BY <1>6, <1>7

\* Taking an entry, or none from an empty list, leaves the others in their places.
LEMMA EntryLeaves ==
  ASSUME DeviceInv, NEW irp, list' = Unlink(list, irp), sortKey' = sortKey
  PROVE  /\ list' \in Seq(Irps) /\ NoDuplicates(list')
         /\ Members(list') = Members(list) \ {irp}
         /\ BehindEqualKeys /\ (InOrder => InOrder')
<1>1. list \in Seq(Irps) /\ NoDuplicates(list)
  BY DEF DeviceInv, DeviceTypeOK, PacketsAccountedFor
<1>2. /\ list' \in Seq(Irps) /\ NoDuplicates(list')
      /\ Members(list') = Members(list) \ {irp}
  BY <1>1, UnlinkRemoves
<1>3. BehindEqualKeys
  BY <1>2 DEF BehindEqualKeys, Members
<1>4. InOrder => InOrder'
  <2>1. SortedBy(list, sortKey) => SortedBy(list', sortKey)
    BY <1>1, UnlinkKeepsOrder
  <2> QED
    BY <2>1 DEF InOrder, SortedBy
<1> QED
  BY <1>2, <1>3, <1>4

\* The next packet is one of the list, if there is one.
LEMMA NextStarts ==
  ASSUME DeviceAssumption, DeviceInv, currentIrp # NoIrp,
         pending' = pending \ {currentIrp}, Remove(currentIrp'), sortKey' = sortKey,
         IF list = << >> THEN currentIrp' = NoIrp ELSE currentIrp' \in Members(list)
  PROVE  DeviceInv' /\ BehindEqualKeys /\ (InOrder => InOrder')
<1>1. DeviceTypeOK /\ PacketsAccountedFor /\ BusyMeansCurrent /\ NoIrp \notin Irps
  BY DEF DeviceInv, DeviceAssumption
<1>2. /\ list' = Unlink(list, currentIrp') /\ queued' = queued \ {currentIrp'}
      /\ busy' = (currentIrp' # NoIrp)
  BY DEF Remove
<1>3. /\ list' \in Seq(Irps) /\ NoDuplicates(list')
      /\ Members(list') = Members(list) \ {currentIrp'}
      /\ BehindEqualKeys /\ (InOrder => InOrder')
  BY <1>2, EntryLeaves
<1>4. Members(list) \subseteq Irps /\ NoIrp \notin Members(list)
  BY <1>1 DEF DeviceTypeOK, Members
<1>5. CASE list = << >>
  <2>1. currentIrp' = NoIrp /\ Members(list) = {} /\ list' = << >>
    BY <1>2, <1>5, EmptyHasNone DEF Unlink
  <2>2. DeviceTypeOK'
    BY <1>1, <1>2, <1>3, <2>1 DEF DeviceTypeOK
  <2>3. PacketsAccountedFor'
    BY <1>1, <1>2, <1>3, <2>1 DEF PacketsAccountedFor
  <2>4. BusyMeansCurrent'
    BY <1>2, <2>1 DEF BusyMeansCurrent
  <2> QED
    BY <1>3, <2>2, <2>3, <2>4 DEF DeviceInv
<1>6. CASE list # << >>
  <2>1. currentIrp' \in Members(list) /\ currentIrp' # NoIrp /\ currentIrp' \in Irps
    BY <1>4, <1>6
  <2>2. DeviceTypeOK'
    BY <1>1, <1>2, <1>3, <2>1 DEF DeviceTypeOK
  <2>3. PacketsAccountedFor'
    BY <1>1, <1>2, <1>3, <2>1 DEF PacketsAccountedFor
  <2>4. BusyMeansCurrent'
    BY <1>2, <2>1 DEF BusyMeansCurrent
  <2> QED
    BY <1>3, <2>2, <2>3, <2>4 DEF DeviceInv
<1> QED
  BY <1>5, <1>6

\* KeRemoveByKeyDeviceQueue takes an entry of the list; of a list in order the first whose
\* key is not below the one it is given, if there is one.
LEMMA EntryFits ==
  ASSUME DeviceAssumption, DeviceTypeOK, list # << >>, NEW key \in Int
  PROVE  /\ EntryByKey(key) \in Members(list)
         /\ InOrder => \A irp \in Members(list) : sortKey[irp] >= key =>
              sortKey[EntryByKey(key)] >= key /\ sortKey[EntryByKey(key)] <= sortKey[irp]
<1> DEFINE fit == {i \in DOMAIN list : sortKey[list[i]] >= key}
           first == CHOOSE i \in fit : \A j \in fit : i <= j
<1>1. /\ Len(list) \in Nat /\ DOMAIN list = 1 .. Len(list)
      /\ \A i \in DOMAIN list : list[i] \in Irps /\ sortKey[list[i]] \in Int
  BY KeysAreNumbers
<1>2. CASE fit = {}
  <2>1. EntryByKey(key) = Head(list) /\ Head(list) \in Members(list)
    BY <1>2, HeadIsMember DEF EntryByKey, DeviceTypeOK
  <2>2. \A irp \in Members(list) : ~(sortKey[irp] >= key)
    BY <1>2 DEF Members
  <2> QED
    BY <2>1, <2>2
<1>3. CASE fit # {}
  <2>1. EntryByKey(key) = list[first]
    BY <1>3 DEF EntryByKey
  <2>2. fit \in SUBSET Nat /\ fit \subseteq DOMAIN list
    BY <1>1
  <2>3. \A i \in fit : sortKey[list[i]] >= key
    OBVIOUS
  <2>4. \A i \in DOMAIN list : sortKey[list[i]] >= key => i \in fit
    OBVIOUS
  <2> HIDE DEF fit
  <2>5. \E i \in fit : \A j \in fit : i <= j
    BY <1>3, <2>2, LeastIsThere
  <2>6. first \in fit /\ \A j \in fit : first <= j
    BY <2>5
  <2> HIDE DEF first
  <2>7. list[first] \in Members(list) /\ sortKey[list[first]] >= key
    BY <2>2, <2>3, <2>6 DEF Members
  <2>8. ASSUME InOrder, NEW irp \in Members(list), sortKey[irp] >= key
        PROVE  sortKey[list[first]] <= sortKey[irp]
    <3>1. PICK i \in DOMAIN list : list[i] = irp
      BY DEF Members
    <3>2. i \in fit /\ first \in DOMAIN list /\ (first < i \/ first = i)
      BY <1>1, <2>2, <2>4, <2>6, <2>8, <3>1
    <3> QED
      BY <1>1, <2>8, <3>1, <3>2 DEF InOrder
  <2> QED
    BY <2>1, <2>7, <2>8
<1> QED
  BY <1>2, <1>3

LEMMA CancelledLeaves ==
  ASSUME DeviceAssumption, DeviceInv, NEW irp \in Irps, KeRemoveEntryDeviceQueue(irp)
  PROVE  DeviceInv' /\ BehindEqualKeys /\ (InOrder => InOrder')
<1>1. DeviceTypeOK /\ PacketsAccountedFor /\ BusyMeansCurrent
  BY DEF DeviceInv
<1>2. irp \in Members(list) /\ irp # currentIrp
  BY <1>1 DEF KeRemoveEntryDeviceQueue, PacketsAccountedFor
<1>3. /\ list' = Unlink(list, irp) /\ queued' = queued \ {irp} /\ pending' = pending \ {irp}
      /\ busy' = busy /\ sortKey' = sortKey /\ currentIrp' = currentIrp
  BY <1>1, <1>2 DEF KeRemoveEntryDeviceQueue, PacketsAccountedFor
<1>4. /\ list' \in Seq(Irps) /\ NoDuplicates(list') /\ Members(list') = Members(list) \ {irp}
      /\ BehindEqualKeys /\ (InOrder => InOrder')
  BY <1>3, EntryLeaves
<1>5. DeviceTypeOK'
  BY <1>1, <1>3, <1>4 DEF DeviceTypeOK
<1>6. PacketsAccountedFor'
  BY <1>1, <1>2, <1>3, <1>4 DEF PacketsAccountedFor
<1>7. BusyMeansCurrent'
  <2>1. list # << >>
    BY <1>2, EmptyHasNone
  <2> QED
    BY <1>1, <1>3, <2>1 DEF BusyMeansCurrent
<1> QED
  BY <1>4, <1>5, <1>6, <1>7 DEF DeviceInv

LEMMA DeviceStep ==
  ASSUME DeviceAssumption, DeviceInv, [DeviceNext]_deviceVars
  PROVE  /\ DeviceInv'
         /\ [InOrder => StaysInOrder /\ BehindEqualKeys /\ NearestAbove]_deviceVars
<1>1. DeviceTypeOK /\ PacketsAccountedFor /\ BusyMeansCurrent
  BY DEF DeviceInv
<1>2. CASE UNCHANGED deviceVars
  BY <1>1, <1>2
     DEF deviceVars, DeviceInv, DeviceTypeOK, PacketsAccountedFor, BusyMeansCurrent
<1>3. CASE IoStartNextPacketByKey
  <2>1. /\ currentIrp # NoIrp /\ pending' = pending \ {currentIrp}
        /\ currentIrp' = EntryByKey(sortKey[currentIrp]) /\ Remove(currentIrp')
        /\ sortKey' = sortKey
    BY <1>3 DEF IoStartNextPacketByKey
  <2>2. sortKey[currentIrp] \in Int
    BY <1>1, <2>1, KeysAreNumbers DEF DeviceTypeOK
  <2>3. list = << >> => currentIrp' = NoIrp
    BY <2>1 DEF EntryByKey
  <2>4. list # << >> => currentIrp' \in Members(list)
    BY <1>1, <2>1, <2>2, EntryFits
  <2>5. DeviceInv' /\ BehindEqualKeys /\ (InOrder => InOrder')
    BY <2>1, <2>3, <2>4, NextStarts
  <2>6. InOrder => NearestAbove
    <3>1. list = << >> => Members(list) = {}
      BY EmptyHasNone
    <3> QED
      BY <1>1, <2>1, <2>2, <3>1, EntryFits DEF NearestAbove
  <2> QED
    BY <2>5, <2>6 DEF StaysInOrder
<1>4. CASE ~IoStartNextPacketByKey /\ DeviceNext
  <2>1. NearestAbove
    BY <1>4 DEF NearestAbove
  <2>2. ASSUME NEW irp \in Irps, IoStartPacketTail(irp)
        PROVE  DeviceInv' /\ BehindEqualKeys /\ StaysInOrder
    BY <2>2, TailStarts DEF StaysInOrder
  <2>3. ASSUME NEW irp \in Irps, NEW key \in Keys, IoStartPacketByKey(irp, key)
        PROVE  DeviceInv' /\ (InOrder => BehindEqualKeys /\ StaysInOrder)
    BY <2>3, KeyedStarts DEF StaysInOrder
  <2>4. ASSUME NEW irp \in Irps, KeRemoveEntryDeviceQueue(irp)
        PROVE  DeviceInv' /\ (InOrder => BehindEqualKeys /\ StaysInOrder)
    BY <2>4, CancelledLeaves DEF StaysInOrder
  <2>5. CASE IoStartNextPacket
    <3>1. /\ currentIrp # NoIrp /\ pending' = pending \ {currentIrp}
          /\ currentIrp' = NextEntry /\ Remove(currentIrp') /\ sortKey' = sortKey
      BY <2>5 DEF IoStartNextPacket
    <3>2. list # << >> => Head(list) \in Members(list)
      BY <1>1, HeadIsMember DEF DeviceTypeOK
    <3>3. IF list = << >> THEN currentIrp' = NoIrp ELSE currentIrp' \in Members(list)
      BY <3>1, <3>2 DEF NextEntry
    <3>4. DeviceInv' /\ BehindEqualKeys /\ (InOrder => InOrder')
      BY <3>1, <3>3, NextStarts
    <3> QED
      BY <2>1, <3>4 DEF StaysInOrder
  <2> QED
    BY <1>4, <2>1, <2>2, <2>3, <2>4, <2>5 DEF DeviceNext
<1> QED
  BY <1>2, <1>3, <1>4

\* No packet is lost, started twice or left linked, and those that have keys are queued and
\* taken by them, for any number of packets.
THEOREM PacketsServed ==
  ASSUME DeviceAssumption
  PROVE  DeviceSpec => PacketsServedInOrder
<1>1. DeviceInit => DeviceInv
  <2> SUFFICES ASSUME DeviceInit PROVE DeviceInv
    OBVIOUS
  <2>1. list = << >> /\ list \in Seq(Irps) /\ Members(list) = {} /\ NoDuplicates(list)
    BY EmptyHasNone DEF DeviceInit, NoDuplicates
  <2> QED
    BY <2>1 DEF DeviceInit, DeviceInv, DeviceTypeOK, PacketsAccountedFor, BusyMeansCurrent
<1>2. DeviceInv /\ [DeviceNext]_deviceVars =>
        DeviceInv' /\ [InOrder => StaysInOrder /\ BehindEqualKeys /\ NearestAbove]_deviceVars
  BY DeviceStep
<1> QED
  BY <1>1, <1>2, PTL DEF DeviceSpec, PacketsServedInOrder, DeviceInv
===============================================================================
