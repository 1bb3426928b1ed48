------------------------------ MODULE PsScheduler ------------------------------
(***************************************************************************)
(* Which thread runs on the one processor: the ready lists of ps/thread.c and *)
(* their mask, the end of a quantum (ke/clock.c, ke/dpc.c), and the reaper that *)
(* frees terminated threads once they have been switched away from.           *)
(*                                                                         *)
(* The ready lists run through the QueueListEntry of the threads, and so does  *)
(* the list of the threads of a kernel queue (ke/queue.c).  Both are modelled  *)
(* link by link.  All of it happens under the dispatcher lock: an operation is *)
(* a step.  Every caller of PsUnblockThread gives an increment of zero, so that *)
(* Priority and BasePriority are the same and nothing is boosted.              *)
(***************************************************************************)
EXTENDS Naturals, Sequences, FiniteSets

CONSTANTS
  Ordinary,      \* threads but for the two below
  Idle, Reaper,
  Queues,        \* kernel queues
  Takers,        \* the ordinary threads that take entries from them
  High,          \* HIGH_PRIORITY; LOW_PRIORITY is 0
  Realtime,      \* LOW_REALTIME_PRIORITY
  Quantum,       \* ticks of ThreadQuantum
  Adjusted,      \* the ordinary threads that KeSetPriorityThread is called for
  None

\* What the constants must satisfy; assumed by the module that fixes them.
SchedulerAssumption ==
  /\ Idle \notin Ordinary /\ Reaper \notin Ordinary \union {Idle}
  /\ Takers \subseteq Ordinary /\ Adjusted \subseteq Ordinary
  /\ High \in Nat \ {0} /\ Quantum \in Nat \ {0}

Threads == Ordinary \union {Idle, Reaper}
Priorities == 0 .. High
Normal == 1  \* BasePriority of a process

Ready(p) == <<"Ready", p>>
Queue(q) == <<"Queue", q>>
Heads == {Ready(p) : p \in Priorities} \union {Queue(q) : q \in Queues}
Nodes == Heads \union Threads

VARIABLES
  lists,     \* [f, b, mask]: Flink and Blink of every entry, PriorityListMask
  state,     \* of each thread
  prio, quantum,
  current,   \* Prcb->CurrentThread
  quantumEnd,\* Prcb->QuantumEnd
  fresh,     \* threads that have not run: their first switch ends in PsBeginThread
  queueOf,   \* Thread->Queue
  reap,      \* ThreadsToReapHead
  signal,    \* PiReaperThreadEvent
  freed,     \* threads whose object is gone
  reaping    \* the reaper is in PsReapThreads
vars == <<lists, state, prio, quantum, current, quantumEnd, fresh, queueOf, reap, signal, freed, reaping>>
-------------------------------------------------------------------------------
(* Lists *)

InsertTailList(l, head, e) ==
  [l EXCEPT !.f = [@ EXCEPT ![e] = head, ![l.b[head]] = e],
            !.b = [@ EXCEPT ![e] = l.b[head], ![head] = e]]

RemoveEntryList(l, e) == [l EXCEPT !.f[l.b[e]] = l.f[e], !.b[l.f[e]] = l.b[e]]

PsInsertIntoThreadList(l, t, p) == [InsertTailList(l, Ready(p), t) EXCEPT !.mask = @ \union {p}]

\* Mutated: the bit stays set.
RemoveAndKeepBit(l, t, p) == RemoveEntryList(l, t)

PsRemoveFromThreadList(l, t, p) ==
  LET m == RemoveEntryList(l, t) IN
  [m EXCEPT !.mask = IF m.f[Ready(p)] = Ready(p) THEN @ \ {p} ELSE @]

\* PsScanThreadList for each priority from the highest down.
Candidate(l) ==
  LET full == {p \in l.mask : l.f[Ready(p)] # Ready(p)} IN
  IF full = {} THEN None ELSE l.f[Ready(CHOOSE p \in full : \A r \in full : p >= r)]

Enlist(l, status, pr) == IF status = "Ready" THEN PsInsertIntoThreadList(l, current, pr[current]) ELSE l

\* KeSetEvent on the reaper's event.
PiWakeupReaperThread(l, st) ==
  IF st[Reaper] = "Blocked"
    THEN /\ lists' = PsInsertIntoThreadList(l, Reaper, prio'[Reaper])
         /\ state' = [st EXCEPT ![Reaper] = "Ready"] /\ UNCHANGED signal
    ELSE lists' = l /\ state' = st /\ signal' = TRUE

\* Mutated: the reaper is woken only by the switch from the thread that dies.
WakeAtDeath(l, status) ==
  LET m == Enlist(l, status, prio')
      c == Candidate(m)
      st == [state EXCEPT ![current] = status, ![c] = "Running"]
      r == PsRemoveFromThreadList(m, c, prio'[c])
  IN
  /\ c \in Threads
  /\ current' = c /\ fresh' = fresh \ {c}
  /\ reap' = IF status = "Terminated" THEN Append(reap, current) ELSE reap
  /\ IF c # current /\ status = "Terminated" /\ c \notin fresh
       THEN PiWakeupReaperThread(r, st)
       ELSE lists' = r /\ state' = st /\ UNCHANGED signal

\* The current thread takes the given state and the next one runs.  A thread that is
\* switched to comes out of the switch, and wakes the reaper if anybody is to be reaped,
\* unless it is its first.  The priorities are those of prio'.
PsDispatchThreadNoLock(l, status) ==
  LET m == Enlist(l, status, prio')
      c == Candidate(m)
      st == [state EXCEPT ![current] = status, ![c] = "Running"]
      r == PsRemoveFromThreadList(m, c, prio'[c])
  IN
  /\ c \in Threads
  /\ current' = c /\ fresh' = fresh \ {c}
  /\ reap' = IF status = "Terminated" THEN Append(reap, current) ELSE reap
  /\ IF c # current /\ reap' # <<>> /\ c \notin fresh
       THEN PiWakeupReaperThread(r, st)
       ELSE lists' = r /\ state' = st /\ UNCHANGED signal
-------------------------------------------------------------------------------
(* What the current thread, and interrupts, do *)

\* NtYieldExecution; PsBlockThread with a kernel APC pending.
Yield ==
  /\ current # Reaper
  /\ UNCHANGED prio /\ PsDispatchThreadNoLock(lists, "Ready")
  /\ UNCHANGED <<quantum, quantumEnd, queueOf, freed, reaping>>

PsBlockThread ==
  /\ current \in Ordinary
  /\ UNCHANGED prio /\ PsDispatchThreadNoLock(lists, "Blocked")
  /\ UNCHANGED <<quantum, quantumEnd, queueOf, freed, reaping>>

\* The end of PsTerminateCurrentThread.
Terminate ==
  /\ current \in Ordinary
  /\ UNCHANGED prio /\ PsDispatchThreadNoLock(lists, "Terminated")
  /\ UNCHANGED <<quantum, quantumEnd, queueOf, freed, reaping>>

\* A thread that is made to run for the first time, or whose wait ends: by the current
\* thread or by an interrupt.  Nothing is dispatched.
PsUnblockThread(t) ==
  /\ t \in Ordinary /\ state[t] \in {"Initialized", "Blocked"}
  /\ lists' = PsInsertIntoThreadList(lists, t, prio[t])
  /\ state' = [state EXCEPT ![t] = "Ready"]
  /\ quantum' = IF prio[t] >= Realtime - 2 THEN [quantum EXCEPT ![t] = Quantum] ELSE quantum
  /\ UNCHANGED <<prio, current, quantumEnd, fresh, queueOf, reap, signal, freed, reaping>>

\* A ready thread moves to another list, and a higher one than the current is
\* dispatched; a running thread is, when a higher one is ready.
KeSetPriorityThread(t, p) ==
  LET moved == PsInsertIntoThreadList(PsRemoveFromThreadList(lists, t, prio[t]), t, p)
      l == IF state[t] = "Ready" THEN moved ELSE lists
      dispatches ==
        \/ state[t] = "Ready" /\ prio[current] < p
        \/ t = current /\ p < prio[t] /\ \E r \in lists.mask : r > p
  IN
  /\ t \in Adjusted /\ p # prio[t] /\ t \notin freed
  /\ prio' = [prio EXCEPT ![t] = p]
  /\ IF dispatches THEN PsDispatchThreadNoLock(l, "Ready")
                   ELSE lists' = l /\ UNCHANGED <<state, current, fresh, reap, signal>>
  /\ UNCHANGED <<quantum, quantumEnd, queueOf, freed, reaping>>

\* The thread registers with a queue it is not registered with already, and waits for
\* an entry or finds one.  That a thread waiting at the queue it leaves may be woken is
\* left to PsUnblockThread.
KeRemoveQueue(q, waits) ==
  LET old == IF queueOf[current] # None THEN RemoveEntryList(lists, current) ELSE lists
      l == IF queueOf[current] = q THEN lists ELSE InsertTailList(old, Queue(q), current)
  IN
  /\ current \in Takers /\ q \in Queues
  /\ queueOf' = [queueOf EXCEPT ![current] = q]
  /\ UNCHANGED prio
  /\ IF waits THEN PsDispatchThreadNoLock(l, "Blocked")
              ELSE lists' = l /\ UNCHANGED <<state, current, fresh, reap, signal>>
  /\ UNCHANGED <<quantum, quantumEnd, freed, reaping>>

\* The clock interrupt; below zero a quantum counts as zero.
KeUpdateRunTime ==
  /\ quantum' = [quantum EXCEPT ![current] = IF @ = 0 THEN 0 ELSE @ - 1]
  /\ quantumEnd' = (quantumEnd \/ quantum'[current] = 0)
  /\ UNCHANGED <<lists, state, prio, current, fresh, queueOf, reap, signal, freed, reaping>>

\* The software interrupt.  The flag may come from a tick of the thread before.
KiQuantumEnd ==
  /\ quantumEnd /\ quantumEnd' = FALSE
  /\ quantum' = IF quantum[current] = 0 THEN [quantum EXCEPT ![current] = Quantum] ELSE quantum
  /\ UNCHANGED prio /\ PsDispatchThreadNoLock(lists, "Ready")
  /\ UNCHANGED <<queueOf, freed, reaping>>

\* A thread is freed, or the loop finds nobody more to free, and lets go of the lock.
PsReapThreads ==
  /\ current = Reaper /\ reaping
  /\ IF reap = <<>>
       THEN reaping' = FALSE /\ UNCHANGED <<freed, reap>>
       ELSE freed' = freed \union {Head(reap)} /\ reap' = Tail(reap) /\ UNCHANGED reaping
  /\ UNCHANGED <<lists, state, prio, quantum, current, quantumEnd, fresh, queueOf, signal>>

\* The wait for its event; the next step of the reaper is PsReapThreads.
PiReaperThreadMain ==
  /\ current = Reaper /\ ~reaping /\ reaping' = TRUE
  /\ IF signal
       THEN signal' = FALSE /\ UNCHANGED <<lists, state, prio, current, fresh, reap>>
       ELSE UNCHANGED prio /\ PsDispatchThreadNoLock(lists, "Blocked")
  /\ UNCHANGED <<quantum, quantumEnd, queueOf, freed>>
-------------------------------------------------------------------------------
Init ==
  /\ lists = [f |-> [n \in Nodes |-> n], b |-> [n \in Nodes |-> n], mask |-> {}]
  /\ state = [t \in Threads |-> IF t = Idle THEN "Running" ELSE IF t = Reaper THEN "Blocked" ELSE "Initialized"]
  /\ prio = [t \in Threads |-> IF t = Idle THEN 0 ELSE Normal]
  /\ quantum = [t \in Threads |-> Quantum]
  /\ current = Idle /\ quantumEnd = FALSE /\ fresh = Ordinary
  /\ queueOf = [t \in Threads |-> None]
  /\ reap = <<>> /\ signal = FALSE /\ freed = {} /\ reaping = TRUE

Next ==
  \/ Yield \/ PsBlockThread \/ Terminate
  \/ \E t \in Ordinary : PsUnblockThread(t)
  \/ \E t \in Adjusted, p \in Priorities : KeSetPriorityThread(t, p)
  \/ \E q \in Queues, waits \in BOOLEAN : KeRemoveQueue(q, waits)
  \/ KeUpdateRunTime \/ KiQuantumEnd \/ PsReapThreads \/ PiReaperThreadMain

Spec == Init /\ [][Next]_vars

\* The loop of the idle thread.
IdleYields == current = Idle /\ Yield

\* The clock ticks, the software interrupt it requests is served, the idle thread
\* yields after every interrupt, and the reaper, however often its quantum ends, gets on
\* when it is dispatched again and again.
FairSpec ==
  /\ Spec /\ WF_vars(KeUpdateRunTime) /\ WF_vars(KiQuantumEnd)
  /\ WF_vars(IdleYields) /\ SF_vars(PsReapThreads) /\ SF_vars(PiReaperThreadMain)
-------------------------------------------------------------------------------
States == {"Initialized", "Ready", "Running", "Blocked", "Terminated"}

\* The types of the scheduler's data and its threads.
TypeOK ==
  /\ lists \in [f : [Nodes -> Nodes], b : [Nodes -> Nodes], mask : SUBSET Priorities]
  /\ state \in [Threads -> States] /\ prio \in [Threads -> Priorities]
  /\ quantum \in [Threads -> 0 .. Quantum] /\ current \in Threads /\ quantumEnd \in BOOLEAN
  /\ fresh \subseteq Ordinary /\ queueOf \in [Threads -> Queues \union {None}]
  /\ reap \in Seq(Ordinary) /\ signal \in BOOLEAN /\ freed \subseteq Ordinary /\ reaping \in BOOLEAN

\* The entries of a list, up to its head or, if the walk does not come back to it,
\* everything it comes by.
Entries(h) ==
  LET limit == Cardinality(Nodes)
      at[n \in 0 .. limit] == IF n = 0 THEN h ELSE lists.f[at[n - 1]]
      ends == {n \in 1 .. limit : at[n] = h}
      last == IF ends = {} THEN limit ELSE (CHOOSE n \in ends : \A m \in ends : n <= m) - 1
  IN {at[n] : n \in 1 .. last}

\* The list of a priority comes back to its head, holds the ready threads of that
\* priority and nothing else, and its bit in the mask says whether there are any.
ListsHoldTheReady ==
  \A p \in Priorities :
    /\ Entries(Ready(p)) = {t \in Threads : state[t] = "Ready" /\ prio[t] = p}
    /\ p \in lists.mask <=> Entries(Ready(p)) # {}
    /\ \A n \in Entries(Ready(p)) : lists.b[lists.f[n]] = n /\ lists.f[lists.b[n]] = n

\* There is a thread to dispatch whenever the current one gives up the processor:
\* PsDispatchThreadNoLock does not come to its last lines.
IdleIsThere == state[current] = "Running" /\ (current # Idle => Candidate(lists) # None)

\* No thread is freed on whose stack the processor is or that may run again.
FreedIsGone == \A t \in freed : t # current /\ state[t] = "Terminated"

\* A switch goes to a thread of the highest priority there is, but for the reaper it
\* wakes.
HighestRuns ==
  [][current' # current =>
       \A t \in Threads \ {Reaper} : state'[t] = "Ready" => prio'[t] <= prio'[current']]_vars

\* While nobody's priority changes, a thread that is ready runs.
ReadyRuns == \A t \in Ordinary : state[t] = "Ready" ~> state[t] # "Ready"

\* A terminated thread is freed, unless one thread runs on alone and is never switched
\* away from.
DeadAreFreed ==
  \A t \in Ordinary : state[t] = "Terminated" ~> (t \in freed \/ \E u \in Ordinary : [](current = u))
================================================================================
