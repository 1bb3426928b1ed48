------------------------------ MODULE PsTermination -----------------------------
(***************************************************************************)
(* The threads of one process: their creation (ps/create.c), the process's    *)
(* list of them, their termination, their reaping, and the termination of the *)
(* process from outside or by one of its own threads (ps/kill.c).             *)
(*                                                                         *)
(* The list is changed under the dispatcher lock when a thread is created and *)
(* under the process lock when one terminates, so that insertion is one step, *)
(* removal is a step for each of its reads and writes, and a walk of the list  *)
(* is one step until it releases the lock.  The process lock is taken to       *)
(* exclude (PsProcessLock).                                                   *)
(***************************************************************************)
EXTENDS Naturals, FiniteSets

CONSTANTS
  Threads, First,  \* the threads, and the one the process starts with
  ListHead,            \* ThreadListHead
  Killers,         \* who call NtTerminateProcess: threads of the process, others
  Outside,         \* a thread of another process
  Remote,          \* threads are created from outside
  Fails,           \* NtCreateThread fails after PsInitializeThread
  Overlap,         \* what a creation may meet: the writes of a "removal" from the list, a "kill"
  Held             \* handles keep every thread object

\* What the constants must satisfy; assumed by the modules that fix them.
TerminationAssumption ==
  /\ First \in Threads /\ ListHead \notin Threads /\ Outside \notin Threads
  /\ Killers \subseteq Threads \union {Outside}
  /\ Remote \in BOOLEAN /\ Fails \in BOOLEAN /\ Overlap \subseteq {"removal", "kill"} /\ Held \in BOOLEAN

VARIABLES
  flink, blink,  \* of the list head and of each thread's ThreadListEntry
  pc,            \* of each thread: see Places
  creator,       \* who creates it
  flags,         \* HasTerminated: TERMINATE_PROC, TERMINATE_APC
  apc,           \* a termination APC is in its queue
  old,           \* OldFlink and OldBlink while it removes itself
  locker,        \* holder of the process lock
  last,          \* it found the list empty
  terminated,    \* Pcb.State = PROCESS_STATE_TERMINATED
  closes,        \* times the handle table was deleted
  walk           \* what each killer does, and to whom
list == <<flink, blink>>
vars == <<list, pc, creator, flags, apc, old, locker, last, terminated, closes, walk>>

None == "None"
Nodes == Threads \union {ListHead}
\* Not created, made but not started, creation failed, running, and the places in
\* PsTerminateCurrentThread up to the thread in the reaper's list and freed.
Leaving == {"Flagged", "Locked", "Read", "Half", "Removed", "Signaled", "Door", "Close", "Out"}
Places == {"None", "Made", "Failed", "Run", "Gone", "Freed"} \union Leaving

Goto(t, where) == pc' = [pc EXCEPT ![t] = where]

\* The nodes a walk along Flink comes to, from the head on.
Nth[n \in 0 .. Cardinality(Nodes)] == IF n = 0 THEN ListHead ELSE flink[Nth[n - 1]]
Length == CHOOSE n \in 1 .. Cardinality(Nodes) + 1 :
            (n <= Cardinality(Nodes) => Nth[n] = ListHead) /\ \A m \in 1 .. n - 1 : Nth[m] # ListHead
Listed == {Nth[n] : n \in 1 .. Length - 1}

IsCreating(c) == \E t \in Threads : pc[t] = "Made" /\ creator[t] = c
Creating == \E c \in Threads \union {Outside} : IsCreating(c)
Removing == \E t \in Threads : pc[t] \in {"Read", "Half"}
Killing  == \E k \in Killers : walk[k].at # "Idle"
-------------------------------------------------------------------------------
(* Creation *)

\* PsInitializeThread.
PsInitializeThread(t, c) ==
  /\ pc[t] = "None"
  /\ Removing => "removal" \in Overlap
  /\ Killing => "kill" \in Overlap
  /\ IF c = Outside THEN Remote
     ELSE pc[c] = "Run" /\ ~IsCreating(c) /\ (c \in Killers => walk[c].at = "Idle")
  /\ flink' = [flink EXCEPT ![t] = ListHead, ![blink[ListHead]] = t]
  /\ blink' = [blink EXCEPT ![t] = blink[ListHead], ![ListHead] = t]
  /\ Goto(t, "Made") /\ creator' = [creator EXCEPT ![t] = c]
  /\ UNCHANGED <<flags, apc, old, locker, last, terminated, closes, walk>>

\* The rest of NtCreateThread, up to PsUnblockThread.
NtCreateThread(t) ==
  /\ pc[t] = "Made" /\ (creator[t] \in Threads => pc[creator[t]] = "Run")
  /\ Goto(t, "Run")
  /\ UNCHANGED <<list, creator, flags, apc, old, locker, last, terminated, closes, walk>>

\* The client id, the context or the TEB fails: the object is dereferenced.
CreationFails(t) ==
  /\ Fails /\ pc[t] = "Made" /\ (creator[t] \in Threads => pc[creator[t]] = "Run")
  /\ Goto(t, "Failed")
  /\ UNCHANGED <<list, creator, flags, apc, old, locker, last, terminated, closes, walk>>
-------------------------------------------------------------------------------
(* A thread terminates *)

\* On its own, unless it is busy creating a thread or terminating others, or in the normal
\* routine of the APC wherever it is.
PsTerminateCurrentThread(t) ==
  /\ pc[t] = "Run"
  /\ IsCreating(t) => apc[t]
  /\ t \in Killers => (walk[t].at \in {"Walk", "Mark", "Insert"} => apc[t])
  /\ apc' = [apc EXCEPT ![t] = FALSE]
  /\ flags' = [flags EXCEPT ![t] = @ \union {"PROC"}]
  /\ Goto(t, "Flagged")
  /\ walk' = IF t \in Killers /\ walk[t].at # "Idle"
               THEN [walk EXCEPT ![t] = [at |-> "Done", whom |-> None]] ELSE walk
  /\ UNCHANGED <<list, creator, old, locker, last, terminated, closes>>

PsLockProcess(t) ==
  /\ pc[t] = "Flagged" /\ locker = None
  /\ locker' = t /\ Goto(t, "Locked")
  /\ UNCHANGED <<list, creator, flags, apc, old, last, terminated, closes, walk>>

\* RemoveEntryList: its reads and its two writes.
ReadNeighbours(t) ==
  /\ pc[t] = "Locked"
  /\ old' = [old EXCEPT ![t] = [flink |-> flink[t], blink |-> blink[t]]]
  /\ Goto(t, "Read")
  /\ UNCHANGED <<list, creator, flags, apc, locker, last, terminated, closes, walk>>

WriteBlink(t) ==
  /\ pc[t] = "Read"
  /\ blink' = [blink EXCEPT ![old[t].flink] = old[t].blink]
  /\ Goto(t, "Half")
  /\ UNCHANGED <<flink, creator, flags, apc, old, locker, last, terminated, closes, walk>>

WriteFlink(t) ==
  /\ pc[t] = "Half"
  /\ flink' = [flink EXCEPT ![old[t].blink] = old[t].flink]
  /\ Goto(t, "Removed")
  /\ UNCHANGED <<blink, creator, flags, apc, old, locker, last, terminated, closes, walk>>

\* Mutated: the thread is the last if no other is marked.
LastIfUnmarked(t) ==
  /\ pc[t] = "Removed"
  /\ last' = [last EXCEPT ![t] = \A u \in Listed : flags[u] # {}]
  /\ locker' = None /\ Goto(t, "Signaled")
  /\ UNCHANGED <<list, creator, flags, apc, old, terminated, closes, walk>>

\* IsListEmpty, the process lock is released, the thread object is signaled.
IsListEmpty(t) ==
  /\ pc[t] = "Removed"
  /\ last' = [last EXCEPT ![t] = flink[ListHead] = ListHead]
  /\ locker' = None /\ Goto(t, "Signaled")
  /\ UNCHANGED <<list, creator, flags, apc, old, terminated, closes, walk>>

\* The last thread looks at the state of the process.
PiTerminateProcess(t) ==
  /\ pc[t] = "Signaled"
  /\ Goto(t, IF last[t] /\ ~terminated THEN "Door" ELSE "Out")
  /\ UNCHANGED <<list, creator, flags, apc, old, locker, last, terminated, closes, walk>>

\* The state is set, the handle table and the id deleted, the process signaled.
CloseProcess(t) ==
  /\ pc[t] = "Door"
  /\ terminated' = TRUE /\ closes' = closes + 1
  /\ Goto(t, "Out")
  /\ UNCHANGED <<list, creator, flags, apc, old, locker, last, walk>>

PsDispatchThread(t) ==
  /\ pc[t] = "Out" /\ Goto(t, "Gone")
  /\ UNCHANGED <<list, creator, flags, apc, old, locker, last, terminated, closes, walk>>

PsReapThreads(t) ==
  /\ pc[t] = "Gone" /\ ~Held /\ Goto(t, "Freed")
  /\ UNCHANGED <<list, creator, flags, apc, old, locker, last, terminated, closes, walk>>
-------------------------------------------------------------------------------
(* A process is terminated *)

\* A thread of the process goes on only while it runs.
CanGoOn(k) == k \in Threads => pc[k] = "Run"

NtTerminateProcess(k) ==
  /\ walk[k].at = "Idle" /\ CanGoOn(k) /\ (k \in Threads => ~IsCreating(k))
  /\ Creating => "kill" \in Overlap
  /\ walk' = [walk EXCEPT ![k].at = "Walk"]
  /\ UNCHANGED <<list, pc, creator, flags, apc, old, locker, last, terminated, closes>>

\* Mutated: only the first thread in the list is looked at.
FirstOnly(k) == {t \in {Nth[1]} \cap Threads : t # k /\ flags[t] = {}}

\* The threads the walk stops at.
Unmarked(k) == {t \in Listed : t # k /\ flags[t] = {}}

\* PiTerminateProcessThreads: from the head to the first that is not terminating.
PiTerminateProcessThreads(k) ==
  /\ walk[k].at = "Walk" /\ CanGoOn(k)
  /\ IF Unmarked(k) = {}
       THEN walk' = [walk EXCEPT ![k] = [at |-> "Done", whom |-> None]]
       ELSE \E n \in 1 .. Length - 1 :
              /\ Nth[n] \in Unmarked(k) /\ \A m \in 1 .. n - 1 : Nth[m] \notin Unmarked(k)
              /\ walk' = [walk EXCEPT ![k] = [at |-> "Mark", whom |-> Nth[n]]]
  /\ UNCHANGED <<list, pc, creator, flags, apc, old, locker, last, terminated, closes>>

\* PsTerminateOtherThread, first under the dispatcher lock, then without.
MarkThread(k) ==
  /\ walk[k].at = "Mark" /\ CanGoOn(k)
  /\ LET t == walk[k].whom
     IN  IF "APC" \in flags[t]
           THEN walk' = [walk EXCEPT ![k] = [at |-> "Walk", whom |-> None]] /\ UNCHANGED flags
           ELSE /\ flags' = [flags EXCEPT ![t] = @ \union {"APC"}]
                /\ walk' = [walk EXCEPT ![k].at = "Insert"]
  /\ UNCHANGED <<list, pc, creator, apc, old, locker, last, terminated, closes>>

PsTerminateOtherThread(k) ==
  /\ walk[k].at = "Insert" /\ CanGoOn(k)
  /\ apc' = [apc EXCEPT ![walk[k].whom] = TRUE]
  /\ walk' = [walk EXCEPT ![k] = [at |-> "Walk", whom |-> None]]
  /\ UNCHANGED <<list, pc, creator, flags, old, locker, last, terminated, closes>>

Init ==
  /\ flink = [n \in Nodes |-> IF n = ListHead THEN First ELSE ListHead]
  /\ blink = [n \in Nodes |-> IF n = ListHead THEN First ELSE ListHead]
  /\ pc = [t \in Threads |-> IF t = First THEN "Run" ELSE "None"]
  /\ creator = [t \in Threads |-> None] /\ flags = [t \in Threads |-> {}]
  /\ apc = [t \in Threads |-> FALSE]
  /\ old = [t \in Threads |-> [flink |-> ListHead, blink |-> ListHead]]
  /\ locker = None /\ last = [t \in Threads |-> FALSE]
  /\ terminated = FALSE /\ closes = 0
  /\ walk = [k \in Killers |-> [at |-> "Idle", whom |-> None]]

Removal(t) ==
  PsLockProcess(t) \/ ReadNeighbours(t) \/ WriteBlink(t) \/ WriteFlink(t) \/ IsListEmpty(t)

Exiting(t) == Removal(t) \/ PiTerminateProcess(t) \/ CloseProcess(t) \/ PsDispatchThread(t)

Kill(k) == PiTerminateProcessThreads(k) \/ MarkThread(k) \/ PsTerminateOtherThread(k)

Next ==
  \/ \E t \in Threads :
       \/ \E c \in Threads \union {Outside} : PsInitializeThread(t, c)
       \/ NtCreateThread(t) \/ CreationFails(t)
       \/ PsTerminateCurrentThread(t) \/ Exiting(t) \/ PsReapThreads(t)
  \/ \E k \in Killers : NtTerminateProcess(k) \/ Kill(k)

Spec == Init /\ [][Next]_vars

\* A thread takes its APC, and a killer terminates itself after the other threads.
MustTerminate(t) ==
  (apc[t] \/ (t \in Killers /\ walk[t].at = "Done")) /\ PsTerminateCurrentThread(t)

\* Threads that run are scheduled.
FairSpec ==
  /\ Spec
  /\ \A t \in Threads :
       WF_vars(Exiting(t)) /\ WF_vars(NtCreateThread(t)) /\ WF_vars(MustTerminate(t))
  /\ \A k \in Killers : WF_vars(Kill(k))
-------------------------------------------------------------------------------
\* Types of the fields.
TypeOK ==
  /\ flink \in [Nodes -> Nodes] /\ blink \in [Nodes -> Nodes]
  /\ pc \in [Threads -> Places] /\ creator \in [Threads -> Threads \union {Outside, None}]
  /\ flags \in [Threads -> SUBSET {"PROC", "APC"}] /\ apc \in [Threads -> BOOLEAN]
  /\ old \in [Threads -> [flink : Nodes, blink : Nodes]]
  /\ locker \in Threads \union {None} /\ last \in [Threads -> BOOLEAN]
  /\ terminated \in BOOLEAN /\ closes \in Nat
  /\ walk \in [Killers -> [at : {"Idle", "Walk", "Mark", "Insert", "Done"},
                           whom : Threads \union {None}]]

\* Although it is changed under two locks, the list holds exactly the threads that were created and have not removed
\* themselves, whenever no thread is in the middle of removing itself.
ListIsThreads ==
  (\A t \in Threads : pc[t] \notin {"Read", "Half"}) =>
    Listed = {t \in Threads : pc[t] \in {"Made", "Run", "Flagged", "Locked"}}

\* "The last thread shall close the door on exit": when every thread has come to its
\* end the process is terminated, and while a thread runs or starts it is not.
LastClosesDoor ==
  /\ ((\A t \in Threads : pc[t] \in {"None", "Failed", "Gone", "Freed"}) => terminated)
  /\ (terminated => \A t \in Threads : pc[t] \notin {"Made", "Run"})

\* The handle table of a process is deleted once, although the test of the process's
\* state and its change are two steps.
ClosedOnce == closes <= 1

\* "Terminates the execution of a process": when NtTerminateProcess is through, every
\* other thread that can still run has been told to terminate.
KillReachesAll ==
  \A k \in Killers : walk[k].at = "Done" /\ CanGoOn(k) =>
    \A t \in Threads : t # k /\ pc[t] \in {"Made", "Run"} => "APC" \in flags[t]

\* "This function must be called with PiThreadLock held": a thread that is told to
\* terminate has not been freed meanwhile.
VictimExists ==
  \A k \in Killers : walk[k].at \in {"Mark", "Insert"} => pc[walk[k].whom] # "Freed"

\* "Terminates the execution of a process": a process that NtTerminateProcess was
\* called for ends, whatever becomes of the caller.
KilledEnds == (\E k \in Killers : walk[k].at # "Idle") ~> terminated
===============================================================================
