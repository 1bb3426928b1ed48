------------------------------- MODULE KeApcState -------------------------------
(***************************************************************************)
(* Attaching a thread to the address spaces of other processes                *)
(* (ntoskrnl/ke/process.c) and what it does to the thread's APC lists, which  *)
(* KiMoveApcState (ke/apc.c) moves between APC states link by link.           *)
(*                                                                         *)
(* A list head is named by the APC state it is in; a state has one list here, *)
(* the code treats the lists for kernel and user mode alike.  Callers nest    *)
(* their attachments, call KeAttachProcess when they are not attached, and    *)
(* for another process than the current one, as every caller in the tree does. *)
(***************************************************************************)
EXTENDS Naturals, Sequences

CONSTANTS
  Processes, Own,  \* the processes, the one the thread belongs to
  Queueable,       \* the APCs
  Depth,           \* bound: attachments of the thread at a time
  Quiet            \* no APC is queued when the states are moved or to a moved one

\* The fields of the KTHREAD, and the APC states that callers of
\* KeStackAttachProcess bring along, one for each attachment.
ApcState == <<"Thread", 0>>
SavedApcState == <<"Thread", 1>>
Stack(i) == <<"Stack", i>>
States == {ApcState, SavedApcState} \union {Stack(i) : i \in 1 .. Depth}
Nodes == States \union Queueable

VARIABLES
  next, prev,     \* Flink and Blink of list heads and APCs
  process,        \* Process of each APC state
  pointer,        \* ApcStatePointer
  environment,    \* ApcStateIndex
  insertedTo,     \* the APCs that are Inserted: the environment each was queued to
  directory,      \* the process whose page directory is loaded
  lockHeld,       \* the dispatcher lock is held when a routine has returned
  callers         \* the attachments begun and not ended, innermost last

links == <<next, prev>>
attachVars == <<links, process, pointer, environment, insertedTo, directory, lockHeld, callers>>

NoProcess == "None"
Same == "Same"    \* (PKPROCESS)1
Environments == {"Original", "Attached"}

\* What the constants must satisfy; assumed by the modules that fix them.
ApcStateAssumption ==
  /\ Own \in Processes /\ NoProcess \notin Processes /\ Same \notin Processes
  /\ Queueable \cap States = {} /\ Depth \in Nat \ {0} /\ Quiet \in BOOLEAN

InitializeListHead(l, h) == [l EXCEPT !.next[h] = h, !.prev[h] = h]

InsertTailList(l, h, a) ==
  [next |-> [l.next EXCEPT ![a] = h, ![l.prev[h]] = a],
   prev |-> [l.prev EXCEPT ![a] = l.prev[h], ![h] = a]]

RemoveEntryList(l, a) ==
  [next |-> [l.next EXCEPT ![l.prev[a]] = l.next[a]],
   prev |-> [l.prev EXCEPT ![l.next[a]] = l.prev[a]]]

\* Copies the list of original to copy and links its entries to copy.
RepairList(l, original, copy) ==
  IF l.next[original] = original
    THEN InitializeListHead(l, copy)
    ELSE [next |-> [l.next EXCEPT ![copy] = l.next[original], ![l.prev[original]] = copy],
          prev |-> [l.prev EXCEPT ![copy] = l.prev[original], ![l.next[original]] = copy]]

Links == [next |-> next, prev |-> prev]
SetLinks(l) == next' = l.next /\ prev' = l.prev

\* The copy has the links of the old state; the lists of the old one are repaired.
KiMoveApcState(old, new) ==
  RepairList([next |-> [next EXCEPT ![new] = next[old]],
              prev |-> [prev EXCEPT ![new] = prev[old]]], new, old)

\* Mutated: the lists of the saved state begin anew.
SavedAnew(saved) == InitializeListHead(KiMoveApcState(ApcState, saved), saved)

\* The lists of the current state begin anew.
CurrentAnew(saved) == InitializeListHead(KiMoveApcState(ApcState, saved), ApcState)

Moves == Quiet => DOMAIN insertedTo = {}
-------------------------------------------------------------------------------
\* flags: the states' processes with what is to be told to the caller.
KiAttachProcess(p, saved, flags) ==
  /\ Moves
  /\ SetLinks(CurrentAnew(saved))
  /\ process' = [flags EXCEPT ![saved] = process[ApcState], ![ApcState] = p]
  /\ IF saved = SavedApcState
       THEN /\ pointer' = [Original |-> SavedApcState, Attached |-> ApcState]
            /\ environment' = "Attached"
       ELSE UNCHANGED <<pointer, environment>>
  /\ directory' = p
  /\ UNCHANGED <<insertedTo, lockHeld>>

KeAttachProcess(p) ==
  /\ callers = << >> /\ p # process[ApcState]
  /\ KiAttachProcess(p, SavedApcState, process)
  /\ callers' = << [to |-> p, by |-> "KeAttachProcess"] >>

\* The APC state of the caller tells KeUnstackDetachProcess what to restore.
KeStackAttachProcess(p) ==
  LET mine == Len(callers) + 1
  IN  /\ mine <= Depth
      /\ callers' = Append(callers, [to |-> p, by |-> "KeStackAttachProcess"])
      /\ IF p = process[ApcState]
           THEN /\ process' = [process EXCEPT ![Stack(mine)] = Same]
                /\ lockHeld' = TRUE
                /\ UNCHANGED <<links, pointer, environment, insertedTo, directory>>
           ELSE IF environment # "Original"
             THEN KiAttachProcess(p, Stack(mine), process)
             ELSE KiAttachProcess(p, SavedApcState, [process EXCEPT ![Stack(mine)] = NoProcess])

RestoreSaved ==
  /\ Moves
  /\ SetLinks(KiMoveApcState(SavedApcState, ApcState))
  /\ process' = [process EXCEPT ![ApcState] = process[SavedApcState],
                               ![SavedApcState] = NoProcess]
  /\ environment' = "Original"
  /\ pointer' = [Original |-> ApcState, Attached |-> SavedApcState]

Innermost == callers[Len(callers)]
Leave == callers' = SubSeq(callers, 1, Len(callers) - 1)

KeDetachProcess ==
  /\ callers # << >> /\ Innermost.by = "KeAttachProcess" /\ Leave
  /\ RestoreSaved
  /\ directory' = process'[ApcState]
  /\ UNCHANGED <<insertedTo, lockHeld>>

KeUnstackDetachProcess ==
  /\ callers # << >> /\ Innermost.by = "KeStackAttachProcess" /\ Leave
  /\ LET mine == Len(callers)
     IN  CASE process[Stack(mine)] = Same ->
                UNCHANGED <<links, process, pointer, environment, directory>>
           [] process[Stack(mine)] = NoProcess ->
                RestoreSaved /\ directory' = process'[ApcState]
           [] OTHER ->
                /\ Moves
                /\ SetLinks(KiMoveApcState(Stack(mine), ApcState))
                /\ process' = [process EXCEPT ![ApcState] = process[Stack(mine)]]
                /\ directory' = process'[ApcState]
                /\ UNCHANGED <<pointer, environment>>
  /\ UNCHANGED <<insertedTo, lockHeld>>
-------------------------------------------------------------------------------
\* KeInsertQueueApc of a normal APC; the other environment's lists are in use only
\* while the thread is attached.
KeInsertQueueApc(a, env) ==
  /\ a \notin DOMAIN insertedTo
  /\ env = environment \/ (environment = "Attached" /\ ~Quiet)
  /\ SetLinks(InsertTailList(Links, pointer[env], a))
  /\ insertedTo' = [b \in DOMAIN insertedTo \union {a} |-> IF b = a THEN env ELSE insertedTo[b]]
  /\ UNCHANGED <<process, pointer, environment, directory, lockHeld, callers>>

\* KiDeliverApc takes the first entry of the current state's list.
DeliverFirst ==
  /\ next[ApcState] \in DOMAIN insertedTo
  /\ LET a == next[ApcState]
     IN  /\ SetLinks(RemoveEntryList(Links, a))
         /\ insertedTo' = [b \in DOMAIN insertedTo \ {a} |-> insertedTo[b]]
  /\ UNCHANGED <<process, pointer, environment, directory, lockHeld, callers>>

AttachInit ==
  /\ next = [n \in Nodes |-> n] /\ prev = [n \in Nodes |-> n]
  /\ process = [s \in States |-> IF s = ApcState THEN Own ELSE NoProcess]
  /\ pointer = [Original |-> ApcState, Attached |-> SavedApcState]
  /\ environment = "Original"
  /\ insertedTo = << >>
  /\ directory = Own /\ lockHeld = FALSE /\ callers = << >>

AttachNext ==
  \/ \E p \in Processes : KeAttachProcess(p) \/ KeStackAttachProcess(p)
  \/ KeDetachProcess \/ KeUnstackDetachProcess
  \/ \E a \in Queueable, env \in Environments : KeInsertQueueApc(a, env)
  \/ DeliverFirst

AttachSpec == AttachInit /\ [][AttachNext]_attachVars
-------------------------------------------------------------------------------
\* Types of the fields.
AttachTypeOK ==
  /\ next \in [Nodes -> Nodes] /\ prev \in [Nodes -> Nodes]
  /\ process \in [States -> Processes \union {NoProcess, Same}]
  /\ process[ApcState] \in Processes
  /\ pointer \in [Environments -> States] /\ environment \in Environments
  /\ DOMAIN insertedTo \subseteq Queueable /\ \A a \in DOMAIN insertedTo : insertedTo[a] \in Environments
  /\ directory \in Processes /\ lockHeld \in BOOLEAN
  /\ Len(callers) <= Depth

\* Between attaching and detaching the thread runs in the process it attached to,
\* and back in the process of the next outer attachment afterwards, whichever of
\* the three places the state was saved in.
RunsWhereAttached ==
  LET to == IF callers = << >> THEN Own ELSE Innermost.to
  IN  directory = to /\ process[ApcState] = to

\* The pointer for the original environment, through which others queue APCs, is
\* to the state that belongs to the thread's own process.
OriginalIsOwn == process[pointer["Original"]] = Own

\* The current list is a ring of its head and the APCs queued to the environment:
\* each entry's links agree, and it is entered and left through the head only.
CurrentListIntact ==
  LET ring == {ApcState} \union {a \in DOMAIN insertedTo : insertedTo[a] = environment}
  IN  \A n \in ring : next[n] \in ring /\ prev[next[n]] = n

\* A thread runs in the process it attached to last, and the current APC list is a
\* ring, wherever attachments have moved it.
AttachmentsNest == AttachTypeOK /\ RunsWhereAttached /\ OriginalIsOwn /\ CurrentListIntact

\* "Return to old IRQL": no routine returns with the dispatcher lock held.
LockReleased == ~lockHeld
===============================================================================
