---------------------------- MODULE KeApcStateProofs ----------------------------
(***************************************************************************)
(* Proofs that AttachmentsNest of KeApcState holds, for any processes, APCs   *)
(* and depth of attachments, where no APC is queued when the states are moved *)
(* or to a moved one; and that the thread runs where it attached to in any    *)
(* case.                                                                     *)
(*                                                                         *)
(* What a detaching routine restores depends on where the attaching one put   *)
(* the state it found, and nothing in a state tells that but what the callers *)
(* brought along.  AttachmentsTold relates it to the attachments: up to the   *)
(* one that left the thread's own process (Opens) they stay in it, those      *)
(* after it hold the process of the next outer one.                           *)
(***************************************************************************)
EXTENDS KeApcState, SequenceTheorems, TLAPS

Callers == [to : Processes, by : {"KeAttachProcess", "KeStackAttachProcess"}]
Current == IF callers = << >> THEN Own ELSE Innermost.to

\* The attachment i is to the process the thread was in already, its own one; it is the first
\* to another one; it was begun while the thread was attached to another one.
Stays(i) ==
  callers[i].by = "KeStackAttachProcess" /\ callers[i].to = Own /\ process[Stack(i)] = Same
Opens(i) ==
  \/ callers[i].by = "KeAttachProcess"
  \/ callers[i].by = "KeStackAttachProcess" /\ process[Stack(i)] = NoProcess
Nested(i) ==
  /\ callers[i].by = "KeStackAttachProcess"
  /\ \/ process[Stack(i)] = Same /\ callers[i].to = callers[i - 1].to
     \/ process[Stack(i)] = callers[i - 1].to

OpenedAt(k) ==
  /\ Opens(k)
  /\ \A i \in DOMAIN callers : (i < k => Stays(i)) /\ (i > k => Nested(i))

AttachmentsTold ==
  /\ callers \in Seq(Callers)
  /\ directory = Current /\ process[ApcState] = Current
  /\ \/ /\ environment = "Original" /\ pointer["Original"] = ApcState
        /\ \A i \in DOMAIN callers : Stays(i)
     \/ /\ environment = "Attached" /\ pointer["Original"] = SavedApcState
        /\ pointer["Attached"] = ApcState /\ process[SavedApcState] = Own
        /\ \E k \in DOMAIN callers : OpenedAt(k)

\* The states a detaching routine will restore; they were moved with an empty list, which is
\* left with links to the current head.
Kept == (IF environment = "Attached" THEN {SavedApcState} ELSE {}) \union
        {Stack(i) : i \in {j \in DOMAIN callers : /\ callers[j].by = "KeStackAttachProcess"
                                                  /\ process[Stack(j)] \in Processes}}

Ring == {ApcState} \union DOMAIN insertedTo

LinksSound ==
  /\ \A a \in DOMAIN insertedTo : insertedTo[a] = environment
  /\ \A n \in Ring : /\ next[n] \in Ring /\ prev[next[n]] = n
                     /\ prev[n] \in Ring /\ next[prev[n]] = n
  /\ \A s \in Kept : next[s] = ApcState /\ prev[s] = ApcState

NInv == AttachTypeOK /\ AttachmentsTold
IInv == NInv /\ LinksSound
-------------------------------------------------------------------------------
(* The states and the operations on links. *)

LEMMA StatesDiffer ==
  /\ ApcState \in States /\ SavedApcState \in States /\ ApcState # SavedApcState
  /\ \A i \in 1 .. Depth : Stack(i) \in States
  /\ \A i : Stack(i) # ApcState /\ Stack(i) # SavedApcState
  /\ \A i, j : Stack(i) = Stack(j) => i = j
  /\ States \subseteq Nodes /\ Queueable \subseteq Nodes
BY DEF ApcState, SavedApcState, Stack, States, Nodes

LinkTypes == [next : [Nodes -> Nodes], prev : [Nodes -> Nodes]]

LEMMA InitializeTypes ==
  ASSUME NEW l \in LinkTypes, NEW h \in Nodes
  PROVE  /\ InitializeListHead(l, h) \in LinkTypes
         /\ InitializeListHead(l, h) = [next |-> [l.next EXCEPT ![h] = h],
                                        prev |-> [l.prev EXCEPT ![h] = h]]
<1> DEFINE new == InitializeListHead(l, h)
<1>1. new.next = [l.next EXCEPT ![h] = h] /\ new.prev = [l.prev EXCEPT ![h] = h]
  BY DEF InitializeListHead, LinkTypes
<1>2. new \in LinkTypes
  BY DEF InitializeListHead, LinkTypes
<1> HIDE DEF new
<1>3. new = [next |-> new.next, prev |-> new.prev]
  BY <1>2 DEF LinkTypes
<1> QED
  BY <1>1, <1>2, <1>3 DEF new

LEMMA RepairTypes ==
  ASSUME NEW l \in LinkTypes, NEW original \in Nodes, NEW copy \in Nodes
  PROVE  RepairList(l, original, copy) \in LinkTypes
<1>1. /\ l.next \in [Nodes -> Nodes] /\ l.prev \in [Nodes -> Nodes]
      /\ l.next[original] \in Nodes /\ l.prev[original] \in Nodes
  BY DEF LinkTypes
<1> QED
  BY <1>1, InitializeTypes DEF RepairList, LinkTypes

LEMMA MoveTypes ==
  ASSUME next \in [Nodes -> Nodes], prev \in [Nodes -> Nodes],
         NEW old \in States, NEW new \in States
  PROVE  KiMoveApcState(old, new) \in LinkTypes
<1>1. old \in Nodes /\ new \in Nodes
  BY StatesDiffer
<1>2. [next |-> [next EXCEPT ![new] = next[old]],
       prev |-> [prev EXCEPT ![new] = prev[old]]] \in LinkTypes
  BY <1>1 DEF LinkTypes
<1> QED
  BY <1>1, <1>2, RepairTypes DEF KiMoveApcState

LEMMA AnewTypes ==
  ASSUME next \in [Nodes -> Nodes], prev \in [Nodes -> Nodes], NEW saved \in States
  PROVE  CurrentAnew(saved) \in LinkTypes
BY StatesDiffer, MoveTypes, InitializeTypes DEF CurrentAnew

\* A state whose list is empty is put away: its entry in the list's links stays.
LEMMA SavingLinks ==
  ASSUME next \in [Nodes -> Nodes], prev \in [Nodes -> Nodes],
         next[ApcState] = ApcState, prev[ApcState] = ApcState,
         NEW saved \in States, saved # ApcState
  PROVE  LET l == CurrentAnew(saved)
         IN  /\ \A n \in Nodes : n # saved => l.next[n] = next[n] /\ l.prev[n] = prev[n]
             /\ l.next[saved] = ApcState /\ l.prev[saved] = ApcState
<1> DEFINE copied == [next |-> [next EXCEPT ![saved] = ApcState],
                      prev |-> [prev EXCEPT ![saved] = ApcState]]
<1>1. ApcState \in Nodes /\ saved \in Nodes
  BY StatesDiffer
<1>2. /\ copied.next[saved] = ApcState /\ copied.prev[saved] = ApcState
      /\ copied.next[ApcState] = ApcState /\ copied.prev[ApcState] = ApcState
      /\ \A n \in Nodes : n # saved => copied.next[n] = next[n] /\ copied.prev[n] = prev[n]
      /\ copied.next \in [Nodes -> Nodes] /\ copied.prev \in [Nodes -> Nodes]
  BY <1>1
<1>3. KiMoveApcState(ApcState, saved) = RepairList(copied, saved, ApcState)
  BY DEF KiMoveApcState
<1> HIDE DEF copied
<1> DEFINE repaired == RepairList(copied, saved, ApcState)
<1>4. repaired = [next |-> [copied.next EXCEPT ![ApcState] = ApcState, ![ApcState] = ApcState],
                  prev |-> [copied.prev EXCEPT ![ApcState] = ApcState, ![ApcState] = ApcState]]
  BY <1>2 DEF RepairList
<1>5. /\ \A n \in Nodes : repaired.next[n] = copied.next[n] /\ repaired.prev[n] = copied.prev[n]
      /\ repaired \in LinkTypes
  BY <1>1, <1>2, <1>4 DEF LinkTypes
<1> HIDE DEF repaired
<1>6. CurrentAnew(saved) = [next |-> [repaired.next EXCEPT ![ApcState] = ApcState],
                            prev |-> [repaired.prev EXCEPT ![ApcState] = ApcState]]
  BY <1>1, <1>3, <1>5, InitializeTypes DEF CurrentAnew, repaired
<1> QED
  BY <1>1, <1>2, <1>5, <1>6 DEF LinkTypes

\* It is taken back: the current list is empty again.
LEMMA RestoringLinks ==
  ASSUME next \in [Nodes -> Nodes], prev \in [Nodes -> Nodes],
         NEW saved \in States, saved # ApcState, next[saved] = ApcState, prev[saved] = ApcState
  PROVE  LET l == KiMoveApcState(saved, ApcState)
         IN  /\ \A n \in Nodes \ {saved, ApcState} : l.next[n] = next[n] /\ l.prev[n] = prev[n]
             /\ l.next[ApcState] = ApcState /\ l.prev[ApcState] = ApcState
<1> DEFINE copied == [next |-> [next EXCEPT ![ApcState] = ApcState],
                      prev |-> [prev EXCEPT ![ApcState] = ApcState]]
<1>1. ApcState \in Nodes /\ saved \in Nodes
  BY StatesDiffer
<1>2. /\ copied.next[ApcState] = ApcState /\ copied.prev[ApcState] = ApcState
      /\ \A n \in Nodes \ {ApcState} : copied.next[n] = next[n] /\ copied.prev[n] = prev[n]
      /\ copied.next \in [Nodes -> Nodes] /\ copied.prev \in [Nodes -> Nodes]
      /\ copied \in LinkTypes
  BY <1>1 DEF LinkTypes
<1>3. KiMoveApcState(saved, ApcState) = RepairList(copied, ApcState, saved)
  BY DEF KiMoveApcState
<1> HIDE DEF copied
<1>4. KiMoveApcState(saved, ApcState) = [next |-> [copied.next EXCEPT ![saved] = saved],
                                         prev |-> [copied.prev EXCEPT ![saved] = saved]]
  BY <1>1, <1>2, <1>3, InitializeTypes DEF RepairList
<1> QED
  BY <1>1, <1>2, <1>4
-------------------------------------------------------------------------------
(* The types of the fields. *)

LEMMA SetTypes ==
  ASSUME NEW l \in LinkTypes, SetLinks(l)
  PROVE  next' \in [Nodes -> Nodes] /\ prev' \in [Nodes -> Nodes]
BY DEF SetLinks, LinkTypes

LEMMA InsertTypes ==
  ASSUME NEW l \in LinkTypes, NEW h \in Nodes, NEW a \in Nodes
  PROVE  InsertTailList(l, h, a) \in LinkTypes
BY DEF InsertTailList, LinkTypes

LEMMA RemoveTypes ==
  ASSUME NEW l \in LinkTypes, NEW a \in Nodes
  PROVE  RemoveEntryList(l, a) \in LinkTypes
BY DEF RemoveEntryList, LinkTypes

LEMMA LinksType ==
  ASSUME AttachTypeOK
  PROVE  Links \in LinkTypes
BY DEF Links, LinkTypes, AttachTypeOK

\* The links of every step but those that queue and deliver an APC.
LEMMA MovedTypes ==
  ASSUME AttachTypeOK, UNCHANGED links \/ (\E saved \in States : SetLinks(CurrentAnew(saved)))
                         \/ (\E saved \in States : SetLinks(KiMoveApcState(saved, ApcState)))
  PROVE  next' \in [Nodes -> Nodes] /\ prev' \in [Nodes -> Nodes]
<1>1. next \in [Nodes -> Nodes] /\ prev \in [Nodes -> Nodes]
  BY DEF AttachTypeOK
<1>2. CASE UNCHANGED links
  BY <1>1, <1>2 DEF links
<1>3. ASSUME NEW saved \in States, SetLinks(CurrentAnew(saved))
      PROVE  next' \in [Nodes -> Nodes] /\ prev' \in [Nodes -> Nodes]
  BY <1>1, <1>3, AnewTypes, SetTypes
<1>4. ASSUME NEW saved \in States, SetLinks(KiMoveApcState(saved, ApcState))
      PROVE  next' \in [Nodes -> Nodes] /\ prev' \in [Nodes -> Nodes]
  BY <1>1, <1>4, StatesDiffer, MoveTypes, SetTypes
<1> QED
  BY <1>2, <1>3, <1>4

\* The innermost attachment, and the others when it ends.
LEMMA InnermostIsLast ==
  ASSUME callers \in Seq(Callers), callers # << >>
  PROVE  Len(callers) \in Nat \ {0} /\ DOMAIN callers = 1 .. Len(callers) /\ Innermost \in Callers
BY EmptySeq DEF Innermost

LEMMA LeaveDrops ==
  ASSUME callers \in Seq(Callers), callers # << >>, Leave
  PROVE  /\ callers' \in Seq(Callers) /\ Len(callers') = Len(callers) - 1
         /\ DOMAIN callers' = 1 .. Len(callers) - 1
         /\ \A i \in 1 .. Len(callers) - 1 : callers'[i] = callers[i]
         /\ callers' = << >> <=> Len(callers) = 1
<1>1. Len(callers) \in Nat \ {0} /\ DOMAIN callers = 1 .. Len(callers)
      /\ \A i \in 1 .. Len(callers) : callers[i] \in Callers
  BY InnermostIsLast
<1>2. /\ callers' \in Seq(Callers) /\ Len(callers') = Len(callers) - 1
      /\ \A i \in 1 .. Len(callers) - 1 : callers'[i] = callers[i]
  BY <1>1, SubSeqProperties DEF Leave
<1>3. DOMAIN callers' = 1 .. Len(callers) - 1
  BY <1>1, <1>2
<1>4. Len(callers) \in Nat /\ Len(callers') = Len(callers) - 1
  BY <1>1, <1>2
<1>5. callers' = << >> <=> Len(callers') = 0
  BY <1>2, EmptySeq
<1> QED
  BY <1>2, <1>3, <1>4, <1>5

LEMMA AnotherAdds ==
  ASSUME callers \in Seq(Callers), NEW c \in Callers, callers' = Append(callers, c)
  PROVE  /\ callers' \in Seq(Callers) /\ Len(callers) \in Nat /\ Len(callers') = Len(callers) + 1
         /\ callers' # << >>
         /\ DOMAIN callers = 1 .. Len(callers) /\ DOMAIN callers' = 1 .. Len(callers) + 1
         /\ \A i \in DOMAIN callers : callers'[i] = callers[i]
         /\ callers'[Len(callers) + 1] = c
<1>1. Len(callers) \in Nat /\ DOMAIN callers = 1 .. Len(callers)
  OBVIOUS
<1>2. /\ callers' \in Seq(Callers) /\ Len(callers') = Len(callers) + 1
      /\ \A i \in 1 .. Len(callers) : callers'[i] = callers[i]
      /\ callers'[Len(callers) + 1] = c
  BY AppendProperties
<1>3. DOMAIN callers' = 1 .. Len(callers) + 1
  BY <1>1, <1>2
<1>4. callers' # << >>
  BY <1>1, <1>2, EmptySeq
<1> QED
  BY <1>1, <1>2, <1>3, <1>4

LEMMA TypeStep ==
  ASSUME ApcStateAssumption, NInv, [AttachNext]_attachVars
  PROVE  AttachTypeOK'
<1>1. /\ next \in [Nodes -> Nodes] /\ prev \in [Nodes -> Nodes]
      /\ process \in [States -> Processes \union {NoProcess, Same}]
      /\ process[ApcState] \in Processes
      /\ pointer \in [Environments -> States] /\ environment \in Environments
      /\ directory \in Processes /\ lockHeld \in BOOLEAN
      /\ callers \in Seq(Callers) /\ Len(callers) \in Nat /\ Len(callers) <= Depth
  BY DEF NInv, AttachTypeOK, AttachmentsTold
<1> DEFINE Fields == /\ process' \in [States -> Processes \union {NoProcess, Same}]
                     /\ process'[ApcState] \in Processes
                     /\ pointer' \in [Environments -> States] /\ environment' \in Environments
                     /\ directory' \in Processes /\ lockHeld' \in BOOLEAN
           LinkFields == next' \in [Nodes -> Nodes] /\ prev' \in [Nodes -> Nodes]
           Listed == DOMAIN insertedTo' \subseteq Queueable
                     /\ \A a \in DOMAIN insertedTo' : insertedTo'[a] \in Environments
<1>2. [Original |-> SavedApcState, Attached |-> ApcState] \in [Environments -> States]
      /\ [Original |-> ApcState, Attached |-> SavedApcState] \in [Environments -> States]
  BY StatesDiffer DEF Environments
<1>3. ASSUME NEW p \in Processes, NEW saved \in States, saved # ApcState,
             NEW flags \in [States -> Processes \union {NoProcess, Same}],
             KiAttachProcess(p, saved, flags)
      PROVE  Fields /\ LinkFields
  <2>1. Fields
    BY <1>1, <1>2, <1>3, StatesDiffer DEF KiAttachProcess, Environments
  <2>2. LinkFields
    BY <1>3, MovedTypes DEF KiAttachProcess, NInv
  <2> QED
    BY <2>1, <2>2
<1>4. CASE \E p \in Processes : KeAttachProcess(p)
  <2>1. PICK p \in Processes : KeAttachProcess(p)
    BY <1>4
  <2>2. Fields /\ LinkFields
    BY <1>1, <1>3, <2>1, StatesDiffer DEF KeAttachProcess
  <2>3. Len(callers') = 1 /\ insertedTo' = insertedTo
    BY <2>1 DEF KeAttachProcess, KiAttachProcess
  <2> QED
    BY <2>2, <2>3 DEF AttachTypeOK, NInv, ApcStateAssumption
<1>5. CASE \E p \in Processes : KeStackAttachProcess(p)
  <2>1. PICK p \in Processes : KeStackAttachProcess(p)
    BY <1>5
  <2> DEFINE mine == Len(callers) + 1
             flags == [process EXCEPT ![Stack(mine)] = NoProcess]
  <2>2. mine \in 1 .. Depth /\ Stack(mine) \in States /\ Stack(mine) # ApcState
    BY <1>1, <2>1, StatesDiffer DEF KeStackAttachProcess, ApcStateAssumption
  <2>3. flags \in [States -> Processes \union {NoProcess, Same}]
    BY <1>1
  <2>4. Fields /\ LinkFields /\ insertedTo' = insertedTo
    <3>1. CASE p = process[ApcState]
      <4>1. LinkFields
        BY <2>1, <3>1, MovedTypes DEF KeStackAttachProcess, NInv
      <4>2. /\ process' = [process EXCEPT ![Stack(mine)] = Same] /\ lockHeld' = TRUE
            /\ UNCHANGED <<pointer, environment, insertedTo, directory>>
        BY <2>1, <3>1 DEF KeStackAttachProcess
      <4>3. Fields
        BY <1>1, <2>2, <4>2, StatesDiffer
      <4> QED
        BY <4>1, <4>2, <4>3
    <3>2. CASE p # process[ApcState] /\ environment # "Original"
      BY <1>1, <1>3, <2>1, <2>2, <3>2 DEF KeStackAttachProcess, KiAttachProcess
    <3>3. CASE p # process[ApcState] /\ environment = "Original"
      <4>1. KiAttachProcess(p, SavedApcState, flags)
        BY <2>1, <3>3 DEF KeStackAttachProcess
      <4> HIDE DEF flags
      <4>2. Fields /\ LinkFields
        BY <1>3, <2>3, <4>1, StatesDiffer
      <4> QED
        BY <4>1, <4>2 DEF KiAttachProcess
    <3> QED
      BY <3>1, <3>2, <3>3
  <2>5. Len(callers') <= Depth
    <3>1. callers' = Append(callers, [to |-> p, by |-> "KeStackAttachProcess"])
      BY <2>1 DEF KeStackAttachProcess
    <3>2. Len(callers') = Len(callers) + 1
      BY <1>1, <3>1, AnotherAdds DEF Callers
    <3> QED
      BY <2>2, <3>2
  <2> QED
    BY <2>4, <2>5 DEF AttachTypeOK, NInv
<1>6. ASSUME callers # << >>, Leave PROVE Len(callers') <= Depth
  <2>1. Len(callers') = Len(callers) - 1
    BY <1>1, <1>6, LeaveDrops
  <2> QED
    BY <1>1, <2>1 DEF ApcStateAssumption
<1>7. ASSUME RestoreSaved, process[SavedApcState] \in Processes, directory' = process'[ApcState],
             UNCHANGED lockHeld
      PROVE  Fields /\ LinkFields
  <2>1. LinkFields
    BY <1>7, MovedTypes, StatesDiffer DEF RestoreSaved, NInv
  <2>2. Fields
    BY <1>1, <1>2, <1>7, StatesDiffer DEF RestoreSaved, Environments
  <2> QED
    BY <2>1, <2>2
<1>8. environment = "Attached" => process[SavedApcState] \in Processes
  BY DEF NInv, AttachmentsTold, ApcStateAssumption
<1>9. CASE KeDetachProcess
  <2>1. environment = "Attached"
    BY <1>1, <1>9, InnermostIsLast DEF KeDetachProcess, NInv, AttachmentsTold, Stays, Innermost
  <2>2. Fields /\ LinkFields
    BY <1>7, <1>8, <1>9, <2>1 DEF KeDetachProcess
  <2>3. Len(callers') <= Depth /\ insertedTo' = insertedTo
    BY <1>6, <1>9 DEF KeDetachProcess
  <2> QED
    BY <2>2, <2>3 DEF AttachTypeOK, NInv
<1>10. CASE KeUnstackDetachProcess
  <2> DEFINE mine == Len(callers)
  <2>1. mine \in 1 .. Depth /\ mine \in DOMAIN callers /\ Stack(mine) \in States
        /\ callers[mine].by = "KeStackAttachProcess"
    BY <1>1, <1>10, InnermostIsLast, StatesDiffer DEF KeUnstackDetachProcess, Innermost
  <2>2. Len(callers') <= Depth /\ insertedTo' = insertedTo /\ lockHeld' = lockHeld
    BY <1>6, <1>10 DEF KeUnstackDetachProcess
  <2>3. Fields /\ LinkFields
    <3>1. CASE process[Stack(mine)] = Same
      <4>1. UNCHANGED <<links, process, pointer, environment, directory>>
        BY <1>10, <3>1 DEF KeUnstackDetachProcess, NoProcess, Same
      <4>2. LinkFields
        BY <4>1, MovedTypes DEF NInv
      <4> QED
        BY <1>1, <2>2, <4>1, <4>2
    <3>2. CASE process[Stack(mine)] = NoProcess
      <4>1. RestoreSaved /\ directory' = process'[ApcState]
        BY <1>10, <3>2 DEF KeUnstackDetachProcess, NoProcess, Same
      <4>2. environment = "Attached"
        BY <2>1, <3>2 DEF NInv, AttachmentsTold, Stays, NoProcess, Same
      <4> QED
        BY <1>7, <1>8, <2>2, <4>1, <4>2
    <3>3. CASE process[Stack(mine)] # Same /\ process[Stack(mine)] # NoProcess
      <4>1. /\ SetLinks(KiMoveApcState(Stack(mine), ApcState))
            /\ process' = [process EXCEPT ![ApcState] = process[Stack(mine)]]
            /\ directory' = process'[ApcState]
            /\ UNCHANGED <<pointer, environment>>
        BY <1>10, <3>3 DEF KeUnstackDetachProcess
      <4>2. LinkFields
        BY <2>1, <4>1, MovedTypes DEF NInv
      <4>3. process[Stack(mine)] \in Processes
        BY <1>1, <2>1, <3>3
      <4> QED
        BY <1>1, <2>2, <4>1, <4>2, <4>3, StatesDiffer
    <3> QED
      BY <3>1, <3>2, <3>3
  <2> QED
    BY <2>2, <2>3 DEF AttachTypeOK, NInv
<1>11. CASE \E a \in Queueable, env \in Environments : KeInsertQueueApc(a, env)
  <2>1. PICK a \in Queueable, env \in Environments : KeInsertQueueApc(a, env)
    BY <1>11
  <2>2. LinkFields
    BY <1>1, <2>1, StatesDiffer, LinksType, InsertTypes, SetTypes DEF KeInsertQueueApc, NInv
  <2>3. Listed
    BY <2>1 DEF KeInsertQueueApc, NInv, AttachTypeOK
  <2> QED
    BY <2>1, <2>2, <2>3 DEF KeInsertQueueApc, AttachTypeOK, NInv
<1>12. CASE DeliverFirst
  <2>1. LinkFields
    <3>1. next[ApcState] \in Nodes
      BY <1>1, StatesDiffer
    <3> QED
      BY <1>12, <3>1, LinksType, RemoveTypes, SetTypes DEF DeliverFirst, NInv
  <2>2. Listed
    BY <1>12 DEF DeliverFirst, NInv, AttachTypeOK
  <2> QED
    BY <1>12, <2>1, <2>2 DEF DeliverFirst, AttachTypeOK, NInv
<1>13. CASE UNCHANGED attachVars
  BY <1>13 DEF attachVars, links, NInv, AttachTypeOK
<1> QED
  BY <1>4, <1>5, <1>9, <1>10, <1>11, <1>12, <1>13 DEF AttachNext
-------------------------------------------------------------------------------
(* AttachmentsTold is kept. *)

\* What a state says of the thread's own process.
LEMMA OwnWhereOriginal ==
  ASSUME AttachmentsTold, environment = "Original"
  PROVE  Current = Own /\ pointer["Original"] = ApcState
         /\ \A i \in DOMAIN callers : Stays(i)
<1>1. /\ pointer["Original"] = ApcState /\ callers \in Seq(Callers)
      /\ \A i \in DOMAIN callers : Stays(i)
  BY DEF AttachmentsTold
<1>2. callers # << >> => Stays(Len(callers))
  BY <1>1, InnermostIsLast
<1> QED
  BY <1>1, <1>2 DEF Current, Innermost, Stays

\* An attachment goes into another one, whose state stays what it is.
LEMMA OuterStay ==
  ASSUME callers \in Seq(Callers), NEW c \in Callers, callers' = Append(callers, c),
         NEW n \in Nat, n = Len(callers),
         \A i \in DOMAIN callers : process'[Stack(i)] = process[Stack(i)]
  PROVE  /\ \A i \in DOMAIN callers : Stays(i) => Stays(i)'
         /\ \A k \in DOMAIN callers : OpenedAt(k) /\ Nested(n + 1)' => OpenedAt(k)'
<1>1. /\ DOMAIN callers = 1 .. n /\ DOMAIN callers' = 1 .. n + 1
      /\ \A i \in DOMAIN callers : callers'[i] = callers[i]
  BY AnotherAdds
<1>2. \A i \in DOMAIN callers : Stays(i) => Stays(i)'
  BY <1>1 DEF Stays
<1>3. \A i \in DOMAIN callers : Opens(i) => Opens(i)'
  BY <1>1 DEF Opens
<1>4. ASSUME NEW i \in DOMAIN callers, i > 1, Nested(i)
      PROVE  Nested(i)'
  <2>1. i - 1 \in DOMAIN callers
    BY <1>1, <1>4
  <2> QED
    BY <1>1, <1>4, <2>1 DEF Nested
<1>5. ASSUME NEW k \in DOMAIN callers, OpenedAt(k), Nested(n + 1)'
      PROVE  OpenedAt(k)'
  <2>1. Opens(k)'
    BY <1>3, <1>5 DEF OpenedAt
  <2>2. ASSUME NEW i \in DOMAIN callers' PROVE (i < k => Stays(i)') /\ (i > k => Nested(i)')
    <3>1. CASE i \in DOMAIN callers
      BY <1>1, <1>2, <1>4, <1>5, <3>1 DEF OpenedAt
    <3>2. CASE i = n + 1
      BY <1>1, <1>5, <3>2
    <3> QED
      BY <1>1, <3>1, <3>2
  <2> QED
    BY <2>1, <2>2 DEF OpenedAt
<1> QED
  BY <1>2, <1>5

\* The innermost attachment ends, and leaves the states of the others.
LEMMA OuterLeft ==
  ASSUME callers \in Seq(Callers), callers # << >>, Leave,
         \A i \in DOMAIN callers : process'[Stack(i)] = process[Stack(i)]
  PROVE  /\ \A i \in DOMAIN callers' : i \in DOMAIN callers /\ (Stays(i) => Stays(i)')
         /\ \A k \in DOMAIN callers :
              k # Len(callers) /\ OpenedAt(k) => k \in DOMAIN callers' /\ OpenedAt(k)'
<1>1. /\ Len(callers) \in Nat \ {0} /\ DOMAIN callers = 1 .. Len(callers)
      /\ DOMAIN callers' = 1 .. Len(callers) - 1
      /\ \A i \in DOMAIN callers' : callers'[i] = callers[i] /\ i \in DOMAIN callers
  BY InnermostIsLast, LeaveDrops
<1>2. \A i \in DOMAIN callers' : Stays(i) => Stays(i)'
  BY <1>1 DEF Stays
<1>3. \A i \in DOMAIN callers' : Opens(i) => Opens(i)'
  BY <1>1 DEF Opens
<1>4. ASSUME NEW i \in DOMAIN callers', i > 1, Nested(i)
      PROVE  Nested(i)'
  <2>1. i - 1 \in DOMAIN callers'
    BY <1>1, <1>4
  <2> QED
    BY <1>1, <1>4, <2>1 DEF Nested
<1>5. ASSUME NEW k \in DOMAIN callers, k # Len(callers), OpenedAt(k)
      PROVE  k \in DOMAIN callers' /\ OpenedAt(k)'
  <2>1. k \in DOMAIN callers' /\ k \in Nat \ {0}
    BY <1>1, <1>5
  <2>2. Opens(k)'
    BY <1>3, <1>5, <2>1 DEF OpenedAt
  <2>3. ASSUME NEW i \in DOMAIN callers' PROVE (i < k => Stays(i)') /\ (i > k => Nested(i)')
    <3>1. i \in DOMAIN callers /\ i \in Nat
      BY <1>1
    <3>2. i > k => i > 1
      BY <2>1, <3>1
    <3> QED
      BY <1>2, <1>4, <1>5, <3>1, <3>2 DEF OpenedAt
  <2> QED
    BY <2>1, <2>2, <2>3 DEF OpenedAt
<1> QED
  BY <1>1, <1>2, <1>5

LEMMA AttachTold ==
  ASSUME ApcStateAssumption, NInv, NEW p \in Processes, KeAttachProcess(p)
  PROVE  AttachmentsTold'
<1>1. callers = << >> /\ Current = Own /\ process[ApcState] = Own
      /\ process \in [States -> Processes \union {NoProcess, Same}]
  BY DEF KeAttachProcess, NInv, AttachmentsTold, Current, AttachTypeOK
<1>2. /\ process'[SavedApcState] = Own /\ process'[ApcState] = p /\ directory' = p
      /\ environment' = "Attached"
      /\ pointer' = [Original |-> SavedApcState, Attached |-> ApcState]
  BY <1>1, StatesDiffer DEF KeAttachProcess, KiAttachProcess
<1> DEFINE c == [to |-> p, by |-> "KeAttachProcess"]
<1>3. callers' = <<c>>
  BY DEF KeAttachProcess
<1>4. /\ callers' \in Seq(Callers) /\ callers' # << >> /\ Len(callers') = 1
      /\ DOMAIN callers' = {1} /\ callers'[1] = c
  BY <1>3 DEF Callers
<1>5. OpenedAt(1)'
  BY <1>4 DEF OpenedAt, Opens
<1>6. Current' = p
  BY <1>4 DEF Current, Innermost
<1> QED
  BY <1>2, <1>4, <1>5, <1>6 DEF AttachmentsTold

LEMMA StackAttachTold ==
  ASSUME ApcStateAssumption, NInv, NEW p \in Processes, KeStackAttachProcess(p)
  PROVE  AttachmentsTold'
<1> DEFINE c == [to |-> p, by |-> "KeStackAttachProcess"]
<1>0. PICK n \in Nat : n = Len(callers)
  BY DEF NInv, AttachmentsTold
<1>1. /\ callers' = Append(callers, c) /\ c \in Callers
      /\ callers \in Seq(Callers) /\ process[ApcState] = Current /\ directory = Current
      /\ process \in [States -> Processes \union {NoProcess, Same}]
  BY DEF KeStackAttachProcess, NInv, AttachmentsTold, AttachTypeOK, Callers
<1>2. /\ callers' \in Seq(Callers) /\ n \in Nat /\ Len(callers') = n + 1
      /\ callers' # << >>
      /\ DOMAIN callers = 1 .. n /\ DOMAIN callers' = 1 .. n + 1
      /\ \A i \in DOMAIN callers : callers'[i] = callers[i]
      /\ callers'[n + 1] = c
  BY <1>0, <1>1, AnotherAdds
<1>3. n + 1 \in 1 .. Depth /\ Stack(n + 1) \in States
  BY <1>0, StatesDiffer DEF KeStackAttachProcess, ApcStateAssumption
<1>4. Current' = p
  BY <1>2 DEF Current, Innermost
<1>5. ASSUME \A s \in States \ {Stack(n + 1), ApcState, SavedApcState} : process'[s] = process[s]
      PROVE  \A i \in DOMAIN callers : process'[Stack(i)] = process[Stack(i)]
  <2>1. \A i \in DOMAIN callers : i \in 1 .. Depth /\ i # n + 1
    BY <1>2, <1>3 DEF ApcStateAssumption
  <2> QED
    BY <1>5, <2>1, StatesDiffer
<1>6. ASSUME environment = "Attached"
      PROVE  n # 0 /\ Current = callers[n].to
  BY <1>0, <1>2, <1>6 DEF NInv, AttachmentsTold, Current, Innermost
<1>7. CASE p = process[ApcState]
  <2>1. /\ process' = [process EXCEPT ![Stack(n + 1)] = Same]
        /\ UNCHANGED <<pointer, environment, directory>>
    BY <1>0, <1>7 DEF KeStackAttachProcess
  <2>2. /\ process'[Stack(n + 1)] = Same
        /\ \A s \in States \ {Stack(n + 1)} : process'[s] = process[s]
    BY <1>1, <1>3, <2>1
  <2>3. /\ \A i \in DOMAIN callers : Stays(i) => Stays(i)'
        /\ \A k \in DOMAIN callers : OpenedAt(k) /\ Nested(n + 1)' => OpenedAt(k)'
    BY <1>0, <1>1, <1>5, <2>2, OuterStay
  <2>4. process'[ApcState] = p /\ directory' = p
    BY <1>1, <1>7, <2>1, <2>2, StatesDiffer
  <2>5. CASE environment = "Original"
    <3>1. Current = Own /\ pointer["Original"] = ApcState /\ \A i \in DOMAIN callers : Stays(i)
      BY <2>5, OwnWhereOriginal DEF NInv
    <3>2. Stays(n + 1)'
      BY <1>1, <1>2, <1>7, <2>2, <3>1 DEF Stays
    <3>3. \A i \in DOMAIN callers' : Stays(i)'
      BY <1>2, <2>3, <3>1, <3>2
    <3> QED
      BY <1>2, <1>4, <2>1, <2>4, <2>5, <3>1, <3>3 DEF AttachmentsTold
  <2>6. CASE environment = "Attached"
    <3>1. Nested(n + 1)'
      BY <1>1, <1>2, <1>6, <1>7, <2>2, <2>6 DEF Nested
    <3>2. PICK k \in DOMAIN callers : OpenedAt(k)
      BY <2>6 DEF NInv, AttachmentsTold
    <3>3. k \in DOMAIN callers' /\ OpenedAt(k)'
      BY <1>2, <2>3, <3>1, <3>2
    <3>4. process'[SavedApcState] = Own
      BY <2>2, <2>6, StatesDiffer DEF NInv, AttachmentsTold
    <3> QED
      BY <1>2, <1>4, <2>1, <2>4, <2>6, <3>3, <3>4 DEF NInv, AttachmentsTold
  <2> QED
    BY <2>5, <2>6 DEF NInv, AttachmentsTold
<1>8. CASE p # process[ApcState] /\ environment # "Original"
  <2>1. environment = "Attached"
    BY <1>8 DEF NInv, AttachmentsTold
  <2>2. KiAttachProcess(p, Stack(n + 1), process)
    BY <1>0, <1>8 DEF KeStackAttachProcess
  <2>3. /\ process' = [process EXCEPT ![Stack(n + 1)] = process[ApcState], ![ApcState] = p]
        /\ UNCHANGED <<pointer, environment>> /\ directory' = p
    BY <2>2, StatesDiffer DEF KiAttachProcess
  <2>4. /\ process'[Stack(n + 1)] = Current /\ process'[ApcState] = p
        /\ \A s \in States \ {Stack(n + 1), ApcState} : process'[s] = process[s]
    BY <1>1, <1>3, <2>3, StatesDiffer
  <2>5. Nested(n + 1)'
    BY <1>2, <1>6, <2>1, <2>4 DEF Nested
  <2>6. PICK k \in DOMAIN callers : OpenedAt(k)
    BY <2>1 DEF NInv, AttachmentsTold
  <2>7. k \in DOMAIN callers' /\ OpenedAt(k)'
    BY <1>0, <1>1, <1>2, <1>5, <2>4, <2>5, <2>6, OuterStay
  <2>8. process'[SavedApcState] = Own
    BY <2>1, <2>4, StatesDiffer DEF NInv, AttachmentsTold
  <2> QED
    BY <1>2, <1>4, <2>1, <2>3, <2>4, <2>7, <2>8 DEF NInv, AttachmentsTold
<1>9. CASE p # process[ApcState] /\ environment = "Original"
  <2>1. Current = Own /\ \A i \in DOMAIN callers : Stays(i)
    BY <1>9, OwnWhereOriginal DEF NInv
  <2> DEFINE flags == [process EXCEPT ![Stack(n + 1)] = NoProcess]
  <2>2. KiAttachProcess(p, SavedApcState, flags)
    BY <1>0, <1>9 DEF KeStackAttachProcess
  <2>3. /\ process' = [flags EXCEPT ![SavedApcState] = process[ApcState], ![ApcState] = p]
        /\ pointer' = [Original |-> SavedApcState, Attached |-> ApcState]
        /\ environment' = "Attached" /\ directory' = p
    BY <2>2 DEF KiAttachProcess
  <2>4. /\ process'[Stack(n + 1)] = NoProcess /\ process'[ApcState] = p
        /\ process'[SavedApcState] = Own
        /\ \A s \in States \ {Stack(n + 1), ApcState, SavedApcState} : process'[s] = process[s]
    BY <1>1, <1>3, <2>1, <2>3, StatesDiffer
  <2>5. \A i \in DOMAIN callers : Stays(i)'
    BY <1>0, <1>1, <1>5, <2>1, <2>4, OuterStay
  <2>6. Opens(n + 1)'
    BY <1>2, <2>4 DEF Opens
  <2>7. n + 1 \in DOMAIN callers' /\ OpenedAt(n + 1)'
    BY <1>2, <2>5, <2>6 DEF OpenedAt
  <2> QED
    BY <1>2, <1>4, <2>3, <2>4, <2>7 DEF AttachmentsTold
<1> QED
  BY <1>7, <1>8, <1>9

\* The attachment that left the thread's own process ends.
LEMMA RestoreTold ==
  ASSUME ApcStateAssumption, NInv, callers # << >>, Leave, Opens(Len(callers)),
         RestoreSaved, directory' = process'[ApcState]
  PROVE  AttachmentsTold'
<1> DEFINE n == Len(callers)
<1>1. /\ callers \in Seq(Callers) /\ n \in Nat \ {0} /\ DOMAIN callers = 1 .. n
      /\ process \in [States -> Processes \union {NoProcess, Same}]
  BY InnermostIsLast DEF NInv, AttachmentsTold, AttachTypeOK
<1>2. /\ callers' \in Seq(Callers) /\ Len(callers') = n - 1 /\ DOMAIN callers' = 1 .. n - 1
      /\ \A i \in 1 .. n - 1 : callers'[i] = callers[i]
      /\ callers' = << >> <=> n = 1
  BY <1>1, LeaveDrops
<1>3. ~Stays(n)
  BY DEF Opens, Stays, NoProcess, Same
<1>4. environment = "Attached"
  BY <1>1, <1>3 DEF NInv, AttachmentsTold
<1>5. PICK k \in DOMAIN callers : OpenedAt(k)
  BY <1>4 DEF NInv, AttachmentsTold
<1>6. k = n
  <2>1. ASSUME n > k PROVE FALSE
    <3>1. Nested(n) /\ n - 1 \in DOMAIN callers
      BY <1>1, <1>5, <2>1 DEF OpenedAt
    <3>2. callers[n - 1] \in Callers
      BY <1>1, <3>1
    <3>3. callers[n - 1].to \in Processes
      BY <3>2 DEF Callers
    <3> QED
      BY <3>1, <3>3 DEF Nested, Opens, NoProcess, Same, ApcStateAssumption
  <2> QED
    BY <1>1, <2>1
<1>7. /\ process'[ApcState] = Own /\ environment' = "Original"
      /\ pointer'["Original"] = ApcState
      /\ \A s \in States \ {ApcState, SavedApcState} : process'[s] = process[s]
  BY <1>1, <1>4, StatesDiffer DEF RestoreSaved, NInv, AttachmentsTold
<1>8. n <= Depth
  BY DEF NInv, AttachTypeOK
<1>9. \A i \in DOMAIN callers : Stack(i) \in States /\ process'[Stack(i)] = process[Stack(i)]
  BY <1>1, <1>7, <1>8, StatesDiffer DEF ApcStateAssumption
<1>10. \A i \in DOMAIN callers' : Stays(i)'
  BY <1>1, <1>2, <1>5, <1>6, <1>9, OuterLeft DEF OpenedAt
<1>11. Current' = Own
  <2>1. CASE callers' = << >>
    BY <2>1 DEF Current
  <2>2. CASE callers' # << >>
    <3>1. Len(callers') \in DOMAIN callers'
      BY <1>1, <1>2, <2>2
    <3> QED
      BY <1>10, <2>2, <3>1 DEF Current, Innermost, Stays
  <2> QED
    BY <2>1, <2>2
<1> QED
  BY <1>2, <1>7, <1>10, <1>11 DEF AttachmentsTold

LEMMA UnstackTold ==
  ASSUME ApcStateAssumption, NInv, KeUnstackDetachProcess
  PROVE  AttachmentsTold'
<1> DEFINE n == Len(callers)
<1>1. /\ callers \in Seq(Callers) /\ n \in Nat \ {0} /\ DOMAIN callers = 1 .. n /\ n <= Depth
      /\ process \in [States -> Processes \union {NoProcess, Same}]
      /\ callers # << >> /\ Leave /\ callers[n].by = "KeStackAttachProcess"
      /\ Current = callers[n].to
  BY InnermostIsLast DEF KeUnstackDetachProcess, NInv, AttachmentsTold, AttachTypeOK, Innermost,
                         Current
<1>2. /\ callers' \in Seq(Callers) /\ Len(callers') = n - 1 /\ DOMAIN callers' = 1 .. n - 1
      /\ \A i \in 1 .. n - 1 : callers'[i] = callers[i]
      /\ callers' = << >> <=> n = 1
  BY <1>1, LeaveDrops
<1>3. \A i \in DOMAIN callers : Stack(i) \in States
  BY <1>1, StatesDiffer DEF ApcStateAssumption
<1>4. n # 1 => Current' = callers[n - 1].to /\ n - 1 \in DOMAIN callers
  BY <1>1, <1>2 DEF Current, Innermost
<1>5. CASE process[Stack(n)] = NoProcess
  <2>1. RestoreSaved /\ directory' = process'[ApcState]
    BY <1>5 DEF KeUnstackDetachProcess, NoProcess, Same
  <2>2. Opens(n)
    BY <1>1, <1>5 DEF Opens
  <2> QED
    BY <1>1, <2>1, <2>2, RestoreTold
<1>6. ASSUME environment = "Attached", process[Stack(n)] # NoProcess
      PROVE  \E k \in DOMAIN callers : n # 1 /\ k # n /\ OpenedAt(k) /\ Nested(n)
  <2>1. PICK k \in DOMAIN callers : OpenedAt(k)
    BY <1>6 DEF NInv, AttachmentsTold
  <2>2. k # n
    BY <1>1, <1>6, <2>1 DEF OpenedAt, Opens
  <2>3. n > k /\ n # 1
    BY <1>1, <2>1, <2>2
  <2> QED
    BY <1>1, <2>1, <2>2, <2>3 DEF OpenedAt
<1>7. CASE process[Stack(n)] = Same
  <2>1. UNCHANGED <<process, pointer, environment, directory>>
    BY <1>7 DEF KeUnstackDetachProcess, NoProcess, Same
  <2>2. /\ \A i \in DOMAIN callers' : i \in DOMAIN callers /\ (Stays(i) => Stays(i)')
        /\ \A k \in DOMAIN callers : k # n /\ OpenedAt(k) => k \in DOMAIN callers' /\ OpenedAt(k)'
    BY <1>1, <2>1, OuterLeft
  <2>3. CASE environment = "Original"
    <3>1. Current = Own /\ pointer["Original"] = ApcState /\ \A i \in DOMAIN callers : Stays(i)
      BY <2>3, OwnWhereOriginal DEF NInv
    <3>2. Current' = Own
      BY <1>2, <1>4, <3>1 DEF Current, Stays
    <3>3. \A i \in DOMAIN callers' : Stays(i)'
      BY <2>2, <3>1
    <3> QED
      BY <1>2, <2>1, <2>3, <3>1, <3>2, <3>3 DEF NInv, AttachmentsTold
  <2>4. CASE environment = "Attached"
    <3>1. PICK k \in DOMAIN callers : n # 1 /\ k # n /\ OpenedAt(k) /\ Nested(n)
      BY <1>6, <1>7, <2>4 DEF NoProcess, Same
    <3>2. callers[n - 1].to # Same
      <4>1. callers[n - 1] \in Callers
        BY <1>1, <1>4, <3>1
      <4> QED
        BY <4>1 DEF Callers, ApcStateAssumption
    <3>3. Current' = Current
      BY <1>1, <1>4, <1>7, <3>1, <3>2 DEF Nested
    <3> QED
      BY <1>2, <2>1, <2>2, <2>4, <3>1, <3>3 DEF NInv, AttachmentsTold
  <2> QED
    BY <2>3, <2>4 DEF NInv, AttachmentsTold
<1>8. CASE process[Stack(n)] # Same /\ process[Stack(n)] # NoProcess
  <2>1. /\ process' = [process EXCEPT ![ApcState] = process[Stack(n)]]
        /\ directory' = process'[ApcState]
        /\ UNCHANGED <<pointer, environment>>
    BY <1>8 DEF KeUnstackDetachProcess
  <2>2. /\ process'[ApcState] = process[Stack(n)]
        /\ \A s \in States \ {ApcState} : process'[s] = process[s]
    BY <1>1, <2>1, StatesDiffer
  <2>3. environment = "Attached"
    <3>1. ~Stays(n)
      BY <1>8 DEF Stays
    <3> QED
      BY <1>1, <3>1 DEF NInv, AttachmentsTold
  <2>4. PICK k \in DOMAIN callers : n # 1 /\ k # n /\ OpenedAt(k) /\ Nested(n)
    BY <1>6, <1>8, <2>3
  <2>5. process'[ApcState] = Current' /\ directory' = Current'
    BY <1>4, <1>8, <2>1, <2>2, <2>4 DEF Nested
  <2>6. k \in DOMAIN callers' /\ OpenedAt(k)'
    BY <1>1, <1>3, <2>2, <2>4, StatesDiffer, OuterLeft
  <2>7. process'[SavedApcState] = Own
    BY <2>2, <2>3, StatesDiffer DEF NInv, AttachmentsTold
  <2> QED
    BY <1>2, <2>1, <2>3, <2>5, <2>6, <2>7 DEF NInv, AttachmentsTold
<1> QED
  BY <1>5, <1>7, <1>8

LEMMA ToldStep ==
  ASSUME ApcStateAssumption, NInv, [AttachNext]_attachVars
  PROVE  AttachmentsTold'
<1>1. CASE UNCHANGED <<process, pointer, environment, directory, callers>>
  BY <1>1 DEF NInv, AttachmentsTold, Current, Innermost, Stays, Opens, Nested, OpenedAt
<1>2. CASE KeDetachProcess
  <2>1. Opens(Len(callers))
    BY <1>2 DEF KeDetachProcess, Opens, Innermost
  <2> QED
    BY <1>2, <2>1, RestoreTold DEF KeDetachProcess
<1>3. CASE (\E a \in Queueable, env \in Environments : KeInsertQueueApc(a, env)) \/ DeliverFirst
  BY <1>1, <1>3 DEF KeInsertQueueApc, DeliverFirst
<1>4. CASE UNCHANGED attachVars
  BY <1>1, <1>4 DEF attachVars
<1> QED
  BY <1>2, <1>3, <1>4, AttachTold, StackAttachTold, UnstackTold DEF AttachNext
-------------------------------------------------------------------------------
(* LinksSound is kept, where no APC is queued while the states are moved.     *)

\* The states put away are none of the current list.
LEMMA KeptApart ==
  ASSUME ApcStateAssumption, NInv
  PROVE  /\ Kept \subseteq States \ {ApcState}
         /\ Ring \subseteq {ApcState} \union Queueable /\ Ring \subseteq Nodes
         /\ Kept \cap Ring = {} /\ Kept \cap Queueable = {}
<1>1. \A i \in DOMAIN callers : i \in 1 .. Depth
  BY DEF NInv, AttachTypeOK, AttachmentsTold, ApcStateAssumption
<1>2. Kept \subseteq States \ {ApcState}
  BY <1>1, StatesDiffer DEF Kept
<1>3. Ring \subseteq {ApcState} \union Queueable
  BY DEF Ring, NInv, AttachTypeOK
<1> QED
  BY <1>2, <1>3, StatesDiffer DEF ApcStateAssumption

\* A list without APCs is its head.
LEMMA EmptyRing ==
  ASSUME LinksSound, Quiet, Moves
  PROVE  Ring = {ApcState} /\ next[ApcState] = ApcState /\ prev[ApcState] = ApcState
BY DEF Moves, LinksSound, Ring

\* A state is put away.
LEMMA SavingKeepsLinks ==
  ASSUME ApcStateAssumption, Quiet, IInv, NEW p \in Processes, NEW flags,
         NEW saved \in States, saved # ApcState, KiAttachProcess(p, saved, flags),
         Kept' \subseteq Kept \union {saved}
  PROVE  LinksSound'
<1>1. /\ next \in [Nodes -> Nodes] /\ prev \in [Nodes -> Nodes] /\ ApcState \in Nodes
      /\ saved \in Nodes /\ Kept \subseteq Nodes
  BY StatesDiffer, KeptApart DEF IInv, NInv, AttachTypeOK
<1>2. Ring = {ApcState} /\ next[ApcState] = ApcState /\ prev[ApcState] = ApcState
      /\ DOMAIN insertedTo = {}
  BY EmptyRing DEF KiAttachProcess, IInv, Moves
<1>3. insertedTo' = insertedTo /\ Ring' = {ApcState}
  BY <1>2 DEF KiAttachProcess, Ring
<1>4. /\ \A n \in Nodes : n # saved => next'[n] = next[n] /\ prev'[n] = prev[n]
      /\ next'[saved] = ApcState /\ prev'[saved] = ApcState
  BY <1>1, <1>2, SavingLinks DEF KiAttachProcess, SetLinks
<1>5. \A s \in Kept' : next'[s] = ApcState /\ prev'[s] = ApcState
  BY <1>1, <1>4 DEF IInv, LinksSound
<1> QED
  BY <1>1, <1>2, <1>3, <1>4, <1>5 DEF LinksSound

\* One is taken back.
LEMMA RestoringKeepsLinks ==
  ASSUME ApcStateAssumption, Quiet, IInv, Moves, UNCHANGED insertedTo,
         NEW saved \in Kept, SetLinks(KiMoveApcState(saved, ApcState)),
         Kept' \subseteq Kept \ {saved}
  PROVE  LinksSound'
<1>1. /\ next \in [Nodes -> Nodes] /\ prev \in [Nodes -> Nodes] /\ ApcState \in Nodes
      /\ saved \in States /\ saved # ApcState /\ Kept \subseteq Nodes \ {ApcState}
  BY StatesDiffer, KeptApart DEF IInv, NInv, AttachTypeOK
<1>2. DOMAIN insertedTo = {} /\ Ring' = {ApcState}
  BY EmptyRing DEF IInv, Moves, Ring
<1>3. next[saved] = ApcState /\ prev[saved] = ApcState
  BY DEF IInv, LinksSound
<1>4. /\ \A n \in Nodes \ {saved, ApcState} : next'[n] = next[n] /\ prev'[n] = prev[n]
      /\ next'[ApcState] = ApcState /\ prev'[ApcState] = ApcState
  BY <1>1, <1>3, RestoringLinks DEF SetLinks
<1>5. \A s \in Kept' : next'[s] = ApcState /\ prev'[s] = ApcState
  BY <1>1, <1>4 DEF IInv, LinksSound
<1> QED
  BY <1>2, <1>4, <1>5 DEF LinksSound

LEMMA AttachingKeepsLinks ==
  ASSUME ApcStateAssumption, Quiet, IInv, NEW p \in Processes,
         KeAttachProcess(p) \/ KeStackAttachProcess(p)
  PROVE  LinksSound'
<1>1. /\ callers \in Seq(Callers) /\ Len(callers) <= Depth
      /\ process \in [States -> Processes \union {NoProcess, Same}]
  BY DEF IInv, NInv, AttachmentsTold, AttachTypeOK
<1>2. CASE KeAttachProcess(p)
  <2>1. KiAttachProcess(p, SavedApcState, process)
    BY <1>2 DEF KeAttachProcess
  <2>2. DOMAIN callers' = {1} /\ callers'[1].by = "KeAttachProcess"
    BY <1>2 DEF KeAttachProcess
  <2>3. Kept' \subseteq Kept \union {SavedApcState}
    BY <2>2 DEF Kept
  <2> QED
    BY <2>1, <2>3, StatesDiffer, SavingKeepsLinks
<1>3. CASE KeStackAttachProcess(p)
  <2>1. PICK n \in Nat : n = Len(callers)
    BY <1>1
  <2>2. /\ n + 1 \in 1 .. Depth /\ Stack(n + 1) \in States
        /\ callers' = Append(callers, [to |-> p, by |-> "KeStackAttachProcess"])
    BY <1>3, <2>1, StatesDiffer DEF KeStackAttachProcess, ApcStateAssumption
  <2>3. /\ DOMAIN callers = 1 .. n /\ DOMAIN callers' = 1 .. n + 1
        /\ \A i \in DOMAIN callers : callers'[i] = callers[i]
    BY <1>1, <2>1, <2>2, AnotherAdds DEF Callers
  <2>4. \A i \in DOMAIN callers : Stack(i) \in States /\ i # n + 1
    BY <2>2, <2>3, StatesDiffer DEF ApcStateAssumption
  <2>5. CASE p = process[ApcState]
    <3>1. /\ process' = [process EXCEPT ![Stack(n + 1)] = Same]
          /\ UNCHANGED <<links, environment, insertedTo>>
      BY <1>3, <2>1, <2>5 DEF KeStackAttachProcess
    <3>2. /\ process'[Stack(n + 1)] = Same
          /\ \A i \in DOMAIN callers : process'[Stack(i)] = process[Stack(i)]
      BY <1>1, <2>2, <2>4, <3>1, StatesDiffer
    <3>3. Kept' \subseteq Kept
      BY <2>3, <3>1, <3>2 DEF Kept, ApcStateAssumption
    <3>4. Ring' = Ring /\ next' = next /\ prev' = prev
      BY <3>1 DEF Ring, links
    <3> QED
      BY <3>1, <3>3, <3>4 DEF IInv, LinksSound
  <2>6. CASE p # process[ApcState] /\ environment # "Original"
    <3>1. KiAttachProcess(p, Stack(n + 1), process)
      BY <1>3, <2>1, <2>6 DEF KeStackAttachProcess
    <3>2. environment' = environment
      BY <3>1, StatesDiffer DEF KiAttachProcess
    <3>3. \A i \in DOMAIN callers : process'[Stack(i)] = process[Stack(i)]
      BY <1>1, <2>4, <3>1, StatesDiffer DEF KiAttachProcess
    <3>4. Kept' \subseteq Kept \union {Stack(n + 1)}
      BY <2>3, <3>2, <3>3 DEF Kept
    <3> QED
      BY <2>2, <3>1, <3>4, StatesDiffer, SavingKeepsLinks
  <2>7. CASE p # process[ApcState] /\ environment = "Original"
    <3> DEFINE flags == [process EXCEPT ![Stack(n + 1)] = NoProcess]
    <3>1. KiAttachProcess(p, SavedApcState, flags)
      BY <1>3, <2>1, <2>7 DEF KeStackAttachProcess
    <3>2. process' = [flags EXCEPT ![SavedApcState] = process[ApcState], ![ApcState] = p]
      BY <3>1 DEF KiAttachProcess
    <3>3. /\ process'[Stack(n + 1)] = NoProcess
          /\ \A i \in DOMAIN callers : process'[Stack(i)] = process[Stack(i)]
      BY <1>1, <2>2, <2>4, <3>2, StatesDiffer
    <3>4. Kept' \subseteq Kept \union {SavedApcState}
      BY <2>3, <3>3 DEF Kept, ApcStateAssumption
    <3> QED
      BY <3>1, <3>4, StatesDiffer, SavingKeepsLinks
  <2> QED
    BY <2>5, <2>6, <2>7
<1> QED
  BY <1>2, <1>3

LEMMA DetachingKeepsLinks ==
  ASSUME ApcStateAssumption, Quiet, IInv, KeDetachProcess \/ KeUnstackDetachProcess
  PROVE  LinksSound'
<1> DEFINE n == Len(callers)
<1>1. /\ callers \in Seq(Callers) /\ n \in Nat \ {0} /\ DOMAIN callers = 1 .. n /\ n <= Depth
      /\ process \in [States -> Processes \union {NoProcess, Same}]
      /\ callers # << >> /\ Leave /\ insertedTo' = insertedTo
  BY InnermostIsLast DEF KeDetachProcess, KeUnstackDetachProcess, IInv, NInv, AttachmentsTold,
                         AttachTypeOK
<1>2. /\ DOMAIN callers' = 1 .. n - 1
      /\ \A i \in DOMAIN callers' : i \in DOMAIN callers /\ i # n /\ callers'[i] = callers[i]
  BY <1>1, LeaveDrops
<1>3. \A i \in DOMAIN callers : Stack(i) \in States
  BY <1>1, StatesDiffer DEF ApcStateAssumption
<1>4. ASSUME RestoreSaved, environment = "Attached"
      PROVE  LinksSound'
  <2>1. /\ \A i \in DOMAIN callers' : process'[Stack(i)] = process[Stack(i)]
        /\ environment' = "Original" /\ Moves /\ SetLinks(KiMoveApcState(SavedApcState, ApcState))
    BY <1>1, <1>2, <1>3, <1>4, StatesDiffer DEF RestoreSaved
  <2>2. SavedApcState \in Kept
    BY <1>4 DEF Kept
  <2>3. Kept' \subseteq Kept \ {SavedApcState}
    BY <1>2, <2>1, StatesDiffer DEF Kept
  <2> QED
    BY <1>1, <2>1, <2>2, <2>3, RestoringKeepsLinks
<1>5. CASE KeDetachProcess
  <2>1. environment = "Attached"
    BY <1>1, <1>5, InnermostIsLast DEF KeDetachProcess, IInv, NInv, AttachmentsTold, Stays,
                                       Innermost
  <2> QED
    BY <1>4, <1>5, <2>1 DEF KeDetachProcess
<1>6. CASE KeUnstackDetachProcess
  <2>1. callers[n].by = "KeStackAttachProcess"
    BY <1>6 DEF KeUnstackDetachProcess, Innermost
  <2>2. CASE process[Stack(n)] = Same
    <3>1. UNCHANGED <<links, process, environment>>
      BY <1>6, <2>2 DEF KeUnstackDetachProcess, NoProcess, Same
    <3>2. Kept' \subseteq Kept
      BY <1>2, <3>1 DEF Kept
    <3>3. Ring' = Ring /\ next' = next /\ prev' = prev
      BY <1>1, <3>1 DEF Ring, links
    <3> QED
      BY <1>1, <3>1, <3>2, <3>3 DEF IInv, LinksSound
  <2>3. CASE process[Stack(n)] = NoProcess
    <3>1. RestoreSaved
      BY <1>6, <2>3 DEF KeUnstackDetachProcess, NoProcess, Same
    <3>2. environment = "Attached"
      BY <1>1, <2>1, <2>3 DEF IInv, NInv, AttachmentsTold, Stays, NoProcess, Same
    <3> QED
      BY <1>4, <3>1, <3>2
  <2>4. CASE process[Stack(n)] # Same /\ process[Stack(n)] # NoProcess
    <3>1. /\ Moves /\ SetLinks(KiMoveApcState(Stack(n), ApcState))
          /\ process' = [process EXCEPT ![ApcState] = process[Stack(n)]]
          /\ UNCHANGED environment
      BY <1>6, <2>4 DEF KeUnstackDetachProcess
    <3>2. \A i \in DOMAIN callers' : process'[Stack(i)] = process[Stack(i)]
      BY <1>1, <1>2, <1>3, <3>1, StatesDiffer
    <3>3. Stack(n) \in Kept
      BY <1>1, <1>3, <2>1, <2>4 DEF Kept
    <3>4. Kept' \subseteq Kept \ {Stack(n)}
      BY <1>2, <3>1, <3>2, StatesDiffer DEF Kept
    <3> QED
      BY <1>1, <3>1, <3>3, <3>4, RestoringKeepsLinks
  <2> QED
    BY <2>2, <2>3, <2>4
<1> QED
  BY <1>5, <1>6

\* An APC becomes the last entry of the current list.
LEMMA InsertKeepsLinks ==
  ASSUME ApcStateAssumption, Quiet, IInv, NEW a \in Queueable, NEW env \in Environments,
         KeInsertQueueApc(a, env)
  PROVE  LinksSound'
<1>1. /\ next \in [Nodes -> Nodes] /\ prev \in [Nodes -> Nodes] /\ ApcState \in Nodes
      /\ a \in Nodes /\ a \notin Ring /\ a \notin Kept /\ Kept \subseteq Nodes
      /\ Ring \subseteq Nodes /\ ApcState \in Ring /\ Kept \cap Ring = {}
  <2>1. a # ApcState
    BY StatesDiffer DEF ApcStateAssumption
  <2>2. a \notin Ring /\ ApcState \in Ring
    BY <2>1 DEF KeInsertQueueApc, Ring
  <2> QED
    BY <2>2, StatesDiffer, KeptApart DEF IInv, NInv, AttachTypeOK
<1>2. env = environment /\ pointer[env] = ApcState
  BY DEF KeInsertQueueApc, IInv, NInv, AttachmentsTold
<1> DEFINE z == prev[ApcState]
<1>3. z \in Ring /\ next[z] = ApcState
  BY <1>1 DEF IInv, LinksSound
<1>4. /\ next' = [next EXCEPT ![a] = ApcState, ![z] = a]
      /\ prev' = [prev EXCEPT ![a] = z, ![ApcState] = a]
  BY <1>2 DEF KeInsertQueueApc, SetLinks, InsertTailList, Links
<1>5. /\ next'[a] = ApcState /\ next'[z] = a /\ prev'[a] = z /\ prev'[ApcState] = a
      /\ \A n \in Nodes \ {a, z} : next'[n] = next[n]
      /\ \A n \in Nodes \ {a, ApcState} : prev'[n] = prev[n]
  BY <1>1, <1>3, <1>4
<1>6. Ring' = Ring \union {a} /\ Kept' = Kept
  BY DEF KeInsertQueueApc, Ring, Kept
<1>7. \A b \in DOMAIN insertedTo' : insertedTo'[b] = environment'
  BY <1>2 DEF KeInsertQueueApc, IInv, LinksSound
<1>8. \A n \in Ring' : next'[n] \in Ring' /\ prev'[next'[n]] = n
  BY <1>1, <1>3, <1>5, <1>6 DEF IInv, LinksSound
<1>9. \A n \in Ring' : prev'[n] \in Ring' /\ next'[prev'[n]] = n
  BY <1>1, <1>3, <1>5, <1>6 DEF IInv, LinksSound
<1>10. \A s \in Kept' : next'[s] = ApcState /\ prev'[s] = ApcState
  BY <1>1, <1>3, <1>5, <1>6 DEF IInv, LinksSound
<1> QED
  BY <1>7, <1>8, <1>9, <1>10 DEF LinksSound

\* The first entry leaves it.
LEMMA DeliverKeepsLinks ==
  ASSUME ApcStateAssumption, Quiet, IInv, DeliverFirst
  PROVE  LinksSound'
<1> DEFINE a == next[ApcState]
           z == next[a]
<1>1. /\ next \in [Nodes -> Nodes] /\ prev \in [Nodes -> Nodes] /\ ApcState \in Nodes
      /\ Kept \subseteq Nodes /\ Ring \subseteq Nodes /\ ApcState \in Ring /\ Kept \cap Ring = {}
  BY StatesDiffer, KeptApart DEF IInv, NInv, AttachTypeOK, Ring
<1>2. a \in DOMAIN insertedTo /\ a \in Ring /\ a # ApcState
  BY StatesDiffer DEF DeliverFirst, Ring, IInv, NInv, AttachTypeOK, ApcStateAssumption
<1>3. prev[a] = ApcState /\ z \in Ring /\ prev[z] = a /\ z # a
  BY <1>1, <1>2 DEF IInv, LinksSound
<1>4. next' = [next EXCEPT ![ApcState] = z] /\ prev' = [prev EXCEPT ![z] = ApcState]
  BY <1>3 DEF DeliverFirst, SetLinks, RemoveEntryList, Links
<1>5. /\ next'[ApcState] = z /\ prev'[z] = ApcState
      /\ \A n \in Nodes \ {ApcState} : next'[n] = next[n]
      /\ \A n \in Nodes \ {z} : prev'[n] = prev[n]
  BY <1>1, <1>3, <1>4
<1>6. Ring' = Ring \ {a} /\ Kept' = Kept
  BY <1>2 DEF DeliverFirst, Ring, Kept
<1>7. \A b \in DOMAIN insertedTo' : insertedTo'[b] = environment'
  BY DEF DeliverFirst, IInv, LinksSound
<1>8. \A n \in Ring' : next'[n] \in Ring' /\ prev'[next'[n]] = n
  BY <1>1, <1>2, <1>3, <1>5, <1>6 DEF IInv, LinksSound
<1>9. \A n \in Ring' : prev'[n] \in Ring' /\ next'[prev'[n]] = n
  BY <1>1, <1>2, <1>3, <1>5, <1>6 DEF IInv, LinksSound
<1>10. \A s \in Kept' : next'[s] = ApcState /\ prev'[s] = ApcState
  BY <1>1, <1>3, <1>5, <1>6 DEF IInv, LinksSound
<1> QED
  BY <1>7, <1>8, <1>9, <1>10 DEF LinksSound

LEMMA LinksStep ==
  ASSUME ApcStateAssumption, Quiet, IInv, [AttachNext]_attachVars
  PROVE  LinksSound'
<1>1. CASE UNCHANGED attachVars
  BY <1>1 DEF attachVars, links, IInv, LinksSound, Ring, Kept
<1> QED
  BY <1>1, AttachingKeepsLinks, DetachingKeepsLinks, InsertKeepsLinks, DeliverKeepsLinks
     DEF AttachNext
-------------------------------------------------------------------------------
(* The properties. *)

LEMMA InitHolds ==
  ASSUME ApcStateAssumption, AttachInit
  PROVE  IInv
<1>1. AttachTypeOK
  <2>1. pointer \in [Environments -> States]
    BY StatesDiffer DEF AttachInit, Environments
  <2>2. DOMAIN insertedTo = {} /\ Len(callers) <= Depth
    BY EmptySeq DEF AttachInit, ApcStateAssumption
  <2> QED
    BY <2>1, <2>2, StatesDiffer DEF AttachInit, AttachTypeOK, ApcStateAssumption, Environments
<1>2. AttachmentsTold
  <2>1. callers \in Seq(Callers) /\ callers = << >> /\ DOMAIN callers = {}
    BY EmptySeq DEF AttachInit
  <2> QED
    BY <2>1, StatesDiffer DEF AttachInit, AttachmentsTold, Current
<1>3. LinksSound
  <2>1. Ring = {ApcState} /\ Kept = {} /\ DOMAIN insertedTo = {}
    BY DEF AttachInit, Ring, Kept
  <2> QED
    BY <2>1, StatesDiffer DEF AttachInit, LinksSound
<1> QED
  BY <1>1, <1>2, <1>3 DEF IInv, NInv

LEMMA WhereItRuns ==
  ASSUME NInv
  PROVE  RunsWhereAttached /\ OriginalIsOwn
<1>1. RunsWhereAttached
  BY DEF NInv, AttachmentsTold, RunsWhereAttached, Current
<1>2. AttachmentsTold /\ environment \in Environments
  BY DEF NInv, AttachTypeOK
<1>3. CASE environment = "Original"
  <2>1. process[ApcState] = Current /\ Current = Own /\ pointer["Original"] = ApcState
    BY <1>2, <1>3, OwnWhereOriginal DEF AttachmentsTold
  <2> QED
    BY <2>1, <1>1 DEF OriginalIsOwn
<1>4. CASE environment = "Attached"
  <2>1. pointer["Original"] = SavedApcState /\ process[SavedApcState] = Own
    BY <1>2, <1>4 DEF AttachmentsTold
  <2> QED
    BY <2>1, <1>1 DEF OriginalIsOwn
<1> QED
  BY <1>2, <1>3, <1>4 DEF Environments

\* A thread runs in the process it attached to last and is back in the process of the next
\* outer attachment afterwards, and its original environment is its own process's, whatever
\* happens to the APC lists.
THEOREM RunsInProcess ==
  ASSUME ApcStateAssumption
  PROVE  AttachSpec => [](RunsWhereAttached /\ OriginalIsOwn)
<1>1. AttachInit => NInv
  BY InitHolds DEF IInv
<1>2. NInv /\ [AttachNext]_attachVars => NInv'
  BY TypeStep, ToldStep DEF NInv
<1>3. NInv => RunsWhereAttached /\ OriginalIsOwn
  BY WhereItRuns
<1> QED
  BY <1>1, <1>2, <1>3, PTL DEF AttachSpec

\* Where no APC is queued while the APC states are moved, or to a state that was, the current
\* list stays a ring of its head and of the APCs queued to it, however attachments nest.
THEOREM AttachmentsHold ==
  ASSUME ApcStateAssumption, Quiet
  PROVE  AttachSpec => []AttachmentsNest
<1>1. AttachInit => IInv
  BY InitHolds
<1>2. IInv /\ [AttachNext]_attachVars => IInv'
  BY TypeStep, ToldStep, LinksStep DEF IInv, NInv
<1>3. ASSUME IInv PROVE AttachmentsNest
  <2>1. Ring = {ApcState} \union {a \in DOMAIN insertedTo : insertedTo[a] = environment}
    BY <1>3 DEF IInv, LinksSound, Ring
  <2>2. CurrentListIntact
    BY <1>3, <2>1 DEF IInv, LinksSound, CurrentListIntact
  <2> QED
    BY <1>3, <2>2, WhereItRuns DEF IInv, NInv, AttachmentsNest
<1> QED
  BY <1>1, <1>2, <1>3, PTL DEF AttachSpec
===============================================================================
