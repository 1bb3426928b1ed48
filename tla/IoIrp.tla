--------------------------------- MODULE IoIrp ---------------------------------
(***************************************************************************)
(* I/O request packets of one thread (io/irp.c, io/cleanup.c, io/cancel.c):    *)
(* the thread builds and sends them, a stack of drivers passes them down, holds  *)
(* or completes them, completion calls the drivers' routines from the bottom    *)
(* up, and the second stage of it runs in the thread, at once or as a special     *)
(* kernel APC.  NtCancelIoFile and the thread's termination walk the thread's      *)
(* list and wait for it to empty.  The drivers are external: what they choose      *)
(* is taken from the rules the I/O manager's code relies on.                     *)
(***************************************************************************)
EXTENDS Integers, Sequences, FiniteSets, SequencesExt

CONSTANTS
  Irps,        \* packets the thread builds
  Associates,  \* associated packets a driver may make for one of them
  NoIrp,
  Depth,       \* locations of a packet's stack, from 0, the lowest driver's
  OfFile,      \* packets of the file NtCancelIoFile is called for
  WithApc,     \* packets whose caller asks for a user APC at completion
  Unqueued     \* packets of IoAllocateIrp, never put in the thread's list

IrpAssumption ==
  /\ Depth \in Nat \ {0} /\ NoIrp \notin Irps \cup Associates
  /\ Irps \cap Associates = {}
  /\ OfFile \subseteq Irps /\ WithApc \subseteq Irps /\ Unqueued \subseteq Irps

VARIABLES
  phase,            \* where a packet is
  location,         \* CurrentLocation
  index,            \* i of IofCompleteRequest
  routine,          \* what completion routine is set at each location
  control,          \* the locations marked SL_PENDING_RETURNED
  pendingReturned,
  cancelRoutine,    \* whether the driver that holds the packet has set one
  context,          \* where IofCompleteRequest runs: the thread, a DPC, another thread
  master, irpCount, \* the packet associates belong to, and how many are left
  irpList, apcs,    \* the thread's list, its queue of special kernel APCs
  thread, sent, target, walk  \* what the thread does, with which packets

vars == <<phase, location, index, routine, control, pendingReturned, cancelRoutine, context,
          master, irpCount, irpList, apcs, thread, sent, target, walk>>

stack == <<location, index, routine, control, pendingReturned, cancelRoutine, context>>
threadVars == <<thread, sent, target, walk>>

Top       == Depth - 1
Locations == 0 .. Top
Packets   == Irps \cup Associates

Init ==
  /\ phase = [i \in Packets |-> "none"]
  /\ location = [i \in Packets |-> Depth]
  /\ index = [i \in Packets |-> 0]
  /\ routine = [i \in Packets |-> [l \in Locations |-> "none"]]
  /\ control = [i \in Packets |-> {}]
  /\ pendingReturned = [i \in Packets |-> FALSE]
  /\ cancelRoutine = [i \in Packets |-> FALSE]
  /\ context = [i \in Packets |-> "thread"]
  /\ master = NoIrp /\ irpCount = 0
  /\ irpList = <<>> /\ apcs = <<>>
  /\ thread = "run" /\ sent = NoIrp /\ target = {} /\ walk = NoIrp

\* The thread itself is in IofCompleteRequest.
Completing == \E i \in Packets : phase[i] = "completing" /\ context[i] = "thread"
-------------------------------------------------------------------------------
\* IoBuildSynchronousFsdRequest, IoQueueThreadIrp and IofCallDriver for the top driver.
IoBuildSynchronousFsdRequest(i) ==
  /\ thread = "run" /\ phase[i] = "none"
  /\ phase' = [phase EXCEPT ![i] = "down"]
  /\ location' = [location EXCEPT ![i] = Top]
  /\ irpList' = IF i \in Unqueued THEN irpList ELSE Append(irpList, i)
  /\ thread' = "dispatch" /\ sent' = i
  /\ UNCHANGED <<index, routine, control, pendingReturned, cancelRoutine, context, master,
                 irpCount, apcs, target, walk>>

\* A driver sends the packet on, perhaps with a completion routine, of the kind that lets
\* completion go on or of the kind that stops it (STATUS_MORE_PROCESSING_REQUIRED); in
\* the second case it has marked the packet pending.
IofCallDriver(i, kind) ==
  /\ thread = "dispatch" /\ sent = i /\ phase[i] = "down" /\ location[i] > 0
  /\ location' = [location EXCEPT ![i] = @ - 1]
  /\ routine' = [routine EXCEPT ![i][location[i] - 1] = kind]
  /\ control' = IF kind = "more" THEN [control EXCEPT ![i] = @ \cup {location[i]}] ELSE control
  /\ UNCHANGED <<phase, index, pendingReturned, cancelRoutine, context, master, irpCount,
                 irpList, apcs, threadVars>>

\* A driver keeps the packet, marks it pending and returns STATUS_PENDING.
Hold(i, cancelable) ==
  /\ thread = "dispatch" /\ sent = i /\ phase[i] = "down"
  /\ phase' = [phase EXCEPT ![i] = "held"]
  /\ control' = [control EXCEPT ![i] = @ \cup {location[i]}]
  /\ cancelRoutine' = [cancelRoutine EXCEPT ![i] = cancelable]
  /\ thread' = "run" /\ sent' = NoIrp
  /\ UNCHANGED <<location, index, routine, pendingReturned, context, master, irpCount,
                 irpList, apcs, target, walk>>

\* A driver makes associated packets (IoMakeAssociatedIrp), sets the count and sends
\* them; the lower driver holds them.
IoMakeAssociatedIrp(i) ==
  /\ thread = "dispatch" /\ sent = i /\ phase[i] = "down"
  /\ master = NoIrp /\ Associates # {}
  /\ master' = i /\ irpCount' = Cardinality(Associates)
  /\ phase' = [p \in Packets |-> IF p \in Associates THEN "held"
                                 ELSE IF p = i THEN "split" ELSE phase[p]]
  /\ control' = [control EXCEPT ![i] = @ \cup {location[i]}]
  /\ thread' = "run" /\ sent' = NoIrp
  /\ UNCHANGED <<location, index, routine, pendingReturned, cancelRoutine, context, irpList,
                 apcs, target, walk>>

\* The entry of IofCompleteRequest.  Associated packets have no routines here.
Enter(i, where) ==
  /\ phase' = [phase EXCEPT ![i] = "completing"]
  /\ index' = [index EXCEPT ![i] = IF i \in Associates THEN Depth ELSE location[i]]
  /\ pendingReturned' = [pendingReturned EXCEPT ![i] = location[i] \in control[i]]
  /\ context' = [context EXCEPT ![i] = where]

\* A driver completes the packet in its dispatch routine.
CompleteAtOnce(i) ==
  /\ thread = "dispatch" /\ sent = i /\ phase[i] = "down"
  /\ Enter(i, "thread")
  /\ thread' = "run" /\ sent' = NoIrp
  /\ UNCHANGED <<location, routine, control, cancelRoutine, master, irpCount, irpList, apcs,
                 target, walk>>

\* A driver completes a packet it held, in a DPC or in a thread of its own, once it has
\* taken its cancel routine back under the cancel lock.
CompleteHeld(i, where) ==
  /\ phase[i] = "held" /\ Enter(i, where)
  /\ cancelRoutine' = [cancelRoutine EXCEPT ![i] = FALSE]
  /\ UNCHANGED <<location, routine, control, master, irpCount, irpList, apcs, threadVars>>
-------------------------------------------------------------------------------
\* Where completion routines expect the packet to be.
IoSkipCurrentIrpStackLocation(l) == IF l < Top THEN l + 1 ELSE l

\* One round of the loop of IofCompleteRequest: the routine of a location, which may stop
\* it, or which passes the pending mark on to its driver's own location.
CompletionRoutine(i) ==
  LET here    == IoSkipCurrentIrpStackLocation(location[i])
      kind    == routine[i][index[i]]
      marked  == IF kind = "continue" /\ pendingReturned[i] THEN control[i] \cup {here}
                                                            ELSE control[i] IN
  /\ phase[i] = "completing" /\ index[i] < Depth
  /\ location' = [location EXCEPT ![i] = here]
  /\ \/ /\ kind = "more"
        /\ phase' = [phase EXCEPT ![i] = "held"]
        /\ UNCHANGED <<index, control, pendingReturned>>
     \/ /\ kind # "more"
        /\ index' = [index EXCEPT ![i] = @ + 1]
        /\ control' = [control EXCEPT ![i] = marked]
        /\ pendingReturned' = [pendingReturned EXCEPT ![i] = @ \/ here \in marked]
        /\ UNCHANGED phase
  /\ UNCHANGED <<routine, cancelRoutine, context, master, irpCount, irpList, apcs, threadVars>>

\* The end of IofCompleteRequest for an associated packet: the last completes the master.
AssociatedDone(i) ==
  LET freed == [phase EXCEPT ![i] = "freed"] IN
  /\ i \in Associates /\ phase[i] = "completing" /\ index[i] = Depth
  /\ irpCount' = irpCount - 1
  /\ \/ /\ irpCount' = 0
        /\ phase' = [freed EXCEPT ![master] = "completing"]
        /\ index' = [index EXCEPT ![master] = location[master]]
        /\ pendingReturned' = [pendingReturned EXCEPT ![master] =
                                 location[master] \in control[master]]
        /\ context' = [context EXCEPT ![master] = context[i]]
     \/ /\ irpCount' # 0 /\ phase' = freed
        /\ UNCHANGED <<index, pendingReturned, context>>
  /\ UNCHANGED <<location, routine, control, cancelRoutine, master, irpList, apcs, threadVars>>

\* IoSecondStageCompletion: out of the thread's list, the caller's event set, the packet
\* freed, or used once more for the caller's APC.
IoSecondStageCompletion(i) ==
  /\ irpList' = SelectSeq(irpList, LAMBDA entry : entry # i)
  /\ phase' = [phase EXCEPT ![i] = IF i \in WithApc THEN "userApc" ELSE "freed"]

\* Mutated: the mark of a driver that returned STATUS_PENDING is not looked at.
ByApcFromDpc(i) == context[i] = "dpc"

\* Whether the second stage must wait for an APC.
ByApc(i) == pendingReturned[i] \/ context[i] = "dpc"

\* The end of IofCompleteRequest.  An APC for a thread that is gone is not queued, and
\* nobody else frees the packet.
Done(i) ==
  /\ i \in Irps /\ phase[i] = "completing" /\ index[i] = Depth
  /\ \/ /\ ByApc(i) /\ thread # "exit"
        /\ phase' = [phase EXCEPT ![i] = "apc"]
        /\ apcs' = Append(apcs, i)
        /\ UNCHANGED irpList
     \/ /\ ByApc(i) /\ thread = "exit"
        /\ phase' = [phase EXCEPT ![i] = "lost"]
        /\ UNCHANGED <<apcs, irpList>>
     \/ /\ ~ByApc(i)
        /\ IoSecondStageCompletion(i)
        /\ UNCHANGED apcs
  /\ UNCHANGED <<stack, master, irpCount, threadVars>>

\* Mutated: the walks run at PASSIVE_LEVEL.
DeliverInWalk ==
  /\ apcs # <<>> /\ thread # "exit"
  /\ IoSecondStageCompletion(Head(apcs))
  /\ apcs' = Tail(apcs)
  /\ UNCHANGED <<stack, master, irpCount, threadVars>>

\* The thread takes the APC, unless it runs at APC_LEVEL.
DeliverApc ==
  /\ apcs # <<>> /\ thread \notin {"walk", "exit"}
  /\ IoSecondStageCompletion(Head(apcs))
  /\ apcs' = Tail(apcs)
  /\ UNCHANGED <<stack, master, irpCount, threadVars>>

\* The user APC frees the packet in its kernel routine.
DeliverUserApc(i) ==
  /\ phase[i] = "userApc" /\ thread = "run" /\ ~Completing
  /\ phase' = [phase EXCEPT ![i] = "freed"]
  /\ UNCHANGED <<stack, master, irpCount, irpList, apcs, threadVars>>
-------------------------------------------------------------------------------
NextEntry(i) ==
  LET places == {n \in DOMAIN irpList : irpList[n] = i} IN
  IF places = {} \/ Len(irpList) \in places THEN NoIrp
  ELSE irpList[(CHOOSE n \in places : TRUE) + 1]

\* NtCancelIoFile and IoCancelThreadIo raise the IRQL and start along the list.
StartWalk(packets) ==
  /\ thread = "run" /\ ~Completing
  /\ thread' = "walk" /\ target' = packets
  /\ walk' = IF irpList = <<>> THEN NoIrp ELSE Head(irpList)
  /\ UNCHANGED <<phase, stack, master, irpCount, irpList, apcs, sent>>

NtCancelIoFile   == OfFile # {} /\ StartWalk(OfFile)
IoCancelThreadIo == StartWalk(Packets)

\* IoCancelIrp: the cancel routine, if the driver still has one set, completes the packet
\* in the thread; then the walk goes on, from the same packet.
IoCancelIrp(i) ==
  /\ thread = "walk" /\ ~Completing /\ walk = i
  /\ i \in target /\ cancelRoutine[i]
  /\ cancelRoutine' = [cancelRoutine EXCEPT ![i] = FALSE]
  /\ Enter(i, "thread")
  /\ UNCHANGED <<location, routine, control, master, irpCount, irpList, apcs, threadVars>>

WalkOn(i) ==
  /\ thread = "walk" /\ ~Completing /\ walk = i
  /\ ~(i \in target /\ cancelRoutine[i])
  /\ walk' = NextEntry(i)
  /\ UNCHANGED <<phase, stack, master, irpCount, irpList, apcs, thread, sent, target>>

\* The packets waited for: those of the file, or the whole list.
Outstanding == Range(irpList) \cap target

EndWalk ==
  /\ thread = "walk" /\ ~Completing /\ walk = NoIrp
  /\ thread' = "delay"
  /\ UNCHANGED <<phase, stack, master, irpCount, irpList, apcs, sent, target, walk>>

\* After a delay the list is looked at again.
EndDelay ==
  /\ thread = "delay" /\ ~Completing /\ Outstanding = {}
  /\ thread' = IF target = Packets THEN "exit" ELSE "run"
  /\ target' = {}
  /\ UNCHANGED <<phase, stack, master, irpCount, irpList, apcs, sent, walk>>

Drivers ==
  \/ \E i \in Packets : \E where \in {"dpc", "worker"} : CompleteHeld(i, where)
  \/ \E i \in Packets : CompletionRoutine(i) \/ AssociatedDone(i) \/ Done(i)

Thread ==
  \/ \E i \in Irps :
       \/ ~Completing /\ IoBuildSynchronousFsdRequest(i)
       \/ \E kind \in {"none", "continue", "more"} : IofCallDriver(i, kind)
       \/ \E cancelable \in BOOLEAN : Hold(i, cancelable)
       \/ IoMakeAssociatedIrp(i) \/ CompleteAtOnce(i) \/ DeliverUserApc(i)
       \/ IoCancelIrp(i) \/ WalkOn(i)
  \/ DeliverApc \/ NtCancelIoFile \/ IoCancelThreadIo \/ EndWalk \/ EndDelay

Next == Drivers \/ Thread

Spec == Init /\ [][Next]_vars

\* Drivers complete what they hold, in the end; APCs are taken; the walks go on.
FairSpec ==
  /\ Spec /\ WF_vars(Drivers) /\ WF_vars(DeliverApc) /\ WF_vars(EndWalk) /\ WF_vars(EndDelay)
  /\ \A i \in Irps : WF_vars(IoCancelIrp(i) \/ WalkOn(i))
-------------------------------------------------------------------------------
Phases == {"none", "down", "held", "split", "completing", "apc", "userApc", "freed", "lost"}

TypeOK ==
  /\ phase \in [Packets -> Phases]
  /\ location \in [Packets -> 0 .. Depth] /\ index \in [Packets -> 0 .. Depth]
  /\ routine \in [Packets -> [Locations -> {"none", "continue", "more"}]]
  /\ control \in [Packets -> SUBSET Locations]
  /\ pendingReturned \in [Packets -> BOOLEAN] /\ cancelRoutine \in [Packets -> BOOLEAN]
  /\ context \in [Packets -> {"thread", "dpc", "worker"}]
  /\ master \in Irps \cup {NoIrp} /\ irpCount \in 0 .. Cardinality(Associates)
  /\ irpList \in Seq(Irps) /\ apcs \in Seq(Irps)
  /\ thread \in {"run", "dispatch", "walk", "delay", "exit"}
  /\ sent \in Irps \cup {NoIrp} /\ target \subseteq Packets /\ walk \in Irps \cup {NoIrp}

\* The walks of NtCancelIoFile and IoCancelThreadIo never stand at a packet that has left
\* the list, though cancelling may complete it, and though drivers complete others.
WalkStaysOnList == thread = "walk" => walk \in Range(irpList) \cup {NoIrp}

\* A packet is in the list from when it is queued until its second stage, which runs once:
\* no packet is freed while listed, while an APC is queued for it or while a driver has it.
ListedUntilSecondStage ==
  /\ Range(irpList) = {i \in Irps \ Unqueued : phase[i] \notin {"none", "userApc", "freed"}}
  /\ Range(apcs) = {i \in Irps : phase[i] = "apc"}
  /\ IsInjective(irpList) /\ IsInjective(apcs)

\* A master packet is completed when its last associated packet is.
MasterWaits ==
  \A i \in Irps : i = master /\ phase[i] = "split" <=>
    i = master /\ \E p \in Associates : phase[p] # "freed"

\* A thread that is gone has left no packet behind that nobody will free.
ExitLeavesNothing ==
  thread = "exit" => \A i \in Irps : phase[i] \notin {"userApc", "lost"}

\* The second stage runs in the thread's own context, directly only if no driver has
\* returned STATUS_PENDING for the packet.
InThread ==
  \A i \in Irps : phase[i] = "completing" /\ phase'[i] \in {"freed", "userApc"}
    => context[i] = "thread" /\ control[i] = {}

\* Completion goes up the stack: no routine is called twice, none is passed over.
GoesUp ==
  \A i \in Irps : index'[i] # index[i] /\ phase[i] # "down" =>
    \/ index'[i] = index[i] + 1
    \/ index'[i] = location[i] /\ index[i] \in {0, location[i] - 1}

SecondStageInThread == [][InThread]_vars
RoutinesGoUp == [][GoesUp]_vars

\* Cancelling a file's or a thread's requests comes to an end.
CancelEnds == thread \in {"walk", "delay"} ~> thread \in {"run", "exit"}
===============================================================================
