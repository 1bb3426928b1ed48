--------------------------------- MODULE KeApc ---------------------------------
(***************************************************************************)
(* Asynchronous procedure calls to one thread (ntoskrnl/ke/apc.c): the two    *)
(* lists of its APC state, what queueing an APC does to the thread, and       *)
(* KiDeliverApc, which other code of the same thread, DPCs and other threads  *)
(* interleave with wherever it gives up the APC queue lock, and which is      *)
(* entered again while a normal routine runs at PASSIVE_LEVEL.                *)
(*                                                                         *)
(* The HAL calls KiDeliverApc(KernelMode) whenever the IRQL of the thread is  *)
(* PASSIVE_LEVEL and KernelApcPending is set, before the thread goes on; the  *)
(* return to user mode calls KiDeliverApc(UserMode).  Normal routines do not  *)
(* wait in the model, and the thread is not attached to another process.     *)
(***************************************************************************)
EXTENDS Integers, Sequences, FiniteSets, Lists

CONSTANTS
  Special, Normal,  \* the kernel APCs without and with a normal routine
  User,             \* the user APCs
  Exit,             \* the user APCs whose kernel routine is PsExitSpecialApc
  Removable,        \* the APCs KeRemoveQueueApc is called for
  MaxDisable        \* bound: the depth of critical regions

Apcs == Special \union Normal \union User \union Exit

\* What the constants must satisfy; assumed by the modules that fix them.
ApcAssumption ==
  /\ Special \cap Normal = {} /\ User \cap Exit = {}
  /\ (Special \union Normal) \cap (User \union Exit) = {}
  /\ Removable \subseteq Apcs /\ MaxDisable \in Nat

VARIABLES
  kernelList, userList,  \* ApcState.ApcListHead[KernelMode], [UserMode]
  inserted,              \* the APCs whose Inserted is set
  kernelApcPending, userApcPending, kernelApcInProgress,
  kernelApcDisable,      \* how far KernelApcDisable is below zero
  place,                 \* where the thread is: User, Kernel, Retry, Blocked
  wait,                  \* Alertable and WaitMode of its wait
  raised,                \* it is at APC_LEVEL, as the owner of a fast mutex is
  frames                 \* the calls of KiDeliverApc it is in, innermost last

lists == <<kernelList, userList, inserted>>
apcState == <<kernelApcPending, userApcPending, kernelApcInProgress, kernelApcDisable>>
thread == <<place, wait, raised>>
apcVars == <<lists, apcState, thread, frames>>


Waits == [mode : {"KernelMode", "UserMode"}, alertable : BOOLEAN]
\* A call of KiDeliverApc: looking at the lists; in the kernel routine of a special
\* APC, of a normal one, of a user APC; in a normal routine.
Frames == [mode : {"KernelMode", "UserMode"},
           at : {"Lists", "Special", "Kernel", "User", "Normal"}]

Top == frames[Len(frames)]
MoveTo(where) == [frames EXCEPT ![Len(frames)].at = where]
Deeper(mode) == Append(frames, [mode |-> mode, at |-> "Lists"])
Return == SubSeq(frames, 1, Len(frames) - 1)

AtPassiveLevel ==
  /\ place # "Blocked"
  /\ IF frames = << >> THEN ~raised ELSE Top.at = "Normal"

\* The thread's own code goes on, outside KiDeliverApc.
OwnCode == frames = << >> /\ (kernelApcPending => ~AtPassiveLevel)
-------------------------------------------------------------------------------
\* The list of kernel APCs with a special APC: the loop that looks for the first
\* normal one tests the new APC, and runs to the end.
WithSpecial(a) == Append(kernelList, a)

\* The wait that an APC queued now would end, and whether it is begun again.
EndsWaitForKernelApc(a) == place = "Blocked" /\ ~raised /\ a \in Special
EndsWaitForUserApc == place = "Blocked" /\ wait = [mode |-> "UserMode", alertable |-> TRUE]

\* KeInsertQueueApc of a kernel APC that is not inserted.
InsertKernelApc(a) ==
  /\ a \in (Special \union Normal) \ inserted
  /\ kernelList' = IF a \in Special THEN WithSpecial(a) ELSE Append(kernelList, a)
  /\ inserted' = inserted \union {a}
  /\ kernelApcPending' = TRUE
  /\ place' = IF EndsWaitForKernelApc(a) THEN "Retry" ELSE place
  /\ UNCHANGED <<userList, userApcPending, kernelApcInProgress, kernelApcDisable, wait,
                 raised, frames>>

\* KeInsertQueueApc of a user APC; the one that ends the thread goes to the front.
InsertUserApc(a) ==
  /\ a \in (User \union Exit) \ inserted
  /\ userList' = IF a \in Exit THEN <<a>> \o userList ELSE Append(userList, a)
  /\ inserted' = inserted \union {a}
  /\ userApcPending' = (userApcPending \/ a \in Exit \/ EndsWaitForUserApc)
  /\ place' = IF EndsWaitForUserApc THEN "Kernel" ELSE place
  /\ UNCHANGED <<kernelList, kernelApcPending, kernelApcInProgress, kernelApcDisable, wait,
                 raised, frames>>

\* KeRemoveQueueApc; an empty list has nothing pending.
KeRemoveQueueApc(a) ==
  /\ a \in Removable \cap inserted
  /\ kernelList' = Unlink(kernelList, a) /\ userList' = Unlink(userList, a)
  /\ inserted' = inserted \ {a}
  /\ kernelApcPending' =
       (kernelApcPending /\ (a \in Members(kernelList) => kernelList' # << >>))
  /\ userApcPending' = (userApcPending /\ (a \in Members(userList) => userList' # << >>))
  /\ UNCHANGED <<kernelApcInProgress, kernelApcDisable, thread, frames>>
-------------------------------------------------------------------------------
(* The thread's own code. *)

KeEnterCriticalRegion ==
  /\ OwnCode /\ place = "Kernel" /\ kernelApcDisable < MaxDisable
  /\ kernelApcDisable' = kernelApcDisable + 1
  /\ UNCHANGED <<lists, kernelApcPending, userApcPending, kernelApcInProgress, thread, frames>>

KeLeaveCriticalRegion ==
  /\ OwnCode /\ place = "Kernel" /\ kernelApcDisable > 0
  /\ kernelApcDisable' = kernelApcDisable - 1
  /\ kernelApcPending' = (kernelApcPending \/ (kernelApcDisable = 1 /\ kernelList # << >>))
  /\ UNCHANGED <<lists, userApcPending, kernelApcInProgress, thread, frames>>

\* KfRaiseIrql to APC_LEVEL and KfLowerIrql (the HAL).
KfRaiseIrql ==
  /\ OwnCode /\ place = "Kernel" /\ ~raised /\ raised' = TRUE
  /\ UNCHANGED <<lists, apcState, place, wait, frames>>
KfLowerIrql ==
  /\ OwnCode /\ place = "Kernel" /\ raised /\ raised' = FALSE
  /\ UNCHANGED <<lists, apcState, place, wait, frames>>

\* A system service, and the return from it with _KiServiceExit.
ServiceEntry ==
  /\ OwnCode /\ place = "User" /\ place' = "Kernel"
  /\ UNCHANGED <<lists, apcState, wait, raised, frames>>

_KiServiceExit ==
  /\ OwnCode /\ place = "Kernel" /\ ~raised /\ kernelApcDisable = 0
  /\ place' = "User"
  /\ IF userApcPending
       THEN frames' = Deeper("UserMode") /\ kernelApcPending' = FALSE
       ELSE UNCHANGED <<frames, kernelApcPending>>
  /\ UNCHANGED <<lists, userApcPending, kernelApcInProgress, kernelApcDisable, wait, raised>>

\* KeWaitForSingleObject for something not signaled; KiCheckAlertability makes user
\* APCs pending and does not keep the thread from blocking, a pending kernel APC
\* does: then it goes round the loop.
KeWaitForSingleObject(w) ==
  /\ OwnCode
  /\ \/ place = "Kernel"
     \/ place = "Retry" /\ w = wait
  /\ wait' = w
  /\ userApcPending' = (\/ userApcPending
                        \/ w.alertable /\ w.mode = "UserMode" /\ userList # << >>)
  /\ place' = IF kernelApcPending THEN "Retry" ELSE "Blocked"
  /\ UNCHANGED <<lists, kernelApcPending, kernelApcInProgress, kernelApcDisable, raised, frames>>

\* The wait is satisfied.
WaitEnds ==
  /\ place = "Blocked" \/ (place = "Retry" /\ OwnCode)
  /\ place' = "Kernel"
  /\ UNCHANGED <<lists, apcState, wait, raised, frames>>
-------------------------------------------------------------------------------
(* KiDeliverApc. *)

\* KiDeliverApc(KernelMode) is called.
KiDeliverApc ==
  /\ AtPassiveLevel /\ kernelApcPending
  /\ frames' = Deeper("KernelMode")
  /\ kernelApcPending' = FALSE
  /\ UNCHANGED <<lists, userApcPending, kernelApcInProgress, kernelApcDisable, thread>>

AtLists == frames # << >> /\ Top.at = "Lists"

Dequeue(a) ==
  /\ inserted' = inserted \ {a}
  /\ kernelList' = Unlink(kernelList, a) /\ userList' = Unlink(userList, a)

DeliverSpecial ==
  /\ AtLists /\ kernelList # << >> /\ Head(kernelList) \in Special
  /\ Dequeue(Head(kernelList))
  /\ frames' = MoveTo("Special")
  /\ UNCHANGED <<apcState, thread>>

\* Mutated: whether a normal routine runs is not looked at.
DisabledOnly == kernelApcDisable # 0

\* A normal APC has to wait for the end of another one and of critical regions.
HeldBack == kernelApcInProgress \/ kernelApcDisable # 0

DeliverNormal ==
  /\ AtLists /\ kernelList # << >> /\ Head(kernelList) \in Normal /\ ~HeldBack
  /\ Dequeue(Head(kernelList))
  /\ frames' = MoveTo("Kernel")
  /\ UNCHANGED <<apcState, thread>>

StopAtNormal ==
  /\ AtLists /\ kernelList # << >> /\ Head(kernelList) \in Normal /\ HeldBack
  /\ frames' = Return
  /\ UNCHANGED <<lists, apcState, thread>>

\* The kernel routine returns, having cleared the normal routine or not.
CallNormalRoutine ==
  /\ frames # << >> /\ Top.at = "Kernel"
  /\ kernelApcInProgress' = TRUE
  /\ frames' = MoveTo("Normal")
  /\ UNCHANGED <<lists, kernelApcPending, userApcPending, kernelApcDisable, thread>>

RoutineReturns ==
  /\ frames # << >>
  /\ \/ Top.at = "Special" /\ UNCHANGED kernelApcInProgress
     \/ Top.at = "Kernel" /\ kernelApcInProgress' = FALSE
     \/ Top.at = "Normal" /\ ~kernelApcPending /\ kernelApcInProgress' = FALSE
  /\ frames' = MoveTo("Lists")
  /\ UNCHANGED <<lists, kernelApcPending, userApcPending, kernelApcDisable, thread>>

NextUserApc == Head(userList)

\* The kernel list is empty: one user APC if the call is for user mode ...
DeliverUser ==
  /\ AtLists /\ kernelList = << >>
  /\ userList # << >> /\ Top.mode = "UserMode" /\ userApcPending
  /\ userApcPending' = FALSE
  /\ Dequeue(NextUserApc)
  /\ frames' = MoveTo("User")
  /\ UNCHANGED <<kernelApcPending, kernelApcInProgress, kernelApcDisable, thread>>

\* ... whose kernel routine leaves the normal routine to KiInitializeUserApc, or
\* none, and KeTestAlertThread looks for the next one ...
UserRoutineReturns ==
  /\ frames # << >> /\ Top.at = "User"
  /\ userApcPending' \in {userApcPending, userApcPending \/ userList # << >>}
  /\ frames' = Return
  /\ UNCHANGED <<lists, kernelApcPending, kernelApcInProgress, kernelApcDisable, thread>>

\* ... or nothing.
DeliverNothing ==
  /\ AtLists /\ kernelList = << >>
  /\ userList = << >> \/ Top.mode = "KernelMode" \/ ~userApcPending
  /\ frames' = Return
  /\ UNCHANGED <<lists, apcState, thread>>
-------------------------------------------------------------------------------
ApcInit ==
  /\ kernelList = << >> /\ userList = << >> /\ inserted = {}
  /\ kernelApcPending = FALSE /\ userApcPending = FALSE /\ kernelApcInProgress = FALSE
  /\ kernelApcDisable = 0
  /\ place = "User" /\ wait = [mode |-> "KernelMode", alertable |-> FALSE]
  /\ raised = FALSE /\ frames = << >>

Delivery ==
  \/ KiDeliverApc \/ DeliverSpecial \/ DeliverNormal \/ StopAtNormal
  \/ CallNormalRoutine \/ RoutineReturns
  \/ DeliverUser \/ UserRoutineReturns \/ DeliverNothing

ApcNext ==
  \/ \E a \in Apcs : InsertKernelApc(a) \/ InsertUserApc(a) \/ KeRemoveQueueApc(a)
  \/ KeEnterCriticalRegion \/ KeLeaveCriticalRegion \/ KfRaiseIrql \/ KfLowerIrql
  \/ ServiceEntry \/ _KiServiceExit
  \/ \E w \in Waits : KeWaitForSingleObject(w)
  \/ WaitEnds
  \/ Delivery

ApcSpec == ApcInit /\ [][ApcNext]_apcVars

\* The last of a region and of an IRQL that hold back normal routines is left.
LeavesRegionUnraised == KeLeaveCriticalRegion /\ ~raised
LowersOutside == KfLowerIrql /\ kernelApcDisable = 0

\* The thread is given the processor, its waits end, it leaves the critical regions
\* and releases the fast mutexes it takes, and is at times out of all of them.
FairApcSpec ==
  /\ ApcSpec
  /\ WF_apcVars(Delivery) /\ SF_apcVars(WaitEnds)
  /\ SF_apcVars(KeLeaveCriticalRegion) /\ SF_apcVars(LeavesRegionUnraised)
  /\ SF_apcVars(KfLowerIrql) /\ SF_apcVars(LowersOutside)
-------------------------------------------------------------------------------
\* Types of the fields.
ApcTypeOK ==
  /\ kernelList \in Seq(Special \union Normal) /\ userList \in Seq(User \union Exit)
  /\ inserted \subseteq Apcs
  /\ kernelApcPending \in BOOLEAN /\ userApcPending \in BOOLEAN
  /\ kernelApcInProgress \in BOOLEAN
  /\ kernelApcDisable \in 0 .. MaxDisable
  /\ place \in {"User", "Kernel", "Retry", "Blocked"} /\ wait \in Waits
  /\ raised \in BOOLEAN /\ frames \in Seq(Frames)

\* Inserted tells exactly whether the APC is in a list, and it is there once: the
\* kernel routine can free or queue it again.
InsertedIsLinked ==
  /\ inserted = Members(kernelList) \union Members(userList)
  /\ NoDuplicates(kernelList) /\ NoDuplicates(userList)

\* Normal routines never run one inside the other or in a critical region, though
\* KiDeliverApc is entered again while one runs, and KernelApcInProgress is set
\* exactly while one does.
NormalRoutinesAlone ==
  LET normal == {i \in DOMAIN frames : frames[i].at = "Normal"}
  IN  /\ Cardinality(normal) <= 1
      /\ kernelApcInProgress <=> normal # {}
      /\ normal # {} => kernelApcDisable = 0

\* Outside critical regions a kernel APC in the list of a thread that runs is
\* pending: none is left for good by a delivery that stopped, a removal or a
\* region that ended.
NoKernelApcStranded ==
  frames = << >> /\ place # "Blocked" /\ kernelApcDisable = 0 /\ kernelList # << >>
    => kernelApcPending

\* The APC that ends the thread is the next user APC, and pending, from the time
\* it is queued until it is delivered.
ExitApcIsNext ==
  inserted \cap Exit # {} => userApcPending /\ Head(userList) \in Exit

\* Normal routines never run one inside the other or in a critical region; outside such
\* regions a kernel APC of a running thread is pending, and the APC that ends a thread is
\* pending and next from the time it is queued.
ApcsAreDelivered ==
  /\ ApcTypeOK /\ InsertedIsLinked /\ NormalRoutinesAlone
  /\ NoKernelApcStranded /\ ExitApcIsNext

\* Every kernel APC is delivered or removed.
KernelApcDelivered ==
  \A a \in Special \union Normal : a \in inserted ~> a \notin inserted
-------------------------------------------------------------------------------
(* What comments of the code say and the code does not do. *)

\* "First, Special APCs are delivered, followed by Kernel-Mode APCs": no normal APC
\* is taken, or stopped at, with a special one in the list.
SpecialsFirst ==
  [][DeliverNormal \/ StopAtNormal => Members(kernelList) \cap Special = {}]_apcVars

\* "Kernel APC, The Thread is Waiting at PASSIVE_LEVEL and APCs are enabled and not
\* in progress: Unwait the Thread".
WaitingThreadIsWoken ==
  place = "Blocked" /\ ~raised /\ kernelApcDisable = 0 => kernelList = << >>
===============================================================================
