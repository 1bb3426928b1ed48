------------------------------- MODULE MCProgress ------------------------------
(***************************************************************************)
(* TLC instances of components with their fairness, side by side as in        *)
(* MCComponents: what must happen in the end.  part says which of them takes  *)
(* the steps of a behaviour, the others stay as they were initialised.        *)
(***************************************************************************)
EXTENDS Integers, Sequences, FiniteSets

CONSTANTS
  c1, c2,                    \* callers that suspend and resume
  s1, n1,                    \* APCs: special, normal
  i1, i2, i3, NoIrp,         \* IRPs
  user1, user2, remover,     \* requests of a device, the one that removes it
  h1, r1, r2, e1, e2, NoDescriptor, NoOne, \* users and removers of callbacks, callbacks
  u1, u2, w1, g1, x1         \* users of memory, a pager, a page, an entry of the paging file

VARIABLES
  part,
  \* KeApc
  kernelList, userList, inserted, kernelApcPending, userApcPending,
  kernelApcInProgress, kernelApcDisable, place, wait, raised, frames,
  \* KeDeviceQueue
  busy, list, queued, sortKey, currentIrp, pending,
  \* PsSuspend
  suspendCount, signalState, apcInserted, alerted, state, mutex, stage, countRead, calls, owed,
  alertResumed,
  \* IoIrp
  phase, location, index, routine, control, pendingReturned, cancelRoutine, context, master,
  irpCount, irpList, apcs, thread, sent, target, cancelWalk,
  \* IoRemoveLock
  ioCount, removed, removeEvent, removal, requests,
  \* CmCallbacks
  word, references, drained, op, hooks, registered, pendingDelete, freed, lock, doing, hook, made,
  \* MmPaging
  pte, rmap, saved, free, allocated, content, disk, value, reserved, area, pageOp, spaceLock,
  paging, addr, hand, swap, locks, tries, stopped

Apc == INSTANCE KeApc WITH
  Special <- {s1}, Normal <- {n1}, User <- {}, Exit <- {}, Removable <- {}, MaxDisable <- 1

\* A driver that uses no keys.
Devices == INSTANCE KeDeviceQueue WITH
  Irps <- {i1, i2, i3}, Keys <- {1}

Suspend == INSTANCE PsSuspend WITH
  Callers <- {c1, c2}, MaxCalls <- 4, Width <- 16, Maximum <- 2, AlertResumes <- FALSE,
  old <- countRead

Packets == INSTANCE IoIrp WITH
  Irps <- {i1, i2}, Associates <- {}, Depth <- 1, OfFile <- {i1}, WithApc <- {i2},
  Unqueued <- {}, walk <- cancelWalk

Removal == INSTANCE IoRemoveLock WITH
  Users <- {user1, user2}, Remover <- remover, MaxCalls <- 2, pc <- removal, calls <- requests

\* One user of the callbacks.
Hooks == INSTANCE CmCallbacks WITH
  Users <- {h1}, Drainers <- {r1, r2}, Refs <- {e1, e2}, MaxCount <- 4, MaxCalls <- 1,
  Fails <- FALSE, NoThread <- NoOne, event <- drained, list <- hooks, pc <- doing,
  entry <- hook, calls <- made

\* One address, that two threads fault on, a third pages out and one releases.
Memory == INSTANCE MmPaging WITH
  Users <- {u1, u2}, Releasers <- {u1}, Pagers <- {w1}, Size <- 1, Pages <- {g1}, Swaps <- {x1},
  None <- NoOne, MaxFaults <- 1, MaxTrims <- 2, WriteFails <- {"saved"},
  Locks <- FALSE, Decommits <- FALSE, Reallocates <- FALSE,
  op <- pageOp, lock <- spaceLock, pc <- paging, count <- tries

ASSUME ProgressAssumption ==
  /\ Memory!PagingAssumption
  /\ Packets!IrpAssumption /\ Removal!RemoveLockAssumption /\ Hooks!CallbacksAssumption
  /\ Apc!ApcAssumption /\ Devices!DeviceAssumption /\ Suspend!SuspendAssumption

apcVars     == <<kernelList, userList, inserted, kernelApcPending, userApcPending,
                 kernelApcInProgress, kernelApcDisable, place, wait, raised, frames>>
deviceVars  == <<busy, list, queued, sortKey, currentIrp, pending>>
suspendVars == <<suspendCount, signalState, apcInserted, alerted, state, mutex, stage, countRead,
                 calls, owed, alertResumed>>
packetVars  == <<phase, location, index, routine, control, pendingReturned, cancelRoutine,
                 context, master, irpCount, irpList, apcs, thread, sent, target, cancelWalk>>
removalVars == <<ioCount, removed, removeEvent, removal, requests>>
hookVars    == <<word, references, drained, op, hooks, registered, pendingDelete, freed, lock,
                 doing, hook, made>>
memoryVars  == <<pte, rmap, saved, free, allocated, content, disk, value, reserved, area, pageOp,
                 spaceLock, paging, addr, hand, swap, locks, tries, stopped>>
ioVars      == <<packetVars, removalVars, hookVars, memoryVars>>
vars == <<part, apcVars, deviceVars, suspendVars, ioVars>>

Init ==
  /\ part \in {"Apc", "Devices", "Suspend", "Packets", "Removal", "Hooks",
               "Memory"}
  /\ Apc!ApcInit /\ Devices!DeviceInit /\ Suspend!SuspendInit
  /\ Packets!Init /\ Removal!Init /\ Hooks!Init /\ Memory!Init
  /\ part # "Suspend" => ~alerted

\* A step of the component alone.
Delivers(step)   == part = "Apc" /\ step
  /\ UNCHANGED <<part, deviceVars, suspendVars, ioVars>>
Drives(step)     == part = "Devices" /\ step
  /\ UNCHANGED <<part, apcVars, suspendVars, ioVars>>
Suspends(step)   == part = "Suspend" /\ step
  /\ UNCHANGED <<part, apcVars, deviceVars, ioVars>>
OfPacket(step)   == part = "Packets" /\ step
  /\ UNCHANGED <<part, apcVars, deviceVars, suspendVars, removalVars, hookVars,
                    memoryVars>>
OfRemoval(step)  == part = "Removal" /\ step
  /\ UNCHANGED <<part, apcVars, deviceVars, suspendVars, packetVars, hookVars,
                    memoryVars>>
OfHooks(step)    == part = "Hooks" /\ step
  /\ UNCHANGED <<part, apcVars, deviceVars, suspendVars, packetVars, removalVars,
                    memoryVars>>
OfMemory(step)   == part = "Memory" /\ step
  /\ UNCHANGED <<part, apcVars, deviceVars, suspendVars, packetVars, removalVars,
                    hookVars>>

Next ==
  \/ Delivers(Apc!ApcNext) \/ Drives(Devices!NextTail) \/ Suspends(Suspend!SuspendNext)
  \/ OfPacket(Packets!Next) \/ OfRemoval(Removal!Next) \/ OfHooks(Hooks!Next)
  \/ OfMemory(Memory!Next)

\* The fairness each module states.  A behaviour has the steps of one part only, so that what
\* several parts are fair to is fair in each.
FairSpec ==
  /\ Init /\ [][Next]_vars
  /\ WF_vars(\/ Delivers(Apc!Delivery) \/ Drives(Devices!IoStartNextPacket)
             \/ Suspends(Suspend!Target) \/ OfPacket(Packets!Drivers)
             \/ OfRemoval(Removal!Goes(user1)) \/ OfHooks(Hooks!Goes(h1))
             \/ OfMemory(Memory!Goes(u1)))
  /\ WF_vars(\/ Suspends(Suspend!Caller(c1)) \/ OfPacket(Packets!DeliverApc)
             \/ OfRemoval(Removal!Goes(user2)) \/ OfHooks(Hooks!Goes(r1))
             \/ OfMemory(Memory!Goes(u2)))
  /\ WF_vars(\/ Suspends(Suspend!Caller(c2)) \/ OfPacket(Packets!EndWalk)
             \/ OfRemoval(Removal!Goes(remover)) \/ OfHooks(Hooks!Goes(r2))
             \/ OfMemory(Memory!Goes(w1)))
  /\ WF_vars(OfPacket(Packets!EndDelay))
  /\ \A i \in {i1, i2} : WF_vars(OfPacket(Packets!IoCancelIrp(i) \/ Packets!WalkOn(i)))
  /\ SF_vars(Delivers(Apc!WaitEnds)) /\ SF_vars(Delivers(Apc!KeLeaveCriticalRegion))
  /\ SF_vars(Delivers(Apc!LeavesRegionUnraised))
  /\ SF_vars(Delivers(Apc!KfLowerIrql)) /\ SF_vars(Delivers(Apc!LowersOutside))
-------------------------------------------------------------------------------
\* Nothing is held for ever: kernel APCs, packets, and threads no longer suspended.  Who waits
\* for others to leave returns: the walks that cancel a thread's packets, the request that
\* removes a device, which returns when no other uses it, the thread that unregisters a
\* registry callback, and a page fault on a page that others work on.
WaitersReturn ==
  /\ Apc!KernelApcDelivered /\ Devices!PacketIsServed /\ Suspend!ResumedThreadRuns
  /\ [](Packets!TypeOK /\ Removal!TypeOK /\ Removal!GoneIsUnused)
  /\ Packets!CancelEnds /\ Removal!RemoverReturns /\ Hooks!UnregisterReturns
  /\ Memory!FaultsReturn
===============================================================================
