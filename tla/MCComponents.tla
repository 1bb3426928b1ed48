----------------------------- MODULE MCComponents ------------------------------
(*****************************************************************************)
(* TLC instances of components that share no state, side by side: part says  *)
(* which of them takes the steps of a behaviour, the others stay as they     *)
(* were initialised. A component that is checked with several sets of        *)
(* constants has a part for each. First the parts of MmSection, then the     *)
(* components of the kernel and the processes. APCs, attaching to processes,  *)
(* device queues, suspension and resources are not instances but KeApc,       *)
(* KeApcState, KeDeviceQueue, PsSuspend and ExResource themselves, with       *)
(* their constants, variables and definitions.                               *)
(*****************************************************************************)
EXTENDS Integers, Sequences, FiniteSets, ExResource, KeApc, KeApcState,
        KeDeviceQueue, PsSuspend

CONSTANTS
  view1, view2, pager,          \* views of a section, a thread that pages out
  page1, page2, page3, swap1, swap2, NoPage

VARIABLES
  part,
  views, protect, mappings, segmentEntries, pages, swaps, cached, lastWritten, ownCopy, segmentOps,
  segmentLock, threads, tries, sectionThere, bugCheck

\* Views of a section in the paging file, with a pager and every write that may fail, with two
\* threads of one process, and unmapped; of one in a file, with a pager and at two offsets; of
\* an image, whose protection changes, from the cache and copied; and of one in a file with
\* views that are unmapped while others work on the page.
Section == INSTANCE MmSection WITH
  Views <- {view1, view2}, PerView <- 1, Shifted <- {}, Unmappers <- {}, Protectors <- {},
  Pagers <- {pager}, Pages <- {page1, page2}, Swaps <- {swap1}, None <- NoPage, Kind <- "pagefile",
  Overlaps <- FALSE, ShiftedWaits <- FALSE, WriteFails <- {"saved", "fresh"}, MaxFaults <- 3, MaxTrims <- 2,
  entries <- segmentEntries, attempts <- tries
SectionThreads == INSTANCE MmSection WITH
  Views <- {view1}, PerView <- 2, Shifted <- {}, Unmappers <- {}, Protectors <- {},
  Pagers <- {pager}, Pages <- {page1, page2}, Swaps <- {swap1}, None <- NoPage, Kind <- "pagefile",
  Overlaps <- FALSE, ShiftedWaits <- FALSE, WriteFails <- {"saved", "fresh"}, MaxFaults <- 3, MaxTrims <- 2,
  entries <- segmentEntries, attempts <- tries
SectionUnmaps == INSTANCE MmSection WITH
  Views <- {view1, view2}, PerView <- 1, Shifted <- {}, Unmappers <- {view1, view2}, Protectors <- {},
  Pagers <- {}, Pages <- {page1, page2}, Swaps <- {swap1}, None <- NoPage, Kind <- "pagefile",
  Overlaps <- FALSE, ShiftedWaits <- FALSE, WriteFails <- {}, MaxFaults <- 4, MaxTrims <- 0,
  entries <- segmentEntries, attempts <- tries
SectionFile == INSTANCE MmSection WITH
  Views <- {view1, view2}, PerView <- 1, Shifted <- {}, Unmappers <- {view1, view2}, Protectors <- {},
  Pagers <- {pager}, Pages <- {page1, page2}, Swaps <- {swap1}, None <- NoPage, Kind <- "data",
  Overlaps <- FALSE, ShiftedWaits <- FALSE, WriteFails <- {}, MaxFaults <- 3, MaxTrims <- 2,
  entries <- segmentEntries, attempts <- tries
SectionOffsets == INSTANCE MmSection WITH
  Views <- {view1, view2}, PerView <- 1, Shifted <- {view2}, Unmappers <- {view1, view2}, Protectors <- {},
  Pagers <- {}, Pages <- {page1, page2, page3}, Swaps <- {swap1}, None <- NoPage, Kind <- "data",
  Overlaps <- FALSE, ShiftedWaits <- FALSE, WriteFails <- {}, MaxFaults <- 3, MaxTrims <- 0,
  entries <- segmentEntries, attempts <- tries
SectionImage == INSTANCE MmSection WITH
  Views <- {view1, view2}, PerView <- 1, Shifted <- {}, Unmappers <- {view1}, Protectors <- {view1},
  Pagers <- {pager}, Pages <- {page1, page2}, Swaps <- {swap1, swap2}, None <- NoPage, Kind <- "image",
  Overlaps <- FALSE, ShiftedWaits <- FALSE, WriteFails <- {}, MaxFaults <- 3, MaxTrims <- 2,
  entries <- segmentEntries, attempts <- tries
SectionCopied == INSTANCE MmSection WITH
  Views <- {view1, view2}, PerView <- 1, Shifted <- {}, Unmappers <- {view1, view2}, Protectors <- {},
  Pagers <- {pager}, Pages <- {page1, page2}, Swaps <- {swap1}, None <- NoPage, Kind <- "copied",
  Overlaps <- FALSE, ShiftedWaits <- FALSE, WriteFails <- {"saved"}, MaxFaults <- 3, MaxTrims <- 2,
  entries <- segmentEntries, attempts <- tries
SectionRaces == INSTANCE MmSection WITH
  Views <- {view1, view2}, PerView <- 1, Shifted <- {}, Unmappers <- {view1, view2}, Protectors <- {},
  Pagers <- {pager}, Pages <- {page1, page2}, Swaps <- {swap1}, None <- NoPage, Kind <- "data",
  Overlaps <- TRUE, ShiftedWaits <- FALSE, WriteFails <- {}, MaxFaults <- 3, MaxTrims <- 1,
  entries <- segmentEntries, attempts <- tries

SectionAssumption ==
  /\ Section!SectionAssumption /\ SectionThreads!SectionAssumption
  /\ SectionUnmaps!SectionAssumption /\ SectionFile!SectionAssumption
  /\ SectionOffsets!SectionAssumption /\ SectionImage!SectionAssumption
  /\ SectionCopied!SectionAssumption /\ SectionRaces!SectionAssumption

segmentVars  == <<views, protect, mappings, segmentEntries, pages, swaps, cached, lastWritten,
                  ownCopy, segmentOps, segmentLock, threads, tries, sectionThere, bugCheck>>
SectionParts == {"Section", "SectionThreads", "SectionUnmaps", "SectionFile", "SectionOffsets",
                 "SectionImage", "SectionCopied", "SectionRaces"}

SectionInit ==
  CASE part = "SectionThreads" -> SectionThreads!Init
    [] part = "SectionUnmaps"  -> SectionUnmaps!Init
    [] part = "SectionOffsets" -> SectionOffsets!Init
    [] part = "SectionImage"   -> SectionImage!Init
    [] OTHER                   -> Section!Init

SectionNext ==
  \/ part = "Section" /\ Section!Next
  \/ part = "SectionThreads" /\ SectionThreads!Next
  \/ part = "SectionUnmaps" /\ SectionUnmaps!Next
  \/ part = "SectionFile" /\ SectionFile!Next
  \/ part = "SectionOffsets" /\ SectionOffsets!Next
  \/ part = "SectionImage" /\ SectionImage!Next
  \/ part = "SectionCopied" /\ SectionCopied!Next
  \/ part = "SectionRaces" /\ SectionRaces!Next
-------------------------------------------------------------------------------
\* What is written through a view of a section is what every view of it reads, and what a view
\* has of its own stays its own, however the page is shared, copied, paged out, paged in, given
\* back to the cache and unmapped; the segment counts the views that share a page, each page
\* has the references of its owners, the cache knows which of its segments are mapped, nothing
\* outlives the section, and the system does not stop.  Where views go while others work on the
\* page, the counts hold.
SectionsHold ==
  /\ part = "Section" => Section!CountsHold /\ Section!SegmentKept
  /\ part = "SectionThreads" => SectionThreads!CountsHold /\ SectionThreads!SegmentKept
  /\ part = "SectionUnmaps" => SectionUnmaps!CountsHold /\ SectionUnmaps!SegmentKept
  /\ part = "SectionFile" => SectionFile!CountsHold /\ SectionFile!SegmentKept
  /\ part = "SectionOffsets" => SectionOffsets!CountsHold /\ SectionOffsets!SegmentKept
  /\ part = "SectionImage" => SectionImage!CountsHold /\ SectionImage!SegmentKept
  /\ part = "SectionCopied" => SectionCopied!CountsHold /\ SectionCopied!SegmentKept
  /\ part = "SectionRaces" => SectionRaces!CountsHold
--------------------------------------------------------------------------------
(* The kernel and the processes. *)

CONSTANTS
  setter1, setter2, leaver1, leaver2,  \* threads that lock their process
  t1, t2, t3, out, head  \* threads of a process, another one, the list head

VARIABLES
  \* PsProcessLock
  owner, count, lockEvent, ended, at, attempts, region, made, inside, left,
  \* PsTermination
  flink, blink, doing, creator, flags, apc, neighbours, locker, last, terminated, closes, walk

\* Threads that do not meet the lock taken three times, and threads that may.
ProcessLock == INSTANCE PsProcessLock WITH
  Setters <- {setter1, setter2}, Leavers <- {leaver1, leaver2}, MaxCalls <- 1, Width <- 8,
  Patience <- TRUE, Late <- FALSE, event <- lockEvent, terminated <- ended, pc <- at,
  calls <- made
ContendedLock == INSTANCE PsProcessLock WITH
  Setters <- {setter1, setter2}, Leavers <- {leaver1}, MaxCalls <- 2, Width <- 8,
  Patience <- FALSE, Late <- FALSE, event <- lockEvent, terminated <- ended, pc <- at,
  calls <- made

Termination == INSTANCE PsTermination WITH
  Threads <- {t1, t2, t3}, First <- t1, ListHead <- head, Killers <- {out}, Outside <- out,
  Remote <- FALSE, Fails <- TRUE, Overlap <- {}, Held <- FALSE, old <- neighbours,
  pc <- doing

ASSUME ComponentsAssumption ==
  /\ ApcAssumption /\ ApcStateAssumption /\ DeviceAssumption /\ SuspendAssumption
  /\ ProcessLock!LockAssumption /\ ContendedLock!LockAssumption
  /\ Termination!TerminationAssumption /\ SectionAssumption /\ ResourceAssumption

lockVars    == <<owner, count, lockEvent, ended, at, attempts, region, made, inside, left>>
threadVars  == <<flink, blink, doing, creator, flags, apc, neighbours, locker, last,
                 terminated, closes, walk>>
kernelVars  == <<apcVars, attachVars, deviceVars, suspendVars, lockVars, threadVars>>
\* vars, Init and Next are those of ExResource; apcVars, attachVars, deviceVars and suspendVars
\* those of the other modules that are extended.
allVars     == <<part, kernelVars, segmentVars, vars>>

ComponentsInit ==
  /\ part \in {"Apc", "Attach", "Devices", "Suspend", "ProcessLock",
               "ContendedLock", "Termination", "Resource"} \cup SectionParts
  /\ ApcInit /\ AttachInit /\ DeviceInit /\ SuspendInit /\ ProcessLock!Init
  /\ Termination!Init /\ SectionInit /\ Init
  /\ part # "Suspend" => ~alerted

ApcStep     == part = "Apc" /\ ApcNext
                 /\ UNCHANGED <<attachVars, deviceVars, suspendVars, lockVars, threadVars>>
AttachStep  == part = "Attach" /\ AttachNext
                 /\ UNCHANGED <<apcVars, deviceVars, suspendVars, lockVars, threadVars>>
DevicesStep == part = "Devices" /\ DeviceNext
                 /\ UNCHANGED <<apcVars, attachVars, suspendVars, lockVars, threadVars>>
SuspendStep == part = "Suspend" /\ SuspendNext
                 /\ UNCHANGED <<apcVars, attachVars, deviceVars, lockVars, threadVars>>
LockStep ==
  /\ \/ part = "ProcessLock" /\ ProcessLock!Next
     \/ part = "ContendedLock" /\ ContendedLock!Next
  /\ UNCHANGED <<apcVars, attachVars, deviceVars, suspendVars, threadVars>>
TerminationStep == part = "Termination" /\ Termination!Next
                 /\ UNCHANGED <<apcVars, attachVars, deviceVars, suspendVars, lockVars>>

KernelNext ==
  ApcStep \/ AttachStep \/ DevicesStep \/ SuspendStep \/ LockStep \/ TerminationStep

ComponentsNext ==
  /\ \/ KernelNext /\ UNCHANGED <<segmentVars, vars>>
     \/ SectionNext /\ UNCHANGED <<kernelVars, vars>>
     \/ part = "Resource" /\ Next /\ UNCHANGED <<kernelVars, segmentVars>>
  /\ UNCHANGED part

ComponentsSpec == ComponentsInit /\ [][ComponentsNext]_allVars
-------------------------------------------------------------------------------
\* The properties of the components, each with the types of its fields.  Those of the modules
\* that are extended are ApcsAreDelivered, AttachmentsNest, PacketsServedInOrder,
\* SuspensionHolds and ResourcesHandedOn; their variables stay as they begin in the other parts.

\* One thread at most is inside the process lock, and owns it, where none has to wait
\* for it; and all ways through the lock enable kernel APCs again.
OneInside ==
  /\ part = "ProcessLock" => /\ ProcessLock!TypeOK /\ ProcessLock!OneInside
                             /\ ProcessLock!InsideOwns /\ ProcessLock!IdleIsFree
  /\ part = "ContendedLock" => ContendedLock!RegionsBalanced

\* Whoever kills a process has told every thread that can still run, and the handle
\* table is deleted once.
KillReachesAll ==
  part = "Termination" =>
    Termination!TypeOK /\ Termination!KillReachesAll /\ Termination!ClosedOnce
================================================================================
