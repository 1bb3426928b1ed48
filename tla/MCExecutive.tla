------------------------------ MODULE MCExecutive ------------------------------
(*****************************************************************************)
(* TLC instances of components that share no state, side by side as in       *)
(* MCComponents: of the memory manager and the cache manager; of the I/O     *)
(* manager and the byte range locks of the file systems; and of the          *)
(* executive, rundown protection and the registry callbacks that use it,     *)
(* callback objects, handle tables and objects.                              *)
(*****************************************************************************)
EXTENDS Integers, Sequences, FiniteSets
--------------------------------------------------------------------------------
(* Memory and cache. *)

CONSTANTS
  b1, b2, balancer,       \* threads that request and release pages, the balancer
  u1, u2, w1, w2,         \* threads that use an area, threads that page out
  g1, g2, g3, s1, NoPage, \* physical pages, an entry of the paging file
  NoArea

VARIABLES
  part,
  \* MmBalance
  pageRefs, holders, nonPaged, pagesUsed, requests, handed, balancerEvent, errand, released,
  after, canWait,
  \* MmPaging
  pte, rmap, saved, free, allocated, content, disk, value, reserved, area, pageOp, spaceLock,
  paging, addr, hand, swap, locks, tries, stopped,
  \* MmArea, MmRegion
  tree, areaSize, regions, mapped, asked, written

\* Pages of one thread, with a nonpaged pool; pages that several threads may map, with a
\* balancer that itself asks for one.
Balance == INSTANCE MmBalance WITH
  Threads <- {b1, b2}, Balancer <- balancer, Pages <- {g1, g2, g3}, Minimum <- 2, Slack <- 1,
  Target <- 3, MaxNonPaged <- 1, MaxUsed <- 4, Shares <- FALSE, TrimsAllocate <- FALSE,
  refCount <- pageRefs, list <- requests, granted <- handed, pc <- errand, page <- released,
  next <- after
SharedPages == INSTANCE MmBalance WITH
  Threads <- {b1, b2}, Balancer <- balancer, Pages <- {g1, g2, g3}, Minimum <- 2, Slack <- 1,
  Target <- 2, MaxNonPaged <- 0, MaxUsed <- 2, Shares <- TRUE, TrimsAllocate <- TRUE,
  refCount <- pageRefs, list <- requests, granted <- handed, pc <- errand, page <- released,
  next <- after

\* One pager, one release, and writes that fail with the page's own entry; and everything at
\* once.
Paging == INSTANCE MmPaging WITH
  Users <- {u1, u2}, Releasers <- {u1}, Pagers <- {w1}, Size <- 2, Pages <- {g1, g2},
  Swaps <- {s1}, None <- NoPage, MaxFaults <- 2, MaxTrims <- 2, WriteFails <- {"saved"},
  Locks <- FALSE, Decommits <- FALSE, Reallocates <- FALSE,
  op <- pageOp, lock <- spaceLock, pc <- paging, count <- tries
PagingRaces == INSTANCE MmPaging WITH
  Users <- {u1, u2}, Releasers <- {u1, u2}, Pagers <- {w1, w2}, Size <- 1, Pages <- {g1},
  Swaps <- {s1}, None <- NoPage, MaxFaults <- 2, MaxTrims <- 1, WriteFails <- {"saved", "fresh"},
  Locks <- TRUE, Decommits <- TRUE, Reallocates <- TRUE,
  op <- pageOp, lock <- spaceLock, pc <- paging, count <- tries

\* Areas of one and two pages at any page and at every other, up to as many as a balanced tree
\* holds above the depth where it is rebalanced.
Areas == INSTANCE MmArea WITH
  None <- NoArea, Lowest <- 1, Kernel <- 8, Lengths <- {1, 2}, Granularities <- {1, 2},
  MaxAreas <- 6, Limit <- 3, size <- areaSize

\* Calls within one region of four pages, with two protections, and calls that span regions.
Regions == INSTANCE MmRegion WITH Size <- 4, Protects <- {"RW"}, Spans <- FALSE
RegionKinds == INSTANCE MmRegion WITH Size <- 3, Protects <- {"RW", "RO"}, Spans <- FALSE
RegionSpans == INSTANCE MmRegion WITH Size <- 3, Protects <- {"RW"}, Spans <- TRUE

MmAssumption ==
  /\ Areas!AreaAssumption /\ Regions!RegionAssumption /\ RegionKinds!RegionAssumption
  /\ RegionSpans!RegionAssumption
  /\ Balance!BalanceAssumption /\ SharedPages!BalanceAssumption
  /\ Paging!PagingAssumption /\ PagingRaces!PagingAssumption

balanceVars == <<pageRefs, holders, nonPaged, pagesUsed, requests, handed, balancerEvent, errand,
                 released, after, canWait>>
pagingVars  == <<pte, rmap, saved, free, allocated, content, disk, value, reserved, area, pageOp,
                 spaceLock, paging, addr, hand, swap, locks, tries, stopped>>
areaVars    == <<tree, areaSize>>
regionVars  == <<regions, mapped, asked, written>>
mmVars      == <<balanceVars, pagingVars, areaVars, regionVars>>

RegionParts == {"Regions", "RegionKinds", "RegionSpans"}
MmParts     == {"Balance", "SharedPages", "Paging", "PagingRaces", "Areas"} \cup RegionParts

\* Only a part that has regions begins with one of every kind.
MmInit ==
  /\ Balance!Init /\ Areas!Init
  /\ CASE part = "RegionKinds" -> RegionKinds!Init
       [] part = "RegionSpans" -> RegionSpans!Init
       [] OTHER                -> Regions!Init
  /\ part \notin RegionParts => regions[1].kind = <<"RESERVE", "NOACCESS">>
  /\ IF part = "PagingRaces" THEN PagingRaces!Init ELSE Paging!Init

BalanceStep ==
  /\ \/ part = "Balance" /\ Balance!Next
     \/ part = "SharedPages" /\ SharedPages!Next
  /\ UNCHANGED <<pagingVars, areaVars, regionVars>>
PagingStep ==
  /\ \/ part = "Paging" /\ Paging!Next
     \/ part = "PagingRaces" /\ PagingRaces!Next
  /\ UNCHANGED <<balanceVars, areaVars, regionVars>>

AreaStep ==
  /\ part = "Areas" /\ Areas!Next
  /\ UNCHANGED <<balanceVars, pagingVars, regionVars>>
RegionStep ==
  /\ \/ part = "Regions" /\ Regions!Next
     \/ part = "RegionKinds" /\ RegionKinds!Next
     \/ part = "RegionSpans" /\ RegionSpans!Next
  /\ UNCHANGED <<balanceVars, pagingVars, areaVars>>

MmNext == BalanceStep \/ PagingStep \/ AreaStep \/ RegionStep
-------------------------------------------------------------------------------
\* Every reference to a page is somebody's, so that none is given out twice; a thread that
\* found enough free pages gets one, and one that did not is in the list, once, until it is
\* handed one; and the consumer's count is of its pages, where a page has one reference.
\* What was written to memory is what is read there, however it is paged out and in while
\* others fault on it and release it, which waits for them; and where one thread pages out
\* and none decommits or locks, each page and each entry of the paging file has one use, and
\* the system does not stop.
MemoryIsKept ==
  /\ part = "Balance" =>
       /\ Balance!TypeOK /\ Balance!PagesHaveOwners /\ Balance!AllocationSucceeds
       /\ Balance!WaitersAreListed /\ Balance!UsedIsCounted
  /\ part = "SharedPages" =>
       /\ SharedPages!TypeOK /\ SharedPages!PagesHaveOwners /\ SharedPages!AllocationSucceeds
       /\ SharedPages!WaitersAreListed
  /\ part = "Paging" =>
       /\ Paging!TypeOK /\ Paging!NothingLost /\ Paging!PagesHaveOneUse
       /\ Paging!EntriesHaveOneUse /\ Paging!FreeWaitsForOps /\ Paging!NoBugCheck
  /\ part = "PagingRaces" =>
       PagingRaces!TypeOK /\ PagingRaces!NothingLost /\ PagingRaces!FreeWaitsForOps

\* The areas of an address space are all in its tree, in order and apart from each other, its
\* links up and down agree through rebalancing and removal, and an address, a conflict and a
\* gap that is there are found.  The regions of an area are of the kinds that were asked for,
\* and so is the protection of the pages in use, where no call spans regions.
AreasHold ==
  /\ part = "Areas" =>
       /\ Areas!TypeOK /\ Areas!AllReached /\ Areas!ParentsAgree /\ Areas!IterationIsSorted
       /\ Areas!FindsAreas /\ Areas!FindsGaps /\ Areas!StaysShallow
  /\ part = "Regions" =>
       Regions!TypeOK /\ Regions!RegionsFollowCalls /\ Regions!PagesFollowCalls
  /\ part = "RegionKinds" =>
       RegionKinds!TypeOK /\ RegionKinds!RegionsFollowCalls /\ RegionKinds!PagesFollowCalls
  /\ part = "RegionSpans" => RegionSpans!TypeOK /\ RegionSpans!RegionsFollowCalls
--------------------------------------------------------------------------------
(* The cache manager. *)

CONSTANTS
  v1, v2, writer, k1, k2, k3, NoView,  \* users of the cache, the writer, cache segments
  x1, x2, lazy, remover, z1, z2, z3, NoMap  \* file objects, threads that close, BCBs

VARIABLES
  \* CcView
  seg, lru, dirtyList, freePages, behind, view, viewing, segment, viewCall, first, garbage,
  last, viewCalls,
  \* CcFileCache
  cacheMap, bcbs, bcbRefs, removes, closedBcbs, privateMaps, sections, caching, deleting,
  cacheCalls

\* Two users of one page; one user of two pages, of which one is in memory; two pages read in
\* one call; and two users with a balancer that runs before a segment's lock is released.
Views == INSTANCE CcView WITH
  Users <- {v1, v2}, Writer <- writer, Balancer <- balancer, Segments <- {k1, k2},
  Offsets <- {1}, None <- NoView, NumPages <- 1, MaxCalls <- 1, Fails <- TRUE,
  LateUnlock <- FALSE, Chains <- FALSE,
  pc <- viewing, at <- segment, call <- viewCall, held <- first, calls <- viewCalls
ViewsInTurn == INSTANCE CcView WITH
  Users <- {v1}, Writer <- writer, Balancer <- balancer, Segments <- {k1, k2},
  Offsets <- {1, 2}, None <- NoView, NumPages <- 1, MaxCalls <- 3, Fails <- TRUE,
  LateUnlock <- FALSE, Chains <- FALSE,
  pc <- viewing, at <- segment, call <- viewCall, held <- first, calls <- viewCalls
ViewChains == INSTANCE CcView WITH
  Users <- {v1}, Writer <- writer, Balancer <- balancer, Segments <- {k1, k2, k3},
  Offsets <- {1, 2}, None <- NoView, NumPages <- 2, MaxCalls <- 2, Fails <- FALSE,
  LateUnlock <- FALSE, Chains <- TRUE,
  pc <- viewing, at <- segment, call <- viewCall, held <- first, calls <- viewCalls
ViewRaces == INSTANCE CcView WITH
  Users <- {v1, v2}, Writer <- writer, Balancer <- balancer, Segments <- {k1, k2},
  Offsets <- {1}, None <- NoView, NumPages <- 1, MaxCalls <- 1, Fails <- TRUE,
  LateUnlock <- TRUE, Chains <- FALSE,
  pc <- viewing, at <- segment, call <- viewCall, held <- first, calls <- viewCalls

\* A file system that lets no one else in while it reads the cache map; and one that does.
Caches == INSTANCE CcFileCache WITH
  Files <- {x1, x2}, Lazy <- lazy, Remover <- remover, Bcbs <- {z1, z2, z3}, None <- NoMap,
  MaxCalls <- 3, Interrupts <- FALSE, DataSections <- FALSE,
  shared <- cacheMap, used <- bcbs, refs <- bcbRefs, closed <- closedBcbs,
  private <- privateMaps, pc <- caching, at <- deleting, calls <- cacheCalls
CacheRaces == INSTANCE CcFileCache WITH
  Files <- {x1, x2}, Lazy <- lazy, Remover <- remover, Bcbs <- {z1, z2, z3}, None <- NoMap,
  MaxCalls <- 2, Interrupts <- TRUE, DataSections <- TRUE,
  shared <- cacheMap, used <- bcbs, refs <- bcbRefs, closed <- closedBcbs,
  private <- privateMaps, pc <- caching, at <- deleting, calls <- cacheCalls

CcAssumption ==
  /\ Views!ViewAssumption /\ ViewsInTurn!ViewAssumption
  /\ ViewChains!ViewAssumption /\ ViewRaces!ViewAssumption
  /\ Caches!CacheAssumption /\ CacheRaces!CacheAssumption

viewVars  == <<seg, lru, dirtyList, freePages, behind, view, viewing, segment, viewCall, first,
               garbage, last, viewCalls>>
cacheVars == <<cacheMap, bcbs, bcbRefs, removes, closedBcbs, privateMaps, sections, caching,
               deleting, cacheCalls>>
ccVars    == <<viewVars, cacheVars>>

CcParts == {"Views", "ViewsInTurn", "ViewChains", "ViewRaces", "Caches", "CacheRaces"}

CcInit ==
  /\ CASE part = "ViewsInTurn" -> ViewsInTurn!Init
       [] part = "ViewChains"  -> ViewChains!Init
       [] OTHER                -> Views!Init
  /\ Caches!Init

ViewStep ==
  /\ \/ part = "Views" /\ Views!Next
     \/ part = "ViewsInTurn" /\ ViewsInTurn!Next
     \/ part = "ViewChains" /\ ViewChains!Next
     \/ part = "ViewRaces" /\ ViewRaces!Next
  /\ UNCHANGED cacheVars
CacheStep ==
  /\ \/ part = "Caches" /\ Caches!Next
     \/ part = "CacheRaces" /\ CacheRaces!Next
  /\ UNCHANGED viewVars

CcNext == ViewStep \/ CacheStep
-------------------------------------------------------------------------------
\* A part of a file is in one cache segment as long as somebody refers to it, which its count
\* says; a part whose last data are not in the file is in a segment that is dirty or at work,
\* and one that is dirty is listed to be written; and the balancer does not wait for a thread
\* that waits for it, unless a chain of segments is read.  Where the balancer comes before the
\* lock of a segment is released, all but the first holds.
\* The BCB of a file stays while a file object, a section or a deletion refers to it, which
\* its count says, and is in the list of closed ones while nobody does; where nobody gets in
\* between, no thread meets one that is gone and no assertion fails.
CacheHolds ==
  /\ part = "Views" =>
       /\ Views!TypeOK /\ Views!SegmentsStay /\ Views!RefsAccounted /\ Views!NothingLost
       /\ Views!DirtyIsListed /\ Views!NoBugCheck /\ Views!BalancerGoesOn
  /\ part = "ViewsInTurn" =>
       /\ ViewsInTurn!TypeOK /\ ViewsInTurn!SegmentsStay /\ ViewsInTurn!RefsAccounted
       /\ ViewsInTurn!NothingLost /\ ViewsInTurn!DirtyIsListed /\ ViewsInTurn!NoBugCheck
       /\ ViewsInTurn!BalancerGoesOn
  /\ part = "ViewChains" =>
       /\ ViewChains!TypeOK /\ ViewChains!SegmentsStay /\ ViewChains!RefsAccounted
       /\ ViewChains!NothingLost /\ ViewChains!DirtyIsListed /\ ViewChains!NoBugCheck
  /\ part = "ViewRaces" =>
       /\ ViewRaces!TypeOK /\ ViewRaces!RefsAccounted /\ ViewRaces!NothingLost
       /\ ViewRaces!DirtyIsListed /\ ViewRaces!NoBugCheck
  /\ part = "Caches" =>
       /\ Caches!TypeOK /\ Caches!CacheStays /\ Caches!ReferencesCounted /\ Caches!ClosedAreUnused
       /\ Caches!NothingStale /\ Caches!ReferenceAsserts
  /\ part = "CacheRaces" =>
       /\ CacheRaces!TypeOK /\ CacheRaces!CacheStays /\ CacheRaces!ReferencesCounted
       /\ CacheRaces!ClosedAreUnused
--------------------------------------------------------------------------------
(* The I/O manager and the file systems' locks. *)

CONSTANTS
  i1, i2, i3, q1, q2, NoIrp,  \* packets, associated packets
  f1, f2, unlocker            \* owners of file locks, a thread that unlocks

VARIABLES
  \* IoIrp
  phase, location, index, routine, control, pendingReturned, cancelRoutine, context, master,
  irpCount, irpList, apcs, thread, sent, target, walk,
  \* FsFileLock
  request, lockState, granted, waiting, cancel, cancelRoutines, hint, frames, toc

\* Two packets, one of them of a file, or one that calls for an APC of the user; one on a
\* longer stack; one that is split, with one that was not queued.
Packets == INSTANCE IoIrp WITH
  Irps <- {i1, i2}, Associates <- {}, Depth <- 2, OfFile <- {i1}, WithApc <- {}, Unqueued <- {}
UserApcs == INSTANCE IoIrp WITH
  Irps <- {i1, i2}, Associates <- {}, Depth <- 2, OfFile <- {i1}, WithApc <- {i2}, Unqueued <- {}
Deep == INSTANCE IoIrp WITH
  Irps <- {i1}, Associates <- {}, Depth <- 3, OfFile <- {i1}, WithApc <- {}, Unqueued <- {}
Split == INSTANCE IoIrp WITH
  Irps <- {i1, i2}, Associates <- {q1, q2}, Depth <- 1, OfFile <- {i1}, WithApc <- {},
  Unqueued <- {i2}

\* Exclusive and shared locks that overlap, nest and touch.
Ranges ==
  {[owner |-> f1, key |-> 1, start |-> 0, length |-> 2, exclusive |-> TRUE],
   [owner |-> f1, key |-> 2, start |-> 1, length |-> 2, exclusive |-> FALSE],
   [owner |-> f2, key |-> 1, start |-> 0, length |-> 4, exclusive |-> FALSE],
   [owner |-> f2, key |-> 1, start |-> 3, length |-> 1, exclusive |-> TRUE]}

\* A file system that lets one call in at a time, whose requests are not cancelled; and one
\* that does neither and may close the file.
FileLocks == INSTANCE FsFileLock WITH
  Irps <- {i1, i2, i3}, Unlockers <- {unlocker}, Requests <- Ranges, Width <- 4,
  Complains <- FALSE, Cancels <- FALSE, Synchronized <- TRUE, Closes <- FALSE,
  state <- lockState, pending <- waiting, routine <- cancelRoutines
FileLockRaces == INSTANCE FsFileLock WITH
  Irps <- {i1, i2}, Unlockers <- {unlocker}, Requests <- Ranges, Width <- 4,
  Complains <- TRUE, Cancels <- TRUE, Synchronized <- FALSE, Closes <- TRUE,
  state <- lockState, pending <- waiting, routine <- cancelRoutines

IoAssumption ==
  /\ Packets!IrpAssumption /\ UserApcs!IrpAssumption /\ Deep!IrpAssumption /\ Split!IrpAssumption
  /\ FileLocks!FileLockAssumption /\ FileLockRaces!FileLockAssumption

packetVars   == <<phase, location, index, routine, control, pendingReturned, cancelRoutine,
                  context, master, irpCount, irpList, apcs, thread, sent, target, walk>>
fileLockVars == <<request, lockState, granted, waiting, cancel, cancelRoutines, hint, frames, toc>>
ioVars       == <<packetVars, fileLockVars>>

IoParts == {"Packets", "UserApcs", "Deep", "Split", "FileLocks", "FileLockRaces"}

\* Only a part that has file locks begins with requests of every kind.
IoInit ==
  /\ CASE part = "Deep"  -> Deep!Init
       [] part = "Split" -> Split!Init
       [] OTHER          -> Packets!Init
  /\ IF part = "FileLockRaces" THEN FileLockRaces!Init ELSE FileLocks!Init
  /\ part \notin {"FileLocks", "FileLockRaces"} =>
       request = [i \in {i1, i2, i3} |-> CHOOSE r \in Ranges : TRUE]

PacketsStep ==
  /\ \/ part = "Packets" /\ Packets!Next
     \/ part = "UserApcs" /\ UserApcs!Next
     \/ part = "Deep" /\ Deep!Next
     \/ part = "Split" /\ Split!Next
  /\ UNCHANGED fileLockVars
FileLockStep ==
  /\ \/ part = "FileLocks" /\ FileLocks!Next
     \/ part = "FileLockRaces" /\ FileLockRaces!Next
  /\ UNCHANGED packetVars

IoNext == PacketsStep \/ FileLockStep
-------------------------------------------------------------------------------
\* A packet is in its thread's list from when it is queued until its second stage, which runs
\* once; a walk that cancels never stands at a packet that has left the list; a split packet
\* waits for its parts; and a thread that ends leaves no packet behind, where no user APC was
\* asked for and every packet was queued.
PacketsAreListed ==
  /\ part \in {"Packets", "UserApcs"} =>
       /\ Packets!TypeOK /\ Packets!WalkStaysOnList /\ Packets!ListedUntilSecondStage
       /\ part = "Packets" => Packets!ExitLeavesNothing
  /\ part = "Deep" =>
       Deep!TypeOK /\ Deep!WalkStaysOnList /\ Deep!ListedUntilSecondStage /\ Deep!ExitLeavesNothing
  /\ part = "Split" =>
       Split!TypeOK /\ Split!WalkStaysOnList /\ Split!ListedUntilSecondStage /\ Split!MasterWaits

\* Completion goes up the stack, calls no routine twice and passes none over, and its second
\* stage runs in the thread.
CompletionGoesUp ==
  /\ [][(part \in {"Packets", "UserApcs"}) => Packets!GoesUp /\ Packets!InThread]_ioVars
  /\ [][part = "Deep" => Deep!GoesUp /\ Deep!InThread]_ioVars
  /\ [][part = "Split" => Split!GoesUp /\ Split!InThread]_ioVars

\* No byte is in two granted locks unless both are shared, reads and writes follow the
\* granted locks, and no request waits that could be granted; in the file system that lets
\* one call in at a time every grant is reported, and the hint covers the grants.
FileLocksHold ==
  /\ part = "FileLocks" =>
       /\ FileLocks!TypeOK /\ FileLocks!GrantsAreCompatible /\ FileLocks!AccessFollowsLocks
       /\ FileLocks!WaitersAreBlocked /\ FileLocks!GrantsAreReported /\ FileLocks!HintCoversGrants
  /\ part = "FileLockRaces" =>
       /\ FileLockRaces!TypeOK /\ FileLockRaces!GrantsAreCompatible
       /\ FileLockRaces!AccessFollowsLocks /\ FileLockRaces!WaitersAreBlocked
--------------------------------------------------------------------------------
(* The executive. *)

CONSTANTS
  t1, t2, t3,              \* threads
  c1, c2, r1, r2,          \* users of callbacks, threads that unregister them
  e1, e2, NoDescriptor,    \* callbacks
  n1, n2, o1, o2, NoNotifier, \* notifiers, owners of registrations; o1 and o2 are objects too
  h1, h2,                  \* handles
  NoOne

VARIABLES
  \* ExRundown, CmCallbacks
  word, references, drained, op, hooks, registered, pendingDelete, freed, lock, place, hook, made,
  \* ExCallback
  list, inUse, pending, expCallbackEvent, stage, at, calls,
  \* ExHandleTable
  handles, copy, exclusively, shared, doing, slot, closed,
  \* ObObject
  state, refCount, handleCount, permanent, directory, entry, step, obj, hnd, seen, drops,
  halted

\* Callbacks whose functions succeed, and functions that may fail.
Hooks == INSTANCE CmCallbacks WITH
  Users <- {c1, c2}, Drainers <- {r1, r2}, Refs <- {e1, e2}, MaxCount <- 4, MaxCalls <- 1,
  Fails <- FALSE, NoThread <- NoOne, event <- drained, list <- hooks, pc <- place,
  entry <- hook, calls <- made
FailingHooks == INSTANCE CmCallbacks WITH
  Users <- {c1, c2}, Drainers <- {r1, r2}, Refs <- {e1, e2}, MaxCount <- 4, MaxCalls <- 1,
  Fails <- TRUE, NoThread <- NoOne, event <- drained, list <- hooks, pc <- place,
  entry <- hook, calls <- made
\* Users that come and go without a lock around their calls, and one thread that waits.
Rundown == INSTANCE ExRundown WITH
  Users <- {c1, c2}, Drainers <- {r1}, Refs <- {e1}, MaxCount <- 4, event <- drained

\* Memory that happens to be zero.
Callback == INSTANCE ExCallback WITH
  Notifiers <- {n1, n2}, Owners <- {o1, o2}, Multiple <- TRUE, MaxCalls <- 2, NoEntry <- NoNotifier,
  Memory <- {[inUse |-> 0, pendingDeletion |-> FALSE]}, event <- expCallbackEvent

\* Three threads and a sub-table of two entries, two threads and two of them.
HandleTable == INSTANCE ExHandleTable WITH
  Threads <- {t1, t2, t3}, NoThread <- NoOne, Objects <- {o1}, Null <- NoOne, SubSize <- 2,
  MaxHandles <- 2, Duplicates <- TRUE, Destroys <- TRUE, table <- handles, exclusive <- exclusively, pc <- doing
ManyTables == INSTANCE ExHandleTable WITH
  Threads <- {t1, t2}, NoThread <- NoOne, Objects <- {o1}, Null <- NoOne, SubSize <- 2,
  MaxHandles <- 4, Duplicates <- FALSE, Destroys <- TRUE, table <- handles, exclusive <- exclusively, pc <- doing

\* A permanent object that is looked up by its name and another one, with no handle used
\* before its maker has it; and objects whose permanence changes, for ObjectsStay alone.
Object == INSTANCE ObObject WITH
  Threads <- {t1, t2}, Objects <- {o1, o2}, Handles <- {h1, h2}, Permanents <- {o2}, None <- NoOne,
  LooksUp <- {o2}, Retypes <- FALSE, Guesses <- FALSE, Mismatches <- 0, pc <- step,
  bugCheck <- halted
Retyped == INSTANCE ObObject WITH
  Threads <- {t1, t2}, Objects <- {o1}, Handles <- {h1, h2}, Permanents <- {o1}, None <- NoOne,
  LooksUp <- {}, Retypes <- TRUE, Guesses <- FALSE, Mismatches <- 3, pc <- step,
  bugCheck <- halted

ASSUME ExecutiveAssumption ==
  /\ IoAssumption /\ CcAssumption /\ MmAssumption
  /\ Hooks!CallbacksAssumption
  /\ FailingHooks!CallbacksAssumption /\ Rundown!RundownAssumption
  /\ Callback!CallbackAssumption /\ HandleTable!HandleTableAssumption
  /\ ManyTables!HandleTableAssumption
  /\ Object!ObjectAssumption /\ Retyped!ObjectAssumption

rundownVars  == <<word, references, drained, op>>
hookVars     == <<hooks, registered, pendingDelete, freed, lock, place, hook, made>>
callbackVars == <<list, inUse, pending, expCallbackEvent, stage, at, calls>>
handleVars   == <<handles, copy, exclusively, shared, doing, slot, closed>>
objectVars   == <<state, refCount, handleCount, permanent, directory, entry, step, obj, hnd,
                  seen, drops, halted>>
exVars       == <<rundownVars, hookVars, callbackVars, handleVars, objectVars>>
vars         == <<part, exVars, ioVars, ccVars, mmVars>>

Init ==
  /\ part \in {"Hooks", "FailingHooks", "Rundown", "Callback", "Handles",
               "ManyTables", "Object", "Retyped"} \cup IoParts \cup CcParts \cup MmParts
  /\ IoInit /\ CcInit /\ MmInit
  /\ Hooks!Init /\ Callback!Init /\ Object!Init
  /\ IF part = "ManyTables" THEN ManyTables!Init ELSE HandleTable!Init

HooksStep ==
  /\ \/ part = "Hooks" /\ Hooks!Next
     \/ part = "FailingHooks" /\ FailingHooks!Next
     \/ part = "Rundown" /\ Rundown!RundownNext /\ UNCHANGED hookVars
  /\ UNCHANGED <<callbackVars, handleVars, objectVars>>
CallbackStep == part = "Callback" /\ Callback!Next
                  /\ UNCHANGED <<rundownVars, hookVars, handleVars, objectVars>>
HandlesStep ==
  /\ \/ part = "Handles" /\ HandleTable!Next
     \/ part = "ManyTables" /\ ManyTables!Next
  /\ UNCHANGED <<rundownVars, hookVars, callbackVars, objectVars>>
ObjectStep ==
  /\ \/ part = "Object" /\ Object!Next
     \/ part = "Retyped" /\ Retyped!Next
  /\ UNCHANGED <<rundownVars, hookVars, callbackVars, handleVars>>

ExNext == HooksStep \/ CallbackStep \/ HandlesStep \/ ObjectStep

Next ==
  /\ \/ ExNext /\ UNCHANGED <<ioVars, ccVars, mmVars>>
     \/ IoNext /\ UNCHANGED <<exVars, ccVars, mmVars>>
     \/ CcNext /\ UNCHANGED <<exVars, ioVars, mmVars>>
     \/ MmNext /\ UNCHANGED <<exVars, ioVars, ccVars>>
  /\ UNCHANGED part

Spec == Init /\ [][Next]_vars
-------------------------------------------------------------------------------
\* The properties of the components, each with the types of its fields.

\* No callback and no registration of a callback object goes while a thread is in its
\* function; under the lock rundown protection counts the threads that are, without it it
\* never counts fewer, and the thread that waits is not told before the last has left.
CallbacksStay ==
  /\ part \in {"Hooks", "FailingHooks"} => Hooks!TypeOK /\ Hooks!UsersKeepCallback
  /\ part = "Hooks" => Hooks!ProtectionIsCounted
  /\ part \in {"Hooks", "FailingHooks", "Rundown"} =>
       Rundown!EventMeansEmpty /\ Rundown!UsersAreCounted
  /\ part = "Callback" => Callback!TypeOK /\ Callback!UsersKeepRegistration

\* The free list, the count and the entries of a handle table agree, in a copy too, and
\* the callbacks have seen every handle that was made or closed once.
HandlesCounted ==
  /\ part = "Handles" =>
       HandleTable!TypeOK /\ HandleTable!TablesConsistent /\ HandleTable!EveryHandleOnce
  /\ part = "ManyTables" =>
       ManyTables!TypeOK /\ ManyTables!TablesConsistent /\ ManyTables!EveryHandleOnce

\* An object is there as long as a thread or a handle leads to it, and no count is raised from
\* zero for an object that goes; its reference count is
\* what is owed to it, and an object nobody refers to goes, where its permanence does not
\* change and no handle is refused.
ObjectsStay ==
  /\ part \in {"Object", "Retyped"} =>
       Object!TypeOK /\ Object!ObjectsStay /\ Object!NoBugCheck
  /\ part = "Object" => Object!ReferencesAccounted /\ Object!UnreferencedGo
================================================================================
