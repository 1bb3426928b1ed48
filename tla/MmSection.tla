------------------------------- MODULE MmSection -------------------------------
(***************************************************************************)
(* A section's segment (mm/section.c, with rmap.c and pageop.c): views of it in      *)
(* several address spaces, one page of each.  The segment has an entry for every     *)
(* page of the section, with the page or its place in the paging file and a count     *)
(* of the views that share it; a page operation, found by segment and offset, keeps    *)
(* others away while its owner has given up the locks.                              *)
(*                                                                         *)
(* What is done with the locks held is one step; the page-out holds none, but its      *)
(* page operation and, while it takes the mappings down, RmapListLock.               *)
(***************************************************************************)
EXTENDS Integers, FiniteSets

CONSTANTS
  Views,         \* address spaces with a view
  PerView,       \* threads of each
  Shifted,       \* views with a ViewOffset of a page
  Unmappers,     \* views that are unmapped, and mapped again
  Protectors,    \* views whose protection is changed
  Pagers,        \* threads that trim
  Pages, Swaps,  \* physical pages, entries of the paging file
  None,
  Kind,          \* of the segment: "pagefile", "data", "image", or "copied", an image whose
                 \* pages are not the cache's
  Overlaps,      \* TRUE where a view is unmapped while others work on its page
  ShiftedWaits,  \* TRUE where a view with a ViewOffset waits for another thread's fault
  WriteFails,    \* writes that may fail: to the page's own entry of the paging file ("saved"),
                 \* to a "fresh" one
  MaxFaults,     \* bound: faults, unmappings and mappings of a thread
  MaxTrims       \* bound: pages a pager tries

SectionAssumption ==
  /\ PerView \in Nat \ {0} /\ MaxFaults \in Nat /\ MaxTrims \in Nat
  /\ Shifted \cup Unmappers \cup Protectors \subseteq Views
  /\ None \notin Views \cup Pages \cup Swaps
  /\ Kind \in {"pagefile", "data", "image", "copied"}
  /\ Overlaps \in BOOLEAN /\ ShiftedWaits \in BOOLEAN /\ WriteFails \subseteq {"saved", "fresh"}

VARIABLES
  views,        \* view -> its memory area: "there", "deleting" or "gone"
  protect,      \* view -> whether its region can be written
  mappings,     \* view -> page table entry
  entries,      \* offset -> entry of the segment's page table
  pages,        \* page -> reference count, contents, SavedSwapEntry, views in RmapListHead
  swaps,        \* entry of the paging file -> whether it is in use, contents
  cached,       \* offset -> page of the cache, its MappedCount and Dirty, contents of the file
  lastWritten,  \* offset -> what was written there last, by any view
  ownCopy,      \* view -> what it last wrote to its own copy, if it has one
  segmentOps,   \* offset -> page operation
  segmentLock,  \* the thread that unmaps, with the lock of its address space too
  threads,      \* thread -> where it is and what it has in hand
  attempts,     \* thread -> faults or trims
  sectionThere, \* FALSE once the section has been deleted
  bugCheck      \* KEBUGCHECK

sectionVars == <<views, protect, mappings, entries, pages, swaps, cached, lastWritten, ownCopy, segmentOps,
                 segmentLock, threads, attempts, sectionThere, bugCheck>>
values      == <<lastWritten, ownCopy, protect>>

Users   == Views \X (1..PerView)
Workers == Users \cup Pagers
Offsets == IF Shifted = {} THEN {0} ELSE {0, 1}

\* Whose pages are the cache's; whose are copied on a write.
DirectMapped == Kind \in {"data", "image"}
WriteCopy    == Kind \in {"image", "copied"}

\* The offset of a view's page in the segment.  The address alone gives 0.
Offset(v) == IF v \in Shifted THEN 1 ELSE 0

NoMapping == [kind |-> "none", at |-> None, writable |-> FALSE, dirty |-> FALSE]
NoEntry   == [kind |-> "none", at |-> None, share |-> 0]
NoOp      == [refs |-> 0, thread |-> None, view |-> None, type |-> "none", status |-> "none"]
Idle      == [pc |-> "out", view |-> None, page |-> None, swap |-> None, old |-> None,
              dirty |-> FALSE, private |-> FALSE, writable |-> FALSE]

Init ==
  /\ views = [v \in Views |-> "there"] /\ protect = [v \in Views |-> TRUE]
  /\ mappings = [v \in Views |-> NoMapping]
  /\ entries = [o \in Offsets |-> NoEntry]
  /\ pages = [p \in Pages |-> [refs |-> 0, data |-> 0, saved |-> None, views |-> {}]]
  /\ swaps = [s \in Swaps |-> [used |-> FALSE, data |-> 0]]
  /\ cached = [o \in Offsets |-> [page |-> None, mapped |-> 0, dirty |-> FALSE, file |-> 0]]
  /\ lastWritten = [o \in Offsets |-> 0] /\ ownCopy = [v \in Views |-> None]
  /\ segmentOps = [o \in Offsets |-> NoOp] /\ segmentLock = None
  /\ threads = [t \in Workers |-> Idle] /\ attempts = [t \in Workers |-> 0]
  /\ sectionThere = TRUE /\ bugCheck = FALSE

At(t, place) == threads[t].pc = place
Leave(t)     == threads' = [threads EXCEPT ![t] = Idle]
Stop         == bugCheck' = TRUE
Tries(t, max) == attempts[t] < max /\ attempts' = [attempts EXCEPT ![t] = @ + 1]

\* The address space of a view can be locked; the segment can be, too.
SpaceFree(v) == segmentLock \notin {v} \X (1..PerView)
LocksFree    == segmentLock = None

Mapping(p, writable, dirty) ==
  [kind |-> "page", at |-> p, writable |-> writable, dirty |-> dirty]
Swapped(s) == [kind |-> "swap", at |-> s, writable |-> FALSE, dirty |-> FALSE]
Shared(p, n) == [kind |-> "page", at |-> p, share |-> n]
InSwap(s) == [kind |-> "swap", at |-> s, share |-> 0]

\* A page that is not the segment's: "This is a private page".
Private(p, o) == entries[o].kind = "swap" \/ entries[o].at # p

Free(p)      == pages[p].refs = 0
Drop(pgs, p) == [pgs EXCEPT ![p].refs = @ - 1]
-------------------------------------------------------------------------------
\* MmGetPageOp: the operation at offset o is t's own, even one it completed and others have
\* not released yet.
Mine(t, o) == segmentOps[o].refs = 0 \/ segmentOps[o].thread = t

GetPageOp(t, v, o, type) ==
  segmentOps' = [segmentOps EXCEPT ![o] =
    IF @.refs = 0 THEN [refs |-> 1, thread |-> t, view |-> v, type |-> type, status |-> "pending"]
                  ELSE [@ EXCEPT !.refs = @ + 1]]

JoinPageOp(o) == segmentOps' = [segmentOps EXCEPT ![o].refs = @ + 1]

MmReleasePageOp(o) ==
  segmentOps' = [segmentOps EXCEPT ![o] = IF @.refs = 1 THEN NoOp ELSE [@ EXCEPT !.refs = @ - 1]]

\* The status, and MmspCompleteAndReleasePageOp.
CompleteAndRelease(o, status) ==
  segmentOps' = [segmentOps EXCEPT ![o] =
    IF @.refs = 1 THEN NoOp ELSE [@ EXCEPT !.refs = @ - 1, !.status = status]]

Completed(o) == segmentOps[o].status # "pending"
-------------------------------------------------------------------------------
\* MmUnsharePageEntrySectionSegment, n times, after the page and the cache have become pgs
\* and cch: the last to share a page tells the cache, or lets go of the page; one of a
\* section in the paging file is kept in the entry, or in its place of the paging file, and
\* a page-out sees to the entry of such a page itself.
CannotUnshare(o, n) ==
  \/ entries[o].kind # "page" \/ entries[o].share < n
  \/ entries[o].share = n /\ Kind # "pagefile" /\ pages[entries[o].at].saved # None

MmUnsharePageEntrySectionSegment(o, n, dirty, out, pgs, cch) ==
  LET e == entries[o]  p == e.at  s == pages[p].saved
      last == e.share = n
      kept == Kind = "pagefile" /\ s = None /\ ~out
  IN /\ entries' = [entries EXCEPT ![o] =
          CASE ~last \/ kept  -> Shared(p, e.share - n)
            [] last /\ s # None /\ out -> Shared(p, 1)
            [] last /\ s # None /\ ~out -> InSwap(s)
            [] OTHER -> NoEntry]
     /\ cached' = IF last /\ DirectMapped
                  THEN [cch EXCEPT ![o].mapped = @ - 1, ![o].dirty = @ \/ dirty] ELSE cch
     /\ pages' = IF ~last \/ kept \/ DirectMapped THEN pgs
                 ELSE Drop(IF out THEN pgs ELSE [pgs EXCEPT ![p].saved = None], p)
     /\ swaps' = IF last /\ s # None /\ ~out /\ dirty
                 THEN [swaps EXCEPT ![s].data = pages[p].data] ELSE swaps

\* Whether a page of the segment's is mapped for writing: "COW".
Attributes(v) == protect[v] /\ ~WriteCopy

\* MmSharePageEntrySectionSegment, MmCreateVirtualMapping and MmInsertRmap.
ShareAndMap(v, o) ==
  LET p == entries[o].at
  IN /\ entries' = [entries EXCEPT ![o].share = @ + 1]
     /\ mappings' = [mappings EXCEPT ![v] = Mapping(p, Attributes(v), FALSE)]
     /\ pages' = [pages EXCEPT ![p].views = @ \cup {v}]
-------------------------------------------------------------------------------
\* A thread writes through its view; the processor sets the dirty bit.
Write(u) ==
  LET v == u[1]  m == mappings[v]
      old == IF ownCopy[v] = None THEN lastWritten[Offset(v)] ELSE ownCopy[v]
  IN /\ At(u, "out") /\ m.kind = "page" /\ m.writable
     /\ IF WriteCopy THEN ownCopy' = [ownCopy EXCEPT ![v] = 1 - old] /\ UNCHANGED lastWritten
        ELSE lastWritten' = [lastWritten EXCEPT ![Offset(v)] = 1 - old] /\ UNCHANGED ownCopy
     /\ pages' = [pages EXCEPT ![m.at].data = 1 - old]
     /\ mappings' = [mappings EXCEPT ![v].dirty = TRUE]
     /\ UNCHANGED <<views, protect, entries, swaps, cached, segmentOps, segmentLock, threads,
                    attempts, sectionThere, bugCheck>>

\* MmNotPresentFaultSectionView, up to where it gives up its locks: it joins the operation of
\* another, or begins one, or the page is there for this view to share.
Faults(u) ==
  LET v == u[1]
  IN At(u, "out") /\ views[v] = "there" /\ LocksFree /\ Tries(u, MaxFaults)

NotPresentFaultJoins(u) ==
  /\ Faults(u) /\ mappings[u[1]].kind # "page" /\ ~Mine(u, 0)
  /\ ShiftedWaits \/ u[1] \notin Shifted
  /\ JoinPageOp(0)
  /\ threads' = [threads EXCEPT ![u].pc = "wait"]
  /\ UNCHANGED <<views, mappings, entries, pages, swaps, cached, values, segmentLock,
                 sectionThere, bugCheck>>

NotPresentFaultBegins(u) ==
  LET v == u[1]  m == mappings[v]  e == entries[Offset(v)]
  IN /\ Faults(u) /\ m.kind # "page" /\ Mine(u, 0)
     /\ m.kind = "swap" \/ e.kind # "page"
     /\ GetPageOp(u, v, 0, "in")
     /\ mappings' = [mappings EXCEPT ![v] = NoMapping]
     /\ threads' = [threads EXCEPT ![u] =
          IF m.kind = "swap" THEN [@ EXCEPT !.pc = "inPrivate", !.swap = m.at]
          ELSE IF e.kind = "swap" THEN [@ EXCEPT !.pc = "inSwap", !.swap = e.at]
          ELSE [@ EXCEPT !.pc = "inZero", !.writable = Attributes(v)]]
     /\ bugCheck' = (m.kind = "swap" /\ Kind = "pagefile")
     /\ UNCHANGED <<views, entries, pages, swaps, cached, values, segmentLock, sectionThere>>

NotPresentFaultShares(u) ==
  LET v == u[1]
  IN /\ Faults(u) /\ mappings[v].kind = "none" /\ Mine(u, 0) /\ entries[Offset(v)].kind = "page"
     /\ ShareAndMap(v, Offset(v))
     /\ UNCHANGED <<views, swaps, cached, values, segmentOps, segmentLock, threads, sectionThere,
                    bugCheck>>

\* The wait is over: the page is shared if it was paged in, whether the view is still there
\* or not; otherwise the fault begins again.  Offset has not got the ViewOffset yet: the
\* page is that of offset 0, whichever the view is of.
NotPresentFaultWaited(u) ==
  LET v == u[1]  e == entries[0]
      share == /\ segmentOps[0].type = "in" /\ segmentOps[0].status = "success"
               /\ mappings[v].kind = "none" /\ e.kind # "none"
  IN /\ At(u, "wait") /\ Completed(0) /\ LocksFree
     /\ IF share /\ e.kind = "page" THEN ShareAndMap(v, 0)
        ELSE UNCHANGED <<mappings, entries, pages>>
     /\ bugCheck' = (share /\ e.kind = "swap")
     /\ MmReleasePageOp(0) /\ Leave(u)
     /\ UNCHANGED <<views, swaps, cached, values, segmentLock, attempts, sectionThere>>

\* A new page with contents d, for t, and a page of the cache, which is read if it is not there.
RequestPage(t, d, place) ==
  \E p \in Pages :
    /\ Free(p)
    /\ pages' = [pages EXCEPT ![p] = [refs |-> 1, data |-> d, saved |-> None, views |-> {}]]
    /\ threads' = [threads EXCEPT ![t].pc = place, ![t].page = p]

GetCachedPage(t, o, place) ==
  \/ /\ cached[o].page # None
     /\ cached' = [cached EXCEPT ![o].mapped = @ + 1]
     /\ threads' = [threads EXCEPT ![t].pc = place, ![t].page = cached[o].page]
     /\ UNCHANGED pages
  \/ /\ cached[o].page = None
     /\ RequestPage(t, cached[o].file, place)
     /\ cached' = [cached EXCEPT ![o].page = threads'[t].page, ![o].mapped = 1, ![o].dirty = FALSE]

\* Without locks: the page is read from the paging file, from the file (MiReadPage) or zeroed.
NotPresentFaultReads(u) ==
  LET o == Offset(u[1])  s == threads[u].swap
  IN /\ \/ At(u, "inPrivate") /\ RequestPage(u, swaps[s].data, "mapPrivate") /\ UNCHANGED cached
        \/ At(u, "inSwap") /\ RequestPage(u, swaps[s].data, "mapEntry") /\ UNCHANGED cached
        \/ At(u, "inZero") /\ DirectMapped /\ GetCachedPage(u, o, "mapEntry")
        \/ /\ At(u, "inZero") /\ ~DirectMapped /\ UNCHANGED cached
           /\ RequestPage(u, IF Kind = "copied" THEN cached[o].file ELSE 0, "mapEntry")
     /\ UNCHANGED <<views, mappings, entries, swaps, values, segmentOps, segmentLock, attempts,
                    sectionThere, bugCheck>>

\* The file cannot be read: "What do we know in this case?"
NotPresentFaultFails(u) ==
  /\ At(u, "inZero") /\ Kind # "pagefile" /\ SpaceFree(u[1])
  /\ CompleteAndRelease(0, "failure") /\ Leave(u)
  /\ UNCHANGED <<views, mappings, entries, pages, swaps, cached, values, segmentLock, attempts,
                 sectionThere, bugCheck>>

NotPresentFaultMapsPrivate(u) ==
  LET v == u[1]  p == threads[u].page
  IN /\ At(u, "mapPrivate") /\ SpaceFree(v)
     /\ mappings' = [mappings EXCEPT ![v] = Mapping(p, protect[v], FALSE)]
     /\ pages' = [pages EXCEPT ![p].saved = threads[u].swap, ![p].views = @ \cup {v}]
     /\ CompleteAndRelease(0, "success") /\ Leave(u)
     /\ UNCHANGED <<views, entries, swaps, cached, values, segmentLock, attempts, sectionThere,
                    bugCheck>>

\* "Check the entry. No one should change the status of a page that has a pending page-in."
NotPresentFaultMaps(u) ==
  LET v == u[1]  p == threads[u].page  s == threads[u].swap  o == Offset(v)
      same == entries[o] = IF s = None THEN NoEntry ELSE InSwap(s)
  IN /\ At(u, "mapEntry") /\ LocksFree
     /\ bugCheck' = ~same
     /\ entries' = [entries EXCEPT ![o] = Shared(p, 1)]
     /\ mappings' = [mappings EXCEPT ![v] =
          Mapping(p, IF s = None THEN threads[u].writable ELSE protect[v], FALSE)]
     /\ pages' = [pages EXCEPT ![p].saved = s, ![p].views = @ \cup {v}]
     /\ CompleteAndRelease(0, "success") /\ Leave(u)
     /\ UNCHANGED <<views, swaps, cached, values, segmentLock, attempts, sectionThere>>
-------------------------------------------------------------------------------
\* MmAccessFaultSectionView: a write to a page that is mapped for reading and is to be copied.
AccessFault(u) ==
  LET m == mappings[u[1]]
  IN Faults(u) /\ m.kind = "page" /\ ~m.writable /\ WriteCopy /\ protect[u[1]]

AccessFaultPrivate(u) ==
  LET v == u[1]
  IN /\ AccessFault(u) /\ Private(mappings[v].at, 0)
     /\ mappings' = [mappings EXCEPT ![v].writable = TRUE]
     /\ UNCHANGED <<views, entries, pages, swaps, cached, values, segmentOps, segmentLock,
                    threads, sectionThere, bugCheck>>

AccessFaultJoins(u) ==
  /\ AccessFault(u) /\ ~Private(mappings[u[1]].at, 0) /\ ~Mine(u, 0)
  /\ JoinPageOp(0)
  /\ threads' = [threads EXCEPT ![u].pc = "copyWait"]
  /\ UNCHANGED <<views, mappings, entries, pages, swaps, cached, values, segmentLock,
                 sectionThere, bugCheck>>

\* "Restart the operation".
AccessFaultWaited(u) ==
  /\ At(u, "copyWait") /\ Completed(0) /\ SpaceFree(u[1])
  /\ MmReleasePageOp(0) /\ Leave(u)
  /\ UNCHANGED <<views, mappings, entries, pages, swaps, cached, values, segmentLock, attempts,
                 sectionThere, bugCheck>>

AccessFaultBegins(u) ==
  LET p == mappings[u[1]].at
  IN /\ AccessFault(u) /\ ~Private(p, 0) /\ Mine(u, 0)
     /\ GetPageOp(u, u[1], 0, "access")
     /\ threads' = [threads EXCEPT ![u].pc = "copy", ![u].old = p]
     /\ UNCHANGED <<views, mappings, entries, pages, swaps, cached, values, segmentLock,
                    sectionThere, bugCheck>>

\* Without locks: a new page, the copy, and the old mapping goes.
AccessFaultCopies(u) ==
  LET v == u[1]  m == mappings[v]
  IN /\ At(u, "copy")
     /\ IF m.kind = "page"
        THEN /\ RequestPage(u, pages[m.at].data, "copied")
             /\ ownCopy' = [ownCopy EXCEPT ![v] = pages[m.at].data]
             /\ mappings' = [mappings EXCEPT ![v] = NoMapping]
             /\ UNCHANGED bugCheck
        ELSE Stop /\ UNCHANGED <<pages, threads, ownCopy, mappings>>
     /\ UNCHANGED <<views, protect, entries, swaps, cached, lastWritten, segmentOps, segmentLock,
                    attempts, sectionThere>>

AccessFaultMaps(u) ==
  LET v == u[1]  p == threads[u].page  old == threads[u].old
      moved == [pages EXCEPT ![p].views = @ \cup {v}, ![old].views = @ \ {v}]
      wrong == v \notin pages[old].views \/ CannotUnshare(0, 1)
  IN /\ At(u, "copied") /\ LocksFree
     /\ mappings' = [mappings EXCEPT ![v] = Mapping(p, protect[v], FALSE)]
     /\ bugCheck' = wrong
     /\ IF wrong THEN UNCHANGED <<entries, pages, cached, swaps>>
        ELSE MmUnsharePageEntrySectionSegment(0, 1, FALSE, FALSE, moved, cached)
     /\ CompleteAndRelease(0, "success") /\ Leave(u)
     /\ UNCHANGED <<views, values, segmentLock, attempts, sectionThere>>

\* MmProtectSectionView, with MmAlterViewAttributes: a shared page stays as it is to be copied.
MmProtectSectionView(u) ==
  LET v == u[1]  m == mappings[v]  writable == ~protect[v]
  IN /\ v \in Protectors /\ At(u, "out") /\ views[v] = "there" /\ LocksFree
     /\ Tries(u, MaxFaults)
     /\ protect' = [protect EXCEPT ![v] = writable]
     /\ mappings' = IF m.kind = "page"
                    THEN [mappings EXCEPT ![v].writable =
                            writable /\ (~WriteCopy \/ Private(m.at, 0))]
                    ELSE mappings
     /\ UNCHANGED <<views, entries, pages, swaps, cached, lastWritten, ownCopy, segmentOps,
                    segmentLock, threads, sectionThere, bugCheck>>
-------------------------------------------------------------------------------
\* MmPageOutPhysicalAddress: a view that maps the page; where views are unmapped with care,
\* none is just then.
PageOutReads(t, p, v) ==
  /\ At(t, "out") /\ v \in pages[p].views /\ (Overlaps \/ LocksFree) /\ Tries(t, MaxTrims)
  /\ threads' = [threads EXCEPT ![t].pc = "outLock", ![t].view = v]
  /\ UNCHANGED <<views, mappings, entries, pages, swaps, cached, values, segmentOps, segmentLock,
                 sectionThere, bugCheck>>

PageOutLocked(t) ==
  LET v == threads[t].view
      first == views[v] = "there" /\ segmentOps[0].refs = 0
  IN /\ At(t, "outLock") /\ SpaceFree(v)
     /\ \/ first /\ GetPageOp(t, v, 0, "out") /\ threads' = [threads EXCEPT ![t].pc = "outDelete"]
        \/ ~first /\ Leave(t) /\ UNCHANGED segmentOps
     /\ UNCHANGED <<views, mappings, entries, pages, swaps, cached, values, segmentLock, attempts,
                    sectionThere, bugCheck>>

\* MmPageOutSectionView: a reference to the page, or to the segment of the cache; then
\* MmDeleteAllRmaps with MmPageOutDeleteMapping, for a page that must be mapped.
PageOutDeletes(t) ==
  LET v == threads[t].view  p == mappings[v].at  mine == Private(p, 0)
      mappers == pages[p].views
      dirty == \E w \in mappers : mappings[w].dirty
      taken == [pages EXCEPT ![p].views = {}, ![p].refs = IF DirectMapped /\ ~mine THEN @ ELSE @ + 1]
      inUse == IF DirectMapped THEN [cached EXCEPT ![0].mapped = @ + 1] ELSE cached
      wrong == \/ mappings[v].kind # "page" \/ pages[p].views = {}
               \/ ~mine /\ CannotUnshare(0, Cardinality(mappers))
               \/ mine /\ (Kind = "pagefile" \/ \E w \in mappers : mappings[w].kind # "page")
               \/ ~mine /\ Kind # "pagefile" /\ entries[0].share # Cardinality(mappers)
               \/ ~mine /\ DirectMapped /\ cached[0].page = None
  IN /\ At(t, "outDelete")
     /\ IF wrong THEN Stop /\ UNCHANGED <<mappings, threads, entries, pages, cached, swaps>>
        ELSE /\ mappings' = [w \in Views |-> IF w \in mappers THEN NoMapping ELSE mappings[w]]
             /\ threads' = [threads EXCEPT ![t].pc = "outWrite", ![t].page = p, ![t].dirty = dirty,
                                           ![t].private = mine]
             /\ UNCHANGED bugCheck
             /\ IF mine THEN pages' = Drop(taken, p) /\ UNCHANGED <<entries, cached, swaps>>
                ELSE MmUnsharePageEntrySectionSegment(0, Cardinality(mappers), dirty, TRUE, taken, inUse)
     /\ UNCHANGED <<views, values, segmentOps, segmentLock, attempts, sectionThere>>

\* The page need not be written: it is the cache's, or the image's, or the paging file has it.
\* "If the page is from a pagefile section and has no swap entry, we can't free the page".
NeedsNoWrite(t) ==
  LET r == threads[t]  s == pages[r.page].saved
  IN \/ Kind = "pagefile" /\ ~r.dirty /\ s # None
     \/ Kind # "pagefile" /\ ~r.private /\ (DirectMapped \/ ~r.dirty)
     \/ Kind # "pagefile" /\ r.private /\ ~r.dirty /\ s # None

PageOutFrees(t) ==
  LET r == threads[t]  p == r.page  s == pages[p].saved  v == r.view
  IN /\ At(t, "outWrite") /\ NeedsNoWrite(t)
     /\ cached' = IF DirectMapped /\ ~r.private THEN [cached EXCEPT ![0].mapped = @ - 1] ELSE cached
     /\ pages' = IF DirectMapped /\ ~r.private THEN pages
                 ELSE Drop([pages EXCEPT ![p].saved = None], p)
     /\ entries' = IF Kind = "pagefile" THEN [entries EXCEPT ![0] = InSwap(s)] ELSE entries
     /\ mappings' = IF r.private THEN [mappings EXCEPT ![v] = Swapped(s)] ELSE mappings
     /\ CompleteAndRelease(0, "success") /\ Leave(t)
     /\ UNCHANGED <<views, swaps, values, segmentLock, attempts, sectionThere, bugCheck>>

Writes(t) == At(t, "outWrite") /\ ~NeedsNoWrite(t)

\* The page is written, to its own entry of the paging file or to a new one.
PageOutWrites(t) ==
  LET r == threads[t]  p == r.page  v == r.view
  IN /\ Writes(t)
     /\ \E s \in Swaps :
          /\ IF pages[p].saved = None THEN ~swaps[s].used ELSE s = pages[p].saved
          /\ swaps' = [swaps EXCEPT ![s] = [used |-> TRUE, data |-> pages[p].data]]
          /\ pages' = LET clean == [pages EXCEPT ![p].saved = None]
                      IN IF Kind = "pagefile" THEN clean ELSE Drop(clean, p)
          /\ entries' = IF r.private THEN entries ELSE [entries EXCEPT ![0] = InSwap(s)]
          /\ mappings' = IF r.private THEN [mappings EXCEPT ![v] = Swapped(s)] ELSE mappings
     /\ CompleteAndRelease(0, "success") /\ Leave(t)
     /\ UNCHANGED <<views, cached, values, segmentLock, attempts, sectionThere, bugCheck>>

\* No entry is left, or the write fails: the page is mapped again, for this view.
PageOutRestores(t) ==
  LET r == threads[t]  p == r.page  v == r.view
  IN /\ Writes(t)
     /\ \/ pages[p].saved = None /\ (\A s \in Swaps : swaps[s].used) /\ UNCHANGED swaps
        \/ "saved" \in WriteFails /\ pages[p].saved # None /\ UNCHANGED swaps
        \/ /\ "fresh" \in WriteFails /\ pages[p].saved = None
           /\ \E s \in Swaps : ~swaps[s].used /\ swaps' = [swaps EXCEPT ![s].used = TRUE]
     /\ mappings' = [mappings EXCEPT ![v] = Mapping(p, TRUE, TRUE)]
     /\ pages' = [pages EXCEPT ![p].views = @ \cup {v}]
     /\ entries' = IF r.private THEN entries ELSE [entries EXCEPT ![0] = Shared(p, 1)]
     /\ CompleteAndRelease(0, "failure") /\ Leave(t)
     /\ UNCHANGED <<views, cached, values, segmentLock, attempts, sectionThere, bugCheck>>
-------------------------------------------------------------------------------
\* MmUnmapViewOfSegment and MmFreeMemoryArea: the mapping goes before MmFreeSectionPage waits
\* for the page operation on it.
MmUnmapViewOfSegment(u) ==
  LET v == u[1]  m == mappings[v]
  IN /\ v \in Unmappers /\ At(u, "out") /\ views[v] = "there" /\ LocksFree /\ Tries(u, MaxFaults)
     /\ Overlaps \/ /\ \A o \in Offsets : segmentOps[o].refs = 0
                    /\ \A t \in Pagers : At(t, "out")
     /\ views' = [views EXCEPT ![v] = "deleting"] /\ segmentLock' = u
     /\ mappings' = [mappings EXCEPT ![v] = NoMapping]
     /\ threads' = [threads EXCEPT ![u].pc = "free", ![u].dirty = m.dirty,
          ![u].page = IF m.kind = "page" THEN m.at ELSE None,
          ![u].swap = IF m.kind = "swap" THEN m.at ELSE None]
     /\ UNCHANGED <<entries, pages, swaps, cached, values, segmentOps, sectionThere, bugCheck>>

\* MmCheckForPageOp finds an operation, and it is waited for.
FreeWaits(u) ==
  LET o == Offset(u[1])
  IN /\ At(u, "free") /\ segmentOps[o].refs > 0
     /\ JoinPageOp(o)
     /\ segmentLock' = None /\ threads' = [threads EXCEPT ![u].pc = "freeWait"]
     /\ UNCHANGED <<views, mappings, entries, pages, swaps, cached, values, attempts, sectionThere,
                    bugCheck>>

FreeWaited(u) ==
  LET o == Offset(u[1])
  IN /\ At(u, "freeWait") /\ Completed(o) /\ LocksFree
     /\ MmReleasePageOp(o)
     /\ segmentLock' = u /\ threads' = [threads EXCEPT ![u].pc = "free"]
     /\ UNCHANGED <<views, mappings, entries, pages, swaps, cached, values, attempts, sectionThere,
                    bugCheck>>

\* MmFreeSectionPage for a private page or its place in the paging file, and for a shared one.
FreePrivate(v, p, s) ==
  LET place == IF p = None THEN s ELSE pages[p].saved
  IN /\ swaps' = IF place = None THEN swaps ELSE [swaps EXCEPT ![place].used = FALSE]
     /\ pages' = IF p = None THEN pages
                 ELSE Drop([pages EXCEPT ![p].views = @ \ {v}, ![p].saved = None], p)
     /\ UNCHANGED <<entries, cached>>

\* Mutated: only the last view to go tells the cache that the page is dirty.
FreeUntold(v, p, o, dirty) ==
  MmUnsharePageEntrySectionSegment(o, 1, dirty, FALSE, [pages EXCEPT ![p].views = @ \ {v}], cached)

FreeShared(v, p, o, dirty) ==
  MmUnsharePageEntrySectionSegment(o, 1, dirty, FALSE, [pages EXCEPT ![p].views = @ \ {v}],
    IF Kind = "data" THEN [cached EXCEPT ![o].dirty = @ \/ dirty] ELSE cached)

MmFreeSectionPage(u) ==
  LET v == u[1]  r == threads[u]  o == Offset(v)  p == r.page
      mine == r.swap # None \/ (p # None /\ Private(p, o))
      wrong == \/ mine /\ Kind = "pagefile"
               \/ p # None /\ v \notin pages[p].views
               \/ p # None /\ ~mine /\ CannotUnshare(o, 1)
  IN /\ At(u, "free") /\ segmentOps[o].refs = 0
     /\ bugCheck' = wrong
     /\ IF wrong \/ (p = None /\ r.swap = None) THEN UNCHANGED <<entries, pages, cached, swaps>>
        ELSE IF mine THEN FreePrivate(v, p, r.swap) ELSE FreeShared(v, p, o, r.dirty)
     /\ views' = [views EXCEPT ![v] = "gone"] /\ segmentLock' = None
     /\ ownCopy' = [ownCopy EXCEPT ![v] = None] /\ protect' = [protect EXCEPT ![v] = TRUE]
     /\ Leave(u)
     /\ UNCHANGED <<mappings, lastWritten, segmentOps, attempts, sectionThere>>

\* MmMapViewOfSegment.
MmMapViewOfSegment(u) ==
  LET v == u[1]
  IN /\ sectionThere /\ At(u, "out") /\ views[v] = "gone" /\ LocksFree /\ Tries(u, MaxFaults)
     /\ views' = [views EXCEPT ![v] = "there"]
     /\ UNCHANGED <<mappings, entries, pages, swaps, cached, values, segmentOps, segmentLock,
                    threads, sectionThere, bugCheck>>

\* MmpDeleteSection, with MmpFreePageFileSegment; the segment of a file stays with the file.
MmpDeleteSection ==
  /\ sectionThere /\ \A v \in Views : views[v] = "gone"
  /\ sectionThere' = FALSE
  /\ IF Kind = "pagefile"
     THEN LET there == {entries[o].at : o \in {x \in Offsets : entries[x].kind = "page"}}
              lost  == {entries[o].at : o \in Offsets} \cup {pages[p].saved : p \in there}
          IN /\ entries' = [o \in Offsets |-> NoEntry]
             /\ pages' = [p \in Pages |-> IF p \in there
                            THEN [pages[p] EXCEPT !.saved = None, !.refs = @ - 1] ELSE pages[p]]
             /\ swaps' = [s \in Swaps |-> [swaps[s] EXCEPT !.used = @ /\ s \notin lost]]
     ELSE UNCHANGED <<entries, pages, swaps>>
  /\ UNCHANGED <<views, mappings, cached, values, segmentOps, segmentLock, threads, attempts, bugCheck>>

\* The cache writes a page nobody maps if it is dirty, and lets go of it (CcView).
CacheDrops(o) ==
  LET c == cached[o]
  IN /\ c.page # None /\ c.mapped = 0
     /\ cached' = [cached EXCEPT ![o] = [page |-> None, mapped |-> 0, dirty |-> FALSE,
                     file |-> IF c.dirty THEN pages[c.page].data ELSE c.file]]
     /\ pages' = Drop(pages, c.page)
     /\ UNCHANGED <<views, mappings, entries, swaps, values, segmentOps, segmentLock, threads,
                    attempts, sectionThere, bugCheck>>

NotPresentFault(u) ==
  \/ NotPresentFaultJoins(u) \/ NotPresentFaultBegins(u) \/ NotPresentFaultShares(u)
  \/ NotPresentFaultWaited(u) \/ NotPresentFaultReads(u) \/ NotPresentFaultFails(u)
  \/ NotPresentFaultMapsPrivate(u) \/ NotPresentFaultMaps(u)

Next ==
  /\ ~bugCheck
  /\ \/ \E u \in Users :
          \/ Write(u) \/ NotPresentFault(u)
          \/ AccessFaultPrivate(u) \/ AccessFaultJoins(u) \/ AccessFaultWaited(u)
          \/ AccessFaultBegins(u) \/ AccessFaultCopies(u) \/ AccessFaultMaps(u)
          \/ MmProtectSectionView(u) \/ MmUnmapViewOfSegment(u) \/ FreeWaits(u) \/ FreeWaited(u)
          \/ MmFreeSectionPage(u) \/ MmMapViewOfSegment(u)
     \/ \E t \in Pagers :
          \/ \E p \in Pages, v \in Views : PageOutReads(t, p, v)
          \/ PageOutLocked(t) \/ PageOutDeletes(t) \/ PageOutFrees(t)
          \/ PageOutWrites(t) \/ PageOutRestores(t)
     \/ MmpDeleteSection
     \/ \E o \in Offsets : CacheDrops(o)

Spec == Init /\ [][Next]_sectionVars
-------------------------------------------------------------------------------
TypeOK ==
  /\ views \in [Views -> {"there", "deleting", "gone"}] /\ protect \in [Views -> BOOLEAN]
  /\ mappings \in [Views -> [kind : {"none", "page", "swap"}, at : Pages \cup Swaps \cup {None},
                             writable : BOOLEAN, dirty : BOOLEAN]]
  /\ entries \in [Offsets -> [kind : {"none", "page", "swap"}, at : Pages \cup Swaps \cup {None},
                              share : Nat]]
  /\ pages \in [Pages -> [refs : Nat, data : {0, 1}, saved : Swaps \cup {None},
                          views : SUBSET Views]]
  /\ swaps \in [Swaps -> [used : BOOLEAN, data : {0, 1}]]
  /\ cached \in [Offsets -> [page : Pages \cup {None}, mapped : Nat, dirty : BOOLEAN,
                             file : {0, 1}]]
  /\ lastWritten \in [Offsets -> {0, 1}] /\ ownCopy \in [Views -> {0, 1, None}]
  /\ segmentOps \in [Offsets -> [refs : Nat, thread : Workers \cup {None},
                                 view : Views \cup {None}, type : {"none", "in", "out", "access"},
                                 status : {"none", "pending", "success", "failure"}]]
  /\ segmentLock \in Users \cup {None}
  /\ threads \in [Workers -> [pc : {"out", "wait", "inPrivate", "inSwap", "inZero", "mapPrivate",
                                    "mapEntry", "copyWait", "copy", "copied", "outLock",
                                    "outDelete", "outWrite", "free", "freeWait"},
                              view : Views \cup {None}, page : Pages \cup {None},
                              swap : Swaps \cup {None}, old : Pages \cup {None},
                              dirty : BOOLEAN, private : BOOLEAN, writable : BOOLEAN]]
  /\ attempts \in [Workers -> Nat] /\ {sectionThere, bugCheck} \subseteq BOOLEAN

\* The entry of the segment counts the views that share its page, and they are the ones its
\* reverse mappings lead to.
SharesAreCounted ==
  \A o \in Offsets : entries[o].kind = "page" =>
    \/ entries[o].share = Cardinality(pages[entries[o].at].views)
    \/ \E t \in Pagers : At(t, "outWrite")

\* A view leads to a page that leads back, as long as nobody is between the two.
MappingsAgree ==
  \A p \in Pages, v \in Views :
    /\ mappings[v].kind = "page" /\ mappings[v].at = p => v \in pages[p].views
    /\ v \in pages[p].views =>
         \/ mappings[v].at = p
         \/ \E u \in Users : u[1] = v /\ threads[u].pc \in {"copied", "free", "freeWait"}

\* What a view last wrote to its own copy, or anyone to what is shared, is what is read there:
\* in the page, in the paging file, in the file or in the hands of a thread.
Holds(t, p, d) == threads[t].page = p /\ pages[p].data = d

OwnCopyKept(v) ==
  \/ mappings[v].kind = "page" /\ pages[mappings[v].at].data = ownCopy[v]
  \/ mappings[v].kind = "swap" /\ swaps[mappings[v].at].data = ownCopy[v]
  \/ views[v] # "there"
  \/ \E u \in Users : u[1] = v /\ At(u, "inPrivate") /\ swaps[threads[u].swap].data = ownCopy[v]
  \/ \E u \in Users, p \in Pages : u[1] = v /\ threads[u].pc \in {"mapPrivate", "copied"}
                                     /\ Holds(u, p, ownCopy[v])
  \/ \E t \in Pagers, p \in Pages : At(t, "outWrite") /\ threads[t].view = v
                                      /\ Holds(t, p, ownCopy[v])

CacheKeeps(o) ==
  LET c == cached[o]
  IN IF c.page = None THEN c.file = lastWritten[o]
     ELSE /\ pages[c.page].data = lastWritten[o]
          /\ \/ c.dirty \/ c.file = lastWritten[o]
             \/ \E v \in Views : mappings[v].at = c.page /\ mappings[v].dirty
             \/ \E t \in Workers : threads[t].page = c.page /\ threads[t].dirty

SharedKept(o) ==
  LET e == entries[o]  d == lastWritten[o]
  IN CASE Kind # "pagefile" -> CacheKeeps(o)
       [] e.kind = "page"   -> pages[e.at].data = d
       [] e.kind = "swap"   -> swaps[e.at].data = d
       [] OTHER -> \/ d = 0 \/ ~sectionThere
                   \/ \E t \in Pagers, p \in Pages : At(t, "outWrite") /\ Holds(t, p, d)

NothingLost ==
  /\ \A o \in Offsets : SharedKept(o)
  /\ \A v \in Views : IF ownCopy[v] # None THEN OwnCopyKept(v)
                      ELSE mappings[v].kind = "page" =>
                             pages[mappings[v].at].data = lastWritten[Offset(v)]

\* Every reference to a page is the cache's, the segment's, a private mapping's, or a
\* thread's that has it in hand; and none is lost.
Owners(p) ==
  LET privately == {v \in Views : mappings[v].at = p /\ Private(p, Offset(v))}
      inHands   == {t \in Workers : threads[t].page = p /\
                      \/ threads[t].pc \in {"mapPrivate", "copied", "outWrite"}
                      \/ At(t, "mapEntry")
                      \/ threads[t].pc \in {"free", "freeWait"} /\ Private(p, Offset(t[1]))}
      pagedOut  == \E t \in Pagers : At(t, "outWrite") /\ threads[t].page = p
      entered   == {o \in Offsets : entries[o].at = p /\ ~pagedOut}
      caching   == {o \in Offsets : cached[o].page = p}
  IN IF caching # {} THEN Cardinality(caching)
     ELSE Cardinality(privately) + Cardinality(inHands) + Cardinality(entered)

ReferencesAreOwned == \A p \in Pages : Owners(p) = pages[p].refs

\* A section in the paging file keeps references nobody owns (see ReferencesAreOwned).
PagesHaveOwners ==
  /\ \A p \in Pages : Owners(p) <= pages[p].refs
  /\ Kind # "pagefile" => ReferencesAreOwned

\* No page and no entry of the paging file outlives the section.
NothingLeft ==
  ~sectionThere => /\ \A p \in Pages : Free(p) \/ \E o \in Offsets : cached[o].page = p
                   /\ \A s \in Swaps : ~swaps[s].used

\* A segment of the cache is mapped as often as the views and page-ins in progress say.
CacheIsCounted ==
  DirectMapped => \A o \in Offsets :
    cached[o].mapped = (IF entries[o].kind = "page" THEN 1 ELSE 0)
      + Cardinality({u \in Users : At(u, "mapEntry") /\ Offset(u[1]) = o})
      + Cardinality({t \in Pagers : At(t, "outWrite") /\ o = 0 /\ ~threads[t].private})

\* A page of a region that cannot be written is not mapped for writing.
ReadOnlyStays == \A v \in Views : mappings[v].writable => protect[v]

\* The system does not stop.
NoBugCheck == ~bugCheck

\* No page operation outlives the view it points to.
OpsEndWithView == \A o \in Offsets : segmentOps[o].refs > 0 => views[segmentOps[o].view] # "gone"

\* What holds even where views are unmapped while others work on the page, and all of it.
CountsHold  == TypeOK /\ SharesAreCounted /\ MappingsAgree /\ CacheIsCounted /\ OpsEndWithView
SegmentKept == NothingLost /\ PagesHaveOwners /\ NothingLeft /\ ReadOnlyStays /\ NoBugCheck
===============================================================================
