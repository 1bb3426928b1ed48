-------------------------------- MODULE CcView ---------------------------------
(***************************************************************************)
(* The cache segments of one file (cc/view.c): threads that read and write      *)
(* through the cache, map its pages into sections and unmap them (mm/section.c), *)
(* and flush; the thread that writes dirty segments (mm/mpw.c), and the          *)
(* balancer, which frees segments nobody refers to and pages out mapped ones.    *)
(* What is done under ViewLock is one step, for ViewLock is never held while    *)
(* waiting; BcbLock is a spin lock.  A segment is one page.                       *)
(***************************************************************************)
EXTENDS Integers, Sequences, FiniteSets, SequencesExt

CONSTANTS
  Users, Writer, Balancer,
  Segments,    \* memory for segments
  Offsets,     \* segments' places in the file
  None,
  NumPages,    \* physical pages for the cache
  MaxCalls,    \* bound: calls of a user
  Fails,       \* TRUE where reads and writes of the file may fail
  LateUnlock,  \* TRUE where the balancer may run between the last ViewLock and the unlocking
  Chains       \* TRUE where a read of two segments holds the first while it gets the second

ViewAssumption ==
  /\ Writer \notin Users /\ Balancer \notin Users /\ Writer # Balancer
  /\ None \notin Users \cup {Writer, Balancer} \cup Segments \cup Offsets
  /\ NumPages \in Nat \ {0} /\ MaxCalls \in Nat
  /\ {Fails, LateUnlock, Chains} \subseteq BOOLEAN

Threads == Users \cup {Writer, Balancer}

VARIABLES
  seg,        \* segment -> [off, valid, dirty, mapped, refs, pageOut, lock]
  lru,        \* CacheSegmentLRUListHead; the Bcb's list holds the same segments
  dirtyList,  \* DirtySegmentListHead
  freePages,  \* pages the cache may still get
  behind,     \* offsets whose last data the file does not have
  view,       \* offset -> what its page in the section is: "none", "clean", "dirty", "busy"
  pc,         \* thread -> its place
  at,         \* thread -> its segment
  call,       \* thread -> [op, off, dirty, was]: what it does, there, with what dirty, WasDirty
  held,       \* thread -> a segment of its chain it has locked already
  garbage,    \* the balancer's FreeList
  last,       \* the segment it paged out last
  calls       \* user -> calls made

vars == <<seg, lru, dirtyList, freePages, behind, view, pc, at, call, held, garbage, last, calls>>

NoSegment == [off |-> None, valid |-> FALSE, dirty |-> FALSE, mapped |-> 0, refs |-> 0,
              pageOut |-> FALSE, lock |-> None]
NoCall    == [op |-> "none", off |-> None, dirty |-> FALSE, was |-> FALSE]

Listed    == {lru[i] : i \in DOMAIN lru}
InDirty   == {dirtyList[i] : i \in DOMAIN dirtyList}
Owned     == {at[t] : t \in Threads} \cup {held[t] : t \in Threads}
SegmentAt(o) == {s \in Listed : seg[s].off = o}

Init ==
  /\ seg = [s \in Segments |-> NoSegment] /\ lru = <<>> /\ dirtyList = <<>>
  /\ freePages = NumPages /\ behind = {} /\ view = [o \in Offsets |-> "none"]
  /\ pc = [t \in Threads |-> "idle"] /\ at = [t \in Threads |-> None]
  /\ call = [t \in Threads |-> NoCall] /\ held = [t \in Threads |-> None]
  /\ garbage = {} /\ last = None /\ calls = [t \in Users |-> 0]

Go(t, place)         == pc' = [pc EXCEPT ![t] = place]
IoUnchanged          == UNCHANGED <<freePages, behind, view>>
TrimUnchanged        == UNCHANGED <<garbage, last>>
-------------------------------------------------------------------------------
\* What a user calls: reads, writes, maps a page that is not mapped, unmaps one, flushes.  The
\* unmapping of a dirty page marks the segment first (MmFreeSectionPage).
Begin(t, op, o) ==
  /\ pc[t] = "idle" /\ calls[t] < MaxCalls
  /\ op = "map" => view[o] = "none"
  /\ op = "unmap" => view[o] \in {"clean", "dirty"}
  /\ op = "chain" => Chains /\ o + 1 \in Offsets
  /\ calls' = [calls EXCEPT ![t] = @ + 1]
  /\ LET dirty == op = "unmap" /\ view[o] = "dirty"
     IN call' = [call EXCEPT ![t] = [NoCall EXCEPT !.op = IF dirty THEN "mark" ELSE op,
                                                   !.off = o, !.dirty = dirty]]
  /\ view' = IF op \in {"map", "unmap"} THEN [view EXCEPT ![o] = "busy"] ELSE view
  /\ Go(t, "lookup")
  /\ UNCHANGED <<seg, lru, dirtyList, freePages, behind, at, held>> /\ TrimUnchanged

\* A user of a mapped page writes to it, until its mappings are deleted.
Touch(o) ==
  /\ \/ /\ view[o] \in {"clean", "dirty"}
        /\ view' = [view EXCEPT ![o] = "dirty"] /\ UNCHANGED call
     \/ /\ call[Balancer].op = "pageOut" /\ call[Balancer].off = o
        /\ call' = [call EXCEPT ![Balancer].dirty = TRUE] /\ UNCHANGED view
  /\ behind' = behind \cup {o}
  /\ UNCHANGED <<seg, lru, dirtyList, freePages, pc, at, held, calls>> /\ TrimUnchanged

\* CcRosLookupCacheSegment, up to the wait for the segment's lock.
CcRosLookupCacheSegment(t) ==
  /\ pc[t] = "lookup"
  /\ IF SegmentAt(call[t].off) # {}
     THEN \E s \in SegmentAt(call[t].off) :
            /\ seg' = [seg EXCEPT ![s].refs = @ + 1]
            /\ at' = [at EXCEPT ![t] = s] /\ Go(t, "lock")
     ELSE /\ Go(t, CASE call[t].op \in {"unmap", "mark", "pageOut", "evict", "evictLast"} -> "bugcheck"
                     [] call[t].op = "flush" -> "return"
                     [] OTHER -> "create")
          /\ UNCHANGED <<seg, at>>
  /\ UNCHANGED <<lru, dirtyList, call, held, calls>> /\ IoUnchanged /\ TrimUnchanged

\* CcRosCreateCacheSegment: another thread may have created it meanwhile.
CcRosCreateCacheSegment(t, s) ==
  /\ pc[t] = "create" /\ s \in Segments \ (Listed \cup Owned \cup garbage)
  /\ IF SegmentAt(call[t].off) # {}
     THEN \E old \in SegmentAt(call[t].off) :
            /\ seg' = [seg EXCEPT ![old].refs = @ + 1]
            /\ at' = [at EXCEPT ![t] = old] /\ Go(t, "lock") /\ UNCHANGED lru
     ELSE /\ seg' = [seg EXCEPT ![s] = [NoSegment EXCEPT !.off = call[t].off, !.refs = 1,
                                                         !.lock = t]]
          /\ lru' = Append(lru, s)
          /\ at' = [at EXCEPT ![t] = s] /\ Go(t, "page")
  /\ UNCHANGED <<dirtyList, call, held, calls>> /\ IoUnchanged /\ TrimUnchanged

\* MmRequestPageMemoryConsumer: waits for the balancer where there is no page.
RequestPage(t) ==
  /\ pc[t] = "page" /\ freePages > 0 /\ freePages' = freePages - 1 /\ Go(t, "got")
  /\ UNCHANGED <<seg, lru, dirtyList, behind, view, at, call, held, calls>> /\ TrimUnchanged

Lock(t) ==
  /\ pc[t] = "lock" /\ seg[at[t]].lock = None
  /\ seg' = [seg EXCEPT ![at[t]].lock = t]
  /\ Go(t, CASE call[t].op \in {"unmap", "evict", "evictLast"} -> "unmap"
             [] call[t].op = "mark"               -> "mark"
             [] call[t].op = "flush"              -> IF seg[at[t]].dirty THEN "write" ELSE "flushed"
             [] call[t].op = "pageOut"            -> "release"
             [] OTHER                             -> "got")
  /\ UNCHANGED <<lru, dirtyList, at, call, held, calls>> /\ IoUnchanged /\ TrimUnchanged
-------------------------------------------------------------------------------
\* With the segment locked: the data are read if they are not valid, which may fail; a writer
\* changes them.
Use(t) ==
  /\ pc[t] = "got" /\ call[t].op # "chain"
  /\ \/ /\ Fails /\ ~seg[at[t]].valid
        /\ call' = [call EXCEPT ![t].op = IF @ = "map" THEN "mapFailed" ELSE "readFailed"]
        /\ UNCHANGED behind
     \/ /\ call' = [call EXCEPT ![t].dirty = call[t].op = "write"]
        /\ behind' = IF call[t].op = "write" THEN behind \cup {call[t].off} ELSE behind
  /\ Go(t, "release")
  /\ UNCHANGED <<seg, lru, dirtyList, freePages, view, at, held, calls>> /\ TrimUnchanged

\* CcRosGetCacheSegmentChain gets the next segment with the first one locked; then they are
\* read in their order.
CcRosGetCacheSegmentChain(t) ==
  /\ pc[t] = "got" /\ call[t].op = "chain"
  /\ held' = [held EXCEPT ![t] = at[t]] /\ at' = [at EXCEPT ![t] = held[t]]
  /\ IF held[t] = None
     THEN call' = [call EXCEPT ![t].off = @ + 1] /\ Go(t, "lookup")
     ELSE call' = [call EXCEPT ![t].op = "read"] /\ UNCHANGED pc
  /\ UNCHANGED <<seg, lru, dirtyList, calls>> /\ IoUnchanged /\ TrimUnchanged

\* CcRosReleaseCacheSegment, before it takes ViewLock, under it, and after it.
ReleaseBegins(t) ==
  /\ pc[t] = "release"
  /\ call' = [call EXCEPT ![t].was = seg[at[t]].dirty]
  /\ seg' = [seg EXCEPT ![at[t]].valid = IF call[t].op = "pageOut" THEN @
                                         ELSE call[t].op \notin {"readFailed", "mapFailed"},
                        ![at[t]].dirty = @ \/ (call[t].op # "pageOut" /\ call[t].dirty)]
  /\ Go(t, "released")
  /\ UNCHANGED <<lru, dirtyList, at, held, calls>> /\ IoUnchanged /\ TrimUnchanged

One(b) == IF b THEN 1 ELSE 0

\* Mutated: the reference of a dirty segment is not taken.
ReleaseUncounted(s, newly, maps) ==
  seg' = [seg EXCEPT ![s].refs = @ - 1 + One(maps /\ seg[s].mapped = 0),
                     ![s].mapped = @ + One(maps)]

ReleaseCounted(s, newly, maps) ==
  seg' = [seg EXCEPT ![s].refs = @ - 1 + One(maps /\ seg[s].mapped = 0) + One(newly),
                     ![s].mapped = @ + One(maps)]

CcRosReleaseCacheSegment(t) ==
  LET s == at[t]  newly == ~call[t].was /\ seg[s].dirty
  IN /\ pc[t] = "released"
     /\ dirtyList' = IF newly THEN Append(dirtyList, s) ELSE dirtyList
     /\ lru' = Append(Remove(lru, s), s)
     /\ ReleaseCounted(s, newly, call[t].op \in {"map", "pageOut"})
     /\ Go(t, "unlock")
     /\ UNCHANGED <<at, call, held, calls>> /\ IoUnchanged /\ TrimUnchanged

\* CcRosUnmapCacheSegment: the flag and the count, the dirty list, the references.
UnmapBegins(t) ==
  LET s == at[t]
  IN /\ pc[t] = "unmap"
     /\ call' = [call EXCEPT ![t].was = seg[s].dirty]
     /\ seg' = [seg EXCEPT ![s].dirty = @ \/ call[t].dirty, ![s].mapped = @ - 1]
     /\ Go(t, IF ~seg[s].dirty /\ call[t].dirty THEN "unmapList" ELSE "unmapCount")
     /\ UNCHANGED <<lru, dirtyList, at, held, calls>> /\ IoUnchanged /\ TrimUnchanged

UnmapLists(t) ==
  /\ pc[t] = "unmapList" /\ dirtyList' = Append(dirtyList, at[t]) /\ Go(t, "unmapCount")
  /\ UNCHANGED <<seg, lru, at, call, held, calls>> /\ IoUnchanged /\ TrimUnchanged

CcRosUnmapCacheSegment(t) ==
  LET s == at[t]
  IN /\ pc[t] = "unmapCount"
     /\ seg' = [seg EXCEPT ![s].refs = @ - 1 + One(~call[t].was /\ call[t].dirty)
                                         - One(seg[s].mapped = 0)]
     /\ Go(t, "unlock")
     /\ UNCHANGED <<lru, dirtyList, at, call, held, calls>> /\ IoUnchanged /\ TrimUnchanged

\* CcRosMarkDirtyCacheSegment keeps the reference of the lookup for a segment newly dirty.
MarkLists(t) ==
  LET s == at[t]
  IN /\ pc[t] = "mark"
     /\ IF seg[s].dirty
        THEN seg' = [seg EXCEPT ![s].refs = @ - 1] /\ UNCHANGED dirtyList
        ELSE dirtyList' = Append(dirtyList, s) /\ UNCHANGED seg
     /\ Go(t, "marked")
     /\ UNCHANGED <<lru, at, call, held, calls>> /\ IoUnchanged /\ TrimUnchanged

CcRosMarkDirtyCacheSegment(t) ==
  /\ pc[t] = "marked" /\ seg' = [seg EXCEPT ![at[t]].dirty = TRUE] /\ Go(t, "unlock")
  /\ UNCHANGED <<lru, dirtyList, at, call, held, calls>> /\ IoUnchanged /\ TrimUnchanged

\* The segment's lock is released when the reference and ViewLock are gone.
Unlock(t) ==
  /\ pc[t] = "unlock"
  /\ seg' = [seg EXCEPT ![at[t]].lock = None]
  /\ at' = [at EXCEPT ![t] = held[t]]
  /\ held' = [held EXCEPT ![t] = None]
  /\ call' = [call EXCEPT ![t].dirty = IF held[t] # None THEN FALSE ELSE @,
                          ![t].op = IF held[t] # None THEN "read" ELSE @]
  /\ Go(t, IF held[t] # None THEN "got" ELSE "return")
  /\ UNCHANGED <<lru, dirtyList, calls>> /\ IoUnchanged /\ TrimUnchanged
-------------------------------------------------------------------------------
\* CcRosFlushCacheSegment: WriteCacheSegment clears Dirty, writes, and sets it again if the
\* write failed; then the segment leaves the list.
WriteBegins(t) ==
  /\ pc[t] = "write" /\ seg' = [seg EXCEPT ![at[t]].dirty = FALSE] /\ Go(t, "writing")
  /\ UNCHANGED <<lru, dirtyList, at, call, held, calls>> /\ IoUnchanged /\ TrimUnchanged

AfterFlush(t) == IF t = Writer THEN "unlock" ELSE "flushed"

WriteCacheSegment(t) ==
  /\ pc[t] = "writing"
  /\ \/ /\ behind' = IF view[seg[at[t]].off] = "dirty" THEN behind ELSE behind \ {seg[at[t]].off}
        /\ Go(t, "written") /\ UNCHANGED seg
     \/ /\ Fails /\ seg' = [seg EXCEPT ![at[t]].dirty = TRUE]
        /\ Go(t, AfterFlush(t)) /\ UNCHANGED behind
  /\ UNCHANGED <<lru, dirtyList, freePages, view, at, call, held, calls>> /\ TrimUnchanged

CcRosFlushCacheSegment(t) ==
  /\ pc[t] = "written"
  /\ dirtyList' = Remove(dirtyList, at[t])
  /\ seg' = [seg EXCEPT ![at[t]].dirty = FALSE, ![at[t]].refs = @ - 1]
  /\ Go(t, AfterFlush(t))
  /\ UNCHANGED <<lru, at, call, held, calls>> /\ IoUnchanged /\ TrimUnchanged

\* CcFlushCache unlocks before it lets the reference go, all under BcbLock.
CcFlushCache(t) ==
  /\ pc[t] = "flushed"
  /\ seg' = [seg EXCEPT ![at[t]].lock = None, ![at[t]].refs = @ - 1]
  /\ at' = [at EXCEPT ![t] = None] /\ Go(t, "return")
  /\ UNCHANGED <<lru, dirtyList, call, held, calls>> /\ IoUnchanged /\ TrimUnchanged

\* CcRosFlushDirtyPages takes the first dirty segment that is not locked and has no other
\* reference, writes it, and begins again.
Writable(i) == seg[dirtyList[i]].lock = None /\ seg[dirtyList[i]].refs <= 1

CcRosFlushDirtyPages(t) ==
  /\ t = Writer /\ pc[t] = "idle"
  /\ \E i \in DOMAIN dirtyList :
       /\ Writable(i) /\ \A j \in 1..(i - 1) : ~Writable(j)
       /\ at' = [at EXCEPT ![t] = dirtyList[i]]
       /\ seg' = [seg EXCEPT ![dirtyList[i]].lock = t]
       /\ Go(t, IF seg[dirtyList[i]].dirty THEN "write" ELSE "bugcheck")
  /\ UNCHANGED <<lru, dirtyList, call, held, calls>> /\ IoUnchanged /\ TrimUnchanged

\* The call is over, and what the page of the section is after it.
Return(t) ==
  LET o == call[t].off
  IN /\ pc[t] = "return" /\ t # Balancer
     /\ IF call[t].op = "mark"
        THEN call' = [call EXCEPT ![t].op = "unmap"] /\ Go(t, "lookup") /\ UNCHANGED view
        ELSE /\ call' = [call EXCEPT ![t] = NoCall] /\ Go(t, "idle")
             /\ view' = CASE call[t].op = "map" -> [view EXCEPT ![o] = "clean"]
                          [] call[t].op \in {"unmap", "mapFailed"} -> [view EXCEPT ![o] = "none"]
                          [] OTHER -> view
     /\ UNCHANGED <<seg, lru, dirtyList, freePages, behind, at, held, calls>> /\ TrimUnchanged
-------------------------------------------------------------------------------
\* CcRosTrimCache, whose target is more than there is to free: from place i of the list on,
\* segments without a reference are freed, and one that is mapped and clean is paged out,
\* unless it was the last one.  The segments are those of sg.
Freeable(sg, s) ==
  /\ sg[s].refs = 0
  /\ LateUnlock \/ \A t \in Threads : ~(pc[t] = "unlock" /\ at[t] = s)

Evictable(sg, s) ==
  sg[s].refs > 0 /\ s # last /\ sg[s].mapped > 0 /\ ~sg[s].dirty /\ ~sg[s].pageOut

TrimFrom(i, sg) ==
  LET places == {j \in i..Len(lru) : Evictable(sg, lru[j])}
      stop   == IF places = {} THEN Len(lru) + 1 ELSE CHOOSE j \in places : \A k \in places : j <= k
      gone   == {lru[j] : j \in {k \in i..(stop - 1) : Freeable(sg, lru[k])}}
  IN /\ lru' = SelectSeq(lru, LAMBDA s : s \notin gone)
     /\ garbage' = garbage \cup gone
     /\ IF places = {} THEN seg' = sg /\ last' = None /\ Go(Balancer, "free")
        ELSE /\ seg' = [sg EXCEPT ![lru[stop]].refs = @ + 1, ![lru[stop]].pageOut = TRUE]
             /\ last' = lru[stop] /\ Go(Balancer, "pageOut")

TrimBegins ==
  /\ pc[Balancer] = "idle" /\ TrimFrom(1, seg)
  /\ UNCHANGED <<dirtyList, at, call, held, calls>> /\ IoUnchanged

\* MmPageOutPhysicalAddress of the segment's page, if it is mapped: MiIsPageFromCache takes
\* another mapping of the segment, then the page's mappings and that one are given up.
MmPageOutPhysicalAddress ==
  LET o == seg[last].off
  IN /\ pc[Balancer] = "pageOut"
     /\ IF view[o] \in {"clean", "dirty"}
        THEN /\ call' = [call EXCEPT ![Balancer] = [NoCall EXCEPT !.op = "pageOut", !.off = o,
                                                       !.dirty = view[o] = "dirty"]]
             /\ view' = [view EXCEPT ![o] = "busy"] /\ Go(Balancer, "lookup")
        ELSE Go(Balancer, "pagedOut") /\ UNCHANGED <<call, view>>
     /\ UNCHANGED <<seg, lru, dirtyList, freePages, behind, at, held, calls>> /\ TrimUnchanged

MmPageOutSectionView ==
  LET c == call[Balancer]
  IN /\ pc[Balancer] = "return"
     /\ IF c.op = "evictLast"
        THEN /\ call' = [call EXCEPT ![Balancer] = NoCall]
             /\ view' = [view EXCEPT ![c.off] = "none"] /\ Go(Balancer, "pagedOut")
        ELSE /\ call' = [call EXCEPT ![Balancer].op = IF c.op = "pageOut" THEN "evict" ELSE "evictLast",
                                     ![Balancer].dirty = @ /\ c.op = "pageOut"]
             /\ Go(Balancer, "lookup") /\ UNCHANGED view
     /\ UNCHANGED <<seg, lru, dirtyList, freePages, behind, at, held, calls>> /\ TrimUnchanged

\* The scan goes on at the segment itself, without the reference of the page-out.
Place(s) == CHOOSE i \in DOMAIN lru : lru[i] = s

CcRosTrimCache ==
  /\ pc[Balancer] = "pagedOut"
  /\ TrimFrom(Place(last), [seg EXCEPT ![last].refs = @ - 1, ![last].pageOut = FALSE])
  /\ UNCHANGED <<dirtyList, at, call, held, calls>> /\ IoUnchanged

CcRosInternalFreeCacheSegment ==
  /\ pc[Balancer] = "free"
  /\ freePages' = freePages + Cardinality(garbage) /\ garbage' = {}
  /\ seg' = [s \in Segments |-> IF s \in garbage THEN [NoSegment EXCEPT !.lock = seg[s].lock] ELSE seg[s]]
  /\ Go(Balancer, "idle")
  /\ UNCHANGED <<lru, dirtyList, behind, view, at, call, held, last, calls>>
-------------------------------------------------------------------------------
Step(t) ==
  \/ CcRosLookupCacheSegment(t) \/ \E s \in Segments : CcRosCreateCacheSegment(t, s)
  \/ RequestPage(t) \/ Lock(t) \/ Use(t) \/ CcRosGetCacheSegmentChain(t)
  \/ ReleaseBegins(t) \/ CcRosReleaseCacheSegment(t)
  \/ UnmapBegins(t) \/ UnmapLists(t) \/ CcRosUnmapCacheSegment(t)
  \/ MarkLists(t) \/ CcRosMarkDirtyCacheSegment(t) \/ Unlock(t)
  \/ WriteBegins(t) \/ WriteCacheSegment(t) \/ CcRosFlushCacheSegment(t) \/ CcFlushCache(t)
  \/ Return(t)

Trim ==
  \/ TrimBegins \/ MmPageOutPhysicalAddress \/ MmPageOutSectionView \/ CcRosTrimCache
  \/ CcRosInternalFreeCacheSegment

Next ==
  \/ \E t \in Users, o \in Offsets, op \in {"read", "write", "map", "unmap", "flush", "chain"} :
       Begin(t, op, o)
  \/ \E o \in Offsets : Touch(o)
  \/ \E t \in Threads : Step(t)
  \/ CcRosFlushDirtyPages(Writer)
  \/ Trim

Spec == Init /\ [][Next]_vars
-------------------------------------------------------------------------------
TypeOK ==
  /\ seg \in [Segments -> [off : Offsets \cup {None}, valid : BOOLEAN, dirty : BOOLEAN,
                           mapped : 0..2, refs : 0..(Cardinality(Threads) + 4),
                           pageOut : BOOLEAN, lock : Threads \cup {None}]]
  /\ lru \in Seq(Segments) /\ dirtyList \in Seq(Segments) /\ freePages \in 0..NumPages
  /\ behind \subseteq Offsets /\ view \in [Offsets -> {"none", "clean", "dirty", "busy"}]
  /\ at \in [Threads -> Segments \cup {None}] /\ held \in [Threads -> Segments \cup {None}]
  /\ garbage \subseteq Segments /\ last \in Segments \cup {None}

\* A part of the file is in one segment, and a thread's segment is in the list.
SegmentsStay ==
  /\ \A s \in Listed, r \in Listed : seg[s].off = seg[r].off => s = r
  /\ Len(lru) = Cardinality(Listed) /\ Len(dirtyList) = Cardinality(InDirty)
  /\ (Owned \ {None}) \cup InDirty \subseteq Listed

\* A segment's references: its threads', one while it is mapped, one while it is in the list
\* of dirty segments, one while it is paged out.
Holding == {"lock", "page", "got", "release", "released", "unmap", "unmapList", "unmapCount",
            "mark", "write", "writing", "written", "flushed"}
Holders(s) ==
  {t \in Threads : (at[t] = s /\ pc[t] \in Holding /\ ~(t = Writer)) \/ held[t] = s}
Unmapping(s, places) == \E t \in Threads : at[t] = s /\ pc[t] \in places
NotYetCounted(s) ==
  \E t \in Threads : at[t] = s /\ pc[t] = "unmapCount" /\ ~call[t].was /\ call[t].dirty

RefsAccounted ==
  \A s \in Listed :
    seg[s].refs = Cardinality(Holders(s)) + One(seg[s].pageOut)
                    + One(seg[s].mapped > 0 \/ Unmapping(s, {"unmapList", "unmapCount"}))
                    + One(s \in InDirty /\ ~NotYetCounted(s))

\* What the file does not have is in a segment, which is marked dirty where no thread is at
\* it and its mapped page is not dirty.
NothingLost ==
  \A o \in behind :
    \E s \in SegmentAt(o) :
      \/ seg[s].dirty \/ seg[s].lock # None \/ view[o] = "dirty"
      \/ \E t \in Threads : call[t].off = o /\ call[t].dirty

\* Dirty segments are in the list of dirty segments and no others are, where none is locked.
DirtyIsListed ==
  \A s \in Listed : seg[s].lock = None => (seg[s].dirty <=> s \in InDirty)

\* A mapped page's segment is found, and what the writer takes is dirty.
NoBugCheck == \A t \in Threads : pc[t] # "bugcheck"

\* The balancer does not wait for a segment whose thread waits for a page.
BalancerGoesOn ==
  pc[Balancer] = "lock" =>
    LET owner == seg[at[Balancer]].lock IN owner = None \/ pc[owner] # "page"
===============================================================================
