-------------------------------- MODULE MmPaging -------------------------------
(***************************************************************************)
(* Anonymous memory (mm/anonmem.c, pageop.c, rmap.c, parts of i386/page.c and    *)
(* pagefile.c): one memory area whose pages are faulted in, written, paged     *)
(* out, decommitted and freed.  A page operation, found by its address, keeps    *)
(* others away from a page whose owner does not hold the address space's lock.   *)
(*                                                                         *)
(* A fault holds the lock but where it waits; what it does between two waits is   *)
(* one step, except where the pager, who works without the lock, could see it.   *)
(***************************************************************************)
EXTENDS Integers, FiniteSets

CONSTANTS
  Users,         \* threads that use the area
  Releasers,     \* those of them that release it
  Pagers,        \* threads that trim: the balancer, and those over their target
  Size,          \* pages of the area
  Pages, Swaps,  \* physical pages, entries of the paging file
  None,
  MaxFaults,     \* bound: faults, locks and frees of a thread
  MaxTrims,      \* bound: pages a pager tries
  WriteFails,    \* page-outs whose write may fail: of pages with a "saved" entry, a "fresh" one
  Locks,         \* TRUE where pages are locked for a device
  Decommits,     \* TRUE where pages are decommitted
  Reallocates    \* TRUE where an area is allocated again

PagingAssumption ==
  /\ Size \in Nat \ {0} /\ MaxFaults \in Nat /\ MaxTrims \in Nat
  /\ Users \cap Pagers = {} /\ Releasers \subseteq Users
  /\ None \notin Users \cup Pagers \cup Pages \cup Swaps
  /\ WriteFails \subseteq {"saved", "fresh"}
  /\ {Locks, Decommits, Reallocates} \subseteq BOOLEAN

VARIABLES
  pte,        \* address -> page table entry
  rmap,       \* page -> address in its RmapListHead, or None
  saved,      \* page -> SavedSwapEntry
  free,       \* free pages
  allocated,  \* entries of the paging file in use
  content,    \* page -> what it holds
  disk,       \* entry -> what it holds
  value,      \* address -> what was last written there
  reserved,   \* addresses in a region of type MEM_RESERVE
  area,       \* the memory area: "there", "deleting" or "gone"
  op,         \* address -> its page operation
  lock,       \* owner of the address space's lock
  pc, addr, hand, swap,  \* thread -> place, address, page and entry at hand
  locks,      \* user -> the page it has locked
  count,      \* thread -> faults or trims
  stopped     \* KEBUGCHECK, or what is freed, or no page, or no entry, is taken for one

vars == <<pte, rmap, saved, free, allocated, content, disk, value, reserved, area, op, lock,
          pc, addr, hand, swap, locks, count, stopped>>

Addresses == 1..Size
Threads   == Users \cup Pagers
Empty     == [kind |-> "empty", at |-> None, dirty |-> FALSE]
NoOp      == [refs |-> 0, thread |-> None, type |-> "none", status |-> "none"]

Init ==
  /\ pte = [a \in Addresses |-> Empty] /\ value = [a \in Addresses |-> 0]
  /\ rmap = [p \in Pages |-> None] /\ saved = [p \in Pages |-> None]
  /\ free = Pages /\ allocated = {} /\ content = [p \in Pages |-> 0]
  /\ disk = [s \in Swaps |-> 0] /\ reserved = {} /\ area = "there"
  /\ op = [a \in Addresses |-> NoOp] /\ lock = None
  /\ pc = [t \in Threads |-> "out"] /\ addr = [t \in Threads |-> None]
  /\ hand = [t \in Threads |-> None] /\ swap = [t \in Threads |-> None]
  /\ locks = [t \in Users |-> None] /\ count = [t \in Threads |-> 0]
  /\ stopped = FALSE

memory == <<pte, rmap, saved, free, allocated, content, disk, value, reserved>>
local  == <<addr, hand, swap>>

Go(t, place) == pc' = [pc EXCEPT ![t] = place]

\* The routine ends, and what it had at hand is forgotten.
Leave(t) ==
  /\ Go(t, "out")
  /\ addr' = [addr EXCEPT ![t] = None]
  /\ hand' = [hand EXCEPT ![t] = None]
  /\ swap' = [swap EXCEPT ![t] = None]

Stop == stopped' = TRUE

\* MmGetPfnForProcess.
Present(a) == pte[a].kind = "present"

\* Pages nobody refers to any more.
Freed(p) == free \cup ({p} \ {locks[u] : u \in Users})
-------------------------------------------------------------------------------
\* MmGetPageOp where there is none, and where there is one; MmReleasePageOp.
CreatePageOp(t, a, type) ==
  op' = [op EXCEPT ![a] = [refs |-> 1, thread |-> t, type |-> type, status |-> "pending"]]

ReferencePageOp(a) == op' = [op EXCEPT ![a].refs = @ + 1]

MmReleasePageOp(a) == op' = [op EXCEPT ![a] = IF @.refs = 1 THEN NoOp ELSE [@ EXCEPT !.refs = @ - 1]]

\* The status and the event.
Complete(a, status) == op' = [op EXCEPT ![a].status = status]
-------------------------------------------------------------------------------
\* A user writes where its page is present; the processor sets the dirty bit.
Write(t, a) ==
  /\ pc[t] = "out" /\ Present(a)
  /\ value' = [value EXCEPT ![a] = 1 - @]
  /\ content' = [content EXCEPT ![pte[a].at] = value'[a]]
  /\ pte' = [pte EXCEPT ![a].dirty = TRUE]
  /\ UNCHANGED <<rmap, saved, free, allocated, disk, reserved, area, op, lock, pc, local, locks,
                 count, stopped>>

\* A routine of t's begins with the address space's lock.
Begins(t, place) ==
  /\ pc[t] = "out" /\ lock = None /\ count[t] < MaxFaults
  /\ count' = [count EXCEPT ![t] = @ + 1]
  /\ lock' = t
  /\ Go(t, place)

\* MmNotPresentFault.
MmNotPresentFault(t, a) ==
  /\ t \in Users /\ ~Present(a) /\ Begins(t, "fault")
  /\ addr' = [addr EXCEPT ![t] = a]
  /\ UNCHANGED <<memory, area, op, hand, swap, locks, stopped>>

\* The fault ends at once, or joins the operation on its page, or begins one.
FaultEnds(t) ==
  /\ pc[t] = "fault"
  /\ area # "there" \/ Present(addr[t]) \/ addr[t] \in reserved
  /\ lock' = None /\ Leave(t)
  /\ UNCHANGED <<memory, area, op, locks, count, stopped>>

FaultJoins(t) ==
  /\ pc[t] = "fault"
  /\ area = "there" /\ ~Present(addr[t]) /\ addr[t] \notin reserved
  /\ op[addr[t]].refs > 0
  /\ ReferencePageOp(addr[t])
  /\ lock' = None /\ Go(t, "wait")
  /\ UNCHANGED <<memory, area, local, locks, count, stopped>>

FaultBegins(t) ==
  /\ pc[t] = "fault"
  /\ area = "there" /\ ~Present(addr[t]) /\ addr[t] \notin reserved
  /\ op[addr[t]].refs = 0
  /\ CreatePageOp(t, addr[t], "in")
  /\ Go(t, "request")
  /\ UNCHANGED <<memory, area, lock, local, locks, count, stopped>>

\* The wait for another's operation is over: it is looked at again with the lock, and the
\* fault restarted where the page was not paged in.
FaultWaited(t) ==
  /\ pc[t] = "wait" /\ op[addr[t]].status # "pending" /\ lock = None
  /\ MmReleasePageOp(addr[t])
  /\ \/ /\ op[addr[t]].type = "out"
        /\ lock' = t /\ Go(t, "fault") /\ UNCHANGED local
     \/ op[addr[t]].type = "in" /\ Leave(t) /\ UNCHANGED lock
  /\ UNCHANGED <<memory, area, locks, count, stopped>>

\* A page, if there is one at once, or after a wait without the lock.
TakePage(t) ==
  \E p \in free :
    /\ free' = free \ {p}
    /\ content' = [content EXCEPT ![p] = 0]
    /\ hand' = [hand EXCEPT ![t] = p]

RequestPage(t) ==
  /\ pc[t] = "request"
  /\ \/ TakePage(t) /\ Go(t, "read") /\ UNCHANGED lock
     \/ lock' = None /\ Go(t, "more") /\ UNCHANGED <<free, content, hand>>
  /\ UNCHANGED <<pte, rmap, saved, allocated, disk, value, reserved, area, op, addr, swap, locks,
                 count, stopped>>

WaitForPage(t) ==
  /\ pc[t] = "more" /\ TakePage(t) /\ Go(t, "relock")
  /\ UNCHANGED <<pte, rmap, saved, allocated, disk, value, reserved, area, op, lock, addr, swap,
                 locks, count, stopped>>

Relock(t) ==
  /\ pc[t] = "relock" /\ lock = None
  /\ lock' = t /\ Go(t, "read")
  /\ UNCHANGED <<memory, area, op, local, locks, count, stopped>>

\* A page that was paged out is read; its entry stays with it while it is clean.
ReadSwapPage(t) ==
  LET a == addr[t]  p == hand[t]  s == pte[a].at
  IN /\ pc[t] = "read"
     /\ \/ pte[a].kind = "empty" /\ UNCHANGED <<pte, content, saved>>
        \/ /\ pte[a].kind = "swap"
           /\ pte' = [pte EXCEPT ![a] = Empty]
           /\ content' = [content EXCEPT ![p] = disk[s]]
           /\ saved' = [saved EXCEPT ![p] = s]
     /\ Go(t, "map")
     /\ UNCHANGED <<rmap, free, allocated, disk, value, reserved, area, op, lock, local, locks,
                    count, stopped>>

\* MmCreateVirtualMapping, MmInsertRmap, and the end of the fault.
MapPage(t) ==
  LET a == addr[t]  p == hand[t]
  IN /\ pc[t] = "map"
     /\ pte' = [pte EXCEPT ![a] = [kind |-> "present", at |-> p, dirty |-> FALSE]]
     /\ rmap' = [rmap EXCEPT ![p] = a]
     /\ Complete(a, "success")
     /\ Go(t, "release")
     /\ hand' = [hand EXCEPT ![t] = None]
     /\ UNCHANGED <<saved, free, allocated, content, disk, value, reserved, area, lock, addr,
                    swap, locks, count, stopped>>

\* MmReleasePageOp of a fault, which gives the lock back, and of a pager.
ReleaseOwn(t) ==
  /\ pc[t] \in {"release", "outRelease"}
  /\ MmReleasePageOp(addr[t])
  /\ lock' = IF lock = t THEN None ELSE lock
  /\ Leave(t)
  /\ UNCHANGED <<memory, area, locks, count, stopped>>
-------------------------------------------------------------------------------
\* MmPageOutPhysicalAddress: the page's address, unless the page is locked.
ReadRmap(t, p) ==
  /\ t \in Pagers /\ pc[t] = "out" /\ count[t] < MaxTrims
  /\ rmap[p] # None /\ \A u \in Users : locks[u] # p
  /\ addr' = [addr EXCEPT ![t] = rmap[p]]
  /\ count' = [count EXCEPT ![t] = @ + 1]
  /\ Go(t, "outLock")
  /\ UNCHANGED <<memory, area, op, lock, hand, swap, locks, stopped>>

\* With the address space locked there must be an area, and no operation on the address.
PageOutLocked(t) ==
  /\ pc[t] = "outLock" /\ lock = None
  /\ IF area = "there" /\ op[addr[t]].refs = 0
     THEN CreatePageOp(t, addr[t], "out") /\ Go(t, "outDisable") /\ UNCHANGED local
     ELSE Leave(t) /\ UNCHANGED op
  /\ UNCHANGED <<memory, area, lock, locks, count, stopped>>

\* Mutated: the dirty bit is gone when it is asked for.
DisableCleans(t) ==
  LET a == addr[t]
  IN /\ pc[t] = "outDisable" /\ area # "deleting"
     /\ IF Present(a)
        THEN /\ pte' = [pte EXCEPT ![a].kind = "disabled", ![a].dirty = FALSE]
             /\ hand' = [hand EXCEPT ![t] = pte[a].at]
             /\ Go(t, "outDelete") /\ UNCHANGED stopped
        ELSE Stop /\ UNCHANGED <<pte, hand, pc>>
     /\ UNCHANGED <<rmap, saved, free, allocated, content, disk, value, reserved, area, op, lock,
                    addr, swap, locks, count>>

\* MmPageOutVirtualMemory: nothing for an area that is being deleted, otherwise the mapping is
\* disabled, which must be there.
PageOutOfDeleted(t) ==
  /\ pc[t] = "outDisable" /\ area = "deleting"
  /\ Complete(addr[t], "failure") /\ Go(t, "outRelease")
  /\ UNCHANGED <<memory, area, lock, local, locks, count, stopped>>

MmDisableVirtualMapping(t) ==
  LET a == addr[t]
  IN /\ pc[t] = "outDisable" /\ area # "deleting"
     /\ \/ /\ Present(a)
           /\ pte' = [pte EXCEPT ![a].kind = "disabled"]
           /\ hand' = [hand EXCEPT ![t] = pte[a].at]
           /\ Go(t, IF pte[a].dirty THEN "outSwap" ELSE "outDelete")
           /\ UNCHANGED stopped
        \/ ~Present(a) /\ Stop /\ UNCHANGED <<pte, hand, pc>>
     /\ UNCHANGED <<rmap, saved, free, allocated, content, disk, value, reserved, area, op, lock,
                    addr, swap, locks, count>>

\* The entry of the paging file: the page's own, or a new one.
MmAllocSwapPage(t) ==
  LET a == addr[t]  p == hand[t]
  IN /\ pc[t] = "outSwap"
     /\ \/ /\ saved[p] # None
           /\ swap' = [swap EXCEPT ![t] = saved[p]]
           /\ Go(t, "outWrite") /\ UNCHANGED <<allocated, pte, op, hand>>
        \/ /\ saved[p] = None
           /\ \E s \in Swaps \ allocated :
                allocated' = allocated \cup {s} /\ swap' = [swap EXCEPT ![t] = s]
           /\ Go(t, "outWrite") /\ UNCHANGED <<pte, op, hand>>
        \/ /\ saved[p] = None /\ allocated = Swaps
           /\ pte' = [pte EXCEPT ![a].kind = "present"]
           /\ hand' = [hand EXCEPT ![t] = None]
           /\ Complete(a, "failure") /\ Go(t, "outRelease")
           /\ UNCHANGED <<allocated, swap>>
     /\ UNCHANGED <<rmap, saved, free, content, disk, value, reserved, area, lock, addr, locks,
                    count, stopped>>

\* The write, which may fail: the mapping is enabled again.
MmWriteToSwapPage(t) ==
  LET a == addr[t]  p == hand[t]
  IN /\ pc[t] = "outWrite"
     /\ \/ /\ disk' = [disk EXCEPT ![swap[t]] = content[p]]
           /\ Go(t, "outDelete") /\ UNCHANGED <<pte, op, hand>>
        \/ /\ (IF saved[p] = None THEN "fresh" ELSE "saved") \in WriteFails
           /\ pte' = [pte EXCEPT ![a].kind = "present"]
           /\ hand' = [hand EXCEPT ![t] = None]
           /\ Complete(a, "failure") /\ Go(t, "outRelease")
           /\ UNCHANGED disk
     /\ UNCHANGED <<rmap, saved, free, allocated, content, value, reserved, area, lock, addr,
                    swap, locks, count, stopped>>

\* The mapping and the page's reverse mappings go, its entry takes the mapping's place, and
\* the page is released.
DeleteAllRmaps(t) ==
  LET a == addr[t]  p == hand[t]
      s == IF swap[t] # None THEN swap[t] ELSE saved[p]
  IN /\ pc[t] = "outDelete"
     /\ \/ /\ rmap[p] # None
           /\ pte' = [pte EXCEPT ![a] = IF s = None THEN Empty
                                        ELSE [kind |-> "swap", at |-> s, dirty |-> FALSE]]
           /\ rmap' = [rmap EXCEPT ![p] = None] /\ saved' = [saved EXCEPT ![p] = None]
           /\ free' = Freed(p)
           /\ hand' = [hand EXCEPT ![t] = None]
           /\ Complete(a, "success") /\ Go(t, "outRelease")
           /\ UNCHANGED stopped
        \/ rmap[p] = None /\ Stop /\ UNCHANGED <<pte, rmap, saved, free, hand, op, pc>>
     /\ UNCHANGED <<allocated, content, disk, value, reserved, area, lock, addr, swap, locks,
                    count>>
-------------------------------------------------------------------------------
\* What becomes of the page or the entry of an address of a set that is freed, all with the
\* lock: a mapping that is not present is taken for one of the paging file.
FreePages(as) ==
  LET mapped == {a \in as : Present(a)}
      gone   == {pte[a].at : a \in mapped}
      lost   == {pte[a].at : a \in {b \in as : pte[b].kind = "swap"}} \cup {saved[p] : p \in gone}
  IN /\ pte' = [a \in Addresses |-> IF a \in as THEN Empty ELSE pte[a]]
     /\ rmap' = [p \in Pages |-> IF p \in gone THEN None ELSE rmap[p]]
     /\ saved' = [p \in Pages |-> IF p \in gone THEN None ELSE saved[p]]
     /\ free' = free \cup (gone \ {locks[u] : u \in Users})
     /\ allocated' = allocated \ lost
     /\ value' = [a \in Addresses |-> IF a \in as THEN 0 ELSE value[a]]
     /\ stopped' = \E a \in as : pte[a].kind = "disabled"
     /\ UNCHANGED <<content, disk>>

\* MmFreeVirtualMemory: the area is marked, also where another has marked it, and every
\* operation that is there waited for.
NtFreeVirtualMemory(t) ==
  /\ t \in Releasers /\ Begins(t, "freeing")
  /\ IF area # "gone" THEN area' = "deleting" /\ addr' = [addr EXCEPT ![t] = 1]
                      ELSE UNCHANGED <<area, addr>>
  /\ UNCHANGED <<memory, op, hand, swap, locks, stopped>>

\* There was no area.
FreeNothing(t) ==
  /\ pc[t] = "freeing" /\ addr[t] = None
  /\ lock' = None /\ Leave(t)
  /\ UNCHANGED <<memory, area, op, locks, count, stopped>>

MmCheckForPageOp(t) ==
  /\ pc[t] = "freeing" /\ addr[t] \in Addresses
  /\ \/ /\ op[addr[t]].refs = 0
        /\ addr' = [addr EXCEPT ![t] = @ + 1] /\ UNCHANGED <<op, lock, pc>>
     \/ /\ op[addr[t]].refs > 0
        /\ ReferencePageOp(addr[t])
        /\ lock' = None /\ Go(t, "freeWait") /\ UNCHANGED addr
  /\ UNCHANGED <<memory, area, hand, swap, locks, count, stopped>>

FreeWaited(t) ==
  /\ pc[t] = "freeWait" /\ op[addr[t]].status # "pending" /\ lock = None
  /\ MmReleasePageOp(addr[t])
  /\ addr' = [addr EXCEPT ![t] = @ + 1]
  /\ lock' = t /\ Go(t, "freeing")
  /\ UNCHANGED <<memory, area, hand, swap, locks, count, stopped>>

\* The regions and the area are freed: again, where another has freed them since.
MmFreeMemoryArea(t) ==
  /\ pc[t] = "freeing" /\ addr[t] = Size + 1
  /\ \/ area # "gone" /\ FreePages(Addresses) /\ reserved' = {} /\ area' = "gone"
     \/ area = "gone" /\ Stop /\ UNCHANGED <<memory, area>>
  /\ lock' = None /\ Leave(t)
  /\ UNCHANGED <<op, locks, count>>

\* MmModifyAttributes, by NtFreeVirtualMemory for a page that is decommitted.
MmModifyAttributes(t, a) ==
  /\ Decommits /\ t \in Users /\ pc[t] = "out" /\ lock = None
  /\ area # "gone" /\ a \notin reserved /\ count[t] < MaxFaults
  /\ FreePages({a})
  /\ reserved' = reserved \cup {a}
  /\ count' = [count EXCEPT ![t] = @ + 1]
  /\ UNCHANGED <<area, op, lock, pc, local, locks>>

\* NtAllocateVirtualMemory, at the same addresses.
NtAllocateVirtualMemory(t) ==
  /\ Reallocates /\ t \in Users /\ pc[t] = "out" /\ lock = None /\ area = "gone"
  /\ count[t] < MaxFaults
  /\ area' = "there"
  /\ count' = [count EXCEPT ![t] = @ + 1]
  /\ UNCHANGED <<memory, op, lock, pc, local, locks, stopped>>

\* MmProbeAndLockPages for a page that is present, and MmUnlockPages.
MmProbeAndLockPages(t, a) ==
  /\ Locks /\ pc[t] = "out" /\ lock = None /\ locks[t] = None /\ Present(a)
  /\ count[t] < MaxFaults
  /\ count' = [count EXCEPT ![t] = @ + 1]
  /\ locks' = [locks EXCEPT ![t] = pte[a].at]
  /\ UNCHANGED <<memory, area, op, lock, pc, local, stopped>>

MmUnlockPages(t) ==
  LET p == locks[t]
  IN /\ p # None
     /\ locks' = [locks EXCEPT ![t] = None]
     /\ free' = IF \/ \E a \in Addresses : pte[a].at = p
                   \/ \E u \in Threads : hand[u] = p
                   \/ \E u \in Users \ {t} : locks[u] = p
                THEN free ELSE free \cup {p}
     /\ UNCHANGED <<pte, rmap, saved, allocated, content, disk, value, reserved, area, op, lock,
                    pc, local, count, stopped>>

\* What a thread does once it is in a routine.
Goes(t) ==
  \/ FaultEnds(t) \/ FaultJoins(t) \/ FaultBegins(t) \/ FaultWaited(t)
  \/ RequestPage(t) \/ WaitForPage(t) \/ Relock(t) \/ ReadSwapPage(t) \/ MapPage(t)
  \/ ReleaseOwn(t)
  \/ PageOutLocked(t) \/ PageOutOfDeleted(t) \/ MmDisableVirtualMapping(t) \/ MmAllocSwapPage(t)
  \/ MmWriteToSwapPage(t) \/ DeleteAllRmaps(t)
  \/ FreeNothing(t) \/ MmCheckForPageOp(t) \/ FreeWaited(t) \/ MmFreeMemoryArea(t)

Next ==
  /\ ~stopped
  /\ \/ \E t \in Threads : Goes(t)
     \/ \E t \in Users :
          \/ \E a \in Addresses : Write(t, a) \/ MmNotPresentFault(t, a)
                                    \/ MmModifyAttributes(t, a) \/ MmProbeAndLockPages(t, a)
          \/ NtFreeVirtualMemory(t) \/ NtAllocateVirtualMemory(t) \/ MmUnlockPages(t)
     \/ \E t \in Pagers, p \in Pages : ReadRmap(t, p)

Spec == Init /\ [][Next]_vars

\* Everyone goes on who is in a routine; faults, trims and frees are bounded, so that nobody
\* takes the lock from another for ever.
FairSpec == Spec /\ \A t \in Threads : WF_vars(~stopped /\ Goes(t))
-------------------------------------------------------------------------------
TypeOK ==
  /\ pte \in [Addresses -> [kind : {"empty", "present", "disabled", "swap"},
                            at : Pages \cup Swaps \cup {None}, dirty : BOOLEAN]]
  /\ rmap \in [Pages -> Addresses \cup {None}] /\ saved \in [Pages -> Swaps \cup {None}]
  /\ free \subseteq Pages /\ allocated \subseteq Swaps /\ reserved \subseteq Addresses
  /\ content \in [Pages -> {0, 1}] /\ disk \in [Swaps -> {0, 1}]
  /\ value \in [Addresses -> {0, 1}] /\ area \in {"there", "deleting", "gone"}
  /\ op \in [Addresses -> [refs : Nat, thread : Threads \cup {None}, type : {"none", "in", "out"},
                           status : {"none", "pending", "success", "failure"}]]
  /\ lock \in Threads \cup {None}
  /\ pc \in [Threads -> {"out", "fault", "wait", "request", "more", "relock", "read", "map",
                         "release", "outLock", "outDisable", "outSwap", "outWrite", "outDelete",
                         "outRelease", "freeing", "freeWait"}]
  /\ addr \in [Threads -> 1..(Size + 1) \cup {None}] /\ hand \in [Threads -> Pages \cup {None}]
  /\ swap \in [Threads -> Swaps \cup {None}] /\ locks \in [Users -> Pages \cup {None}]
  /\ count \in [Threads -> Nat] /\ stopped \in BOOLEAN

\* Where the contents of address a are: in its page, in the paging file, in the hands of a
\* fault that has read it, or they are the zeroes of a page not touched yet.
HasValue(a) ==
  \/ pte[a].kind \in {"present", "disabled"} /\ content[pte[a].at] = value[a]
  \/ pte[a].kind = "swap" /\ disk[pte[a].at] = value[a]
  \/ /\ pte[a].kind = "empty"
     /\ \/ \E t \in Users : pc[t] = "map" /\ addr[t] = a /\ content[hand[t]] = value[a]
        \/ value[a] = 0 /\ \A t \in Users : pc[t] = "map" => addr[t] # a

\* What was written to the area last is what is read there, wherever paging has put it.
NothingLost == \A a \in Addresses : HasValue(a)

\* A page is free, or of one address, or in one fault's hands; the reverse mapping is the
\* mapping's, but for the time in which one thread changes both.
PagesHaveOneUse ==
  /\ \A p \in Pages :
       Cardinality({a \in Addresses : pte[a].at = p})
         + Cardinality({t \in Users : hand[t] = p}) + (IF p \in free THEN 1 ELSE 0) = 1
  /\ \A p \in Pages, a \in Addresses : rmap[p] = a <=> pte[a].at = p

\* An entry of the paging file that is in use belongs to one mapping or one clean page, or to
\* the page-out that has allocated it; none is lost.
EntriesHaveOneUse ==
  \A s \in Swaps :
    Cardinality({a \in Addresses : pte[a].at = s}) + Cardinality({p \in Pages : saved[p] = s})
      + Cardinality({t \in Pagers : swap[t] = s /\ pc[t] \in {"outWrite", "outDelete"}
                                      /\ saved[hand[t]] # s})
      = (IF s \in allocated THEN 1 ELSE 0)

\* Nobody works on a page of an area that is gone.
FreeWaitsForOps == area = "gone" => \A a \in Addresses : op[a].status # "pending"

\* The system does not stop.
NoBugCheck == ~stopped

\* No operation outlives the area it points to: "Wait for any ongoing paging operations".
OpsEndWithArea == area = "gone" => \A a \in Addresses : op[a].refs = 0

\* A page that is locked for a device stays where it is mapped.
LockedStays == \A u \in Users : locks[u] # None => rmap[locks[u]] # None

\* A page is not mapped where the region has been decommitted.
ReservedIsEmpty == \A a \in reserved : pte[a] = Empty

\* A fault comes to its end.
FaultsReturn == \A t \in Users : pc[t] = "fault" ~> pc[t] = "out"
===============================================================================
