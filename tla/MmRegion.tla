------------------------------- MODULE MmRegion --------------------------------
(***************************************************************************)
(* The regions of a memory area (mm/region.c): a list of lengths, each with a    *)
(* type and a protection, that MmAlterRegion splits and merges, and the pages  *)
(* of the area, which it hands to MmModifyAttributes region by region.          *)
(* Callers hold the address space's lock, so that a call is one step.  Offsets   *)
(* and lengths are in pages, from the start of the area.                        *)
(***************************************************************************)
EXTENDS Integers, Sequences, FiniteSets

CONSTANTS
  Size,      \* length of the area
  Protects,  \* protections other than PAGE_NOACCESS
  Spans      \* TRUE where one call may reach more than one region

RegionAssumption ==
  /\ Size \in Nat \ {0} /\ "NOACCESS" \notin Protects /\ Spans \in BOOLEAN

Pages == 0..(Size - 1)
Kinds == {"RESERVE", "COMMIT"} \X (Protects \cup {"NOACCESS"})

VARIABLES
  regions,  \* RegionListHead: <<[kind, length], ...>>, a kind is <<Type, Protect>>
  mapped,   \* page -> "absent", or the protection it is present with
  asked,    \* page -> the kind that was last asked for
  written   \* pages in use since they were last committed

vars == <<regions, mapped, asked, written>>

\* The offsets a region covers, and the region at an offset.
Base(rs, i) ==
  LET base[j \in 1..i] == IF j = 1 THEN 0 ELSE base[j - 1] + rs[j - 1].length IN base[i]
Beyond(rs, i)      == Base(rs, i) + rs[i].length
MmFindRegion(p)    == CHOOSE i \in DOMAIN regions : Base(regions, i) <= p /\ p < Beyond(regions, i)

\* MmInitialiseRegion.
MmInitialiseRegion(kind) ==
  /\ regions = <<[kind |-> kind, length |-> Size]>>
  /\ mapped = [p \in Pages |-> "absent"]
  /\ asked = [p \in Pages |-> kind]
  /\ written = {}

Init == \E kind \in Kinds : MmInitialiseRegion(kind)
-------------------------------------------------------------------------------
Least(a, b) == IF a <= b THEN a ELSE b

\* MmSplitRegion: the part of region i before start, the new region, the part from end on.
Part(kind, length) == IF length > 0 THEN <<[kind |-> kind, length |-> length]>> ELSE <<>>

MmSplitRegion(i, start, end, kind) ==
  LET r == regions[i]
  IN SubSeq(regions, 1, i - 1)
       \o Part(r.kind, start - Base(regions, i))
       \o Part(kind, Least(end, Beyond(regions, i)) - start)
       \o Part(r.kind, Beyond(regions, i) - end)
       \o SubSeq(regions, i + 1, Len(regions))

\* Region j of rs takes in the regions that end by end, and the part of the next up to end.
Extend(rs, j, end) ==
  LET whole == {k \in (j + 1)..Len(rs) : Beyond(rs, k) <= end}
      last  == j + Cardinality(whole)
      grown == [rs[j] EXCEPT !.length =
                  IF last < Len(rs) /\ end > Beyond(rs, last) THEN end - Base(rs, j)
                  ELSE Beyond(rs, last) - Base(rs, j)]
      rest  == SubSeq(rs, last + 1, Len(rs))
  IN SubSeq(rs, 1, j - 1) \o <<grown>>
       \o (IF rest = <<>> \/ end <= Beyond(rs, last) THEN rest
           ELSE [rest EXCEPT ![1].length = Beyond(rs, last + 1) - end])

\* Region j of rs is merged with the next, then with the previous one, if of the same kind.
Join(rs, j) ==
  IF j \in 1..(Len(rs) - 1) /\ rs[j].kind = rs[j + 1].kind
  THEN SubSeq(rs, 1, j - 1) \o <<[rs[j] EXCEPT !.length = @ + rs[j + 1].length]>>
         \o SubSeq(rs, j + 2, Len(rs))
  ELSE rs

\* The calls of AlterFunc.  In the regions after the first it is called only where type and
\* protection both change, with the whole length of the last, and at addresses that count
\* from start even if the region extended began before it.
Calls(i, start, end, kind) ==
  LET same == regions[i].kind = kind
      shift == IF same THEN start - Base(regions, i) ELSE 0
      later == {k \in (i + 1)..Len(regions) :
                  /\ Base(regions, k) < end
                  /\ regions[k].kind[1] # kind[1] /\ regions[k].kind[2] # kind[2]}
  IN {[from |-> shift + Base(regions, k), to |-> shift + Beyond(regions, k),
       old |-> regions[k].kind] : k \in later}
     \cup IF same THEN {}
          ELSE {[from |-> start, to |-> Least(end, Beyond(regions, i)), old |-> regions[i].kind]}

\* MmModifyAttributes of the range of one call.
Affects(c, p) == c.from <= p /\ p < c.to

MmModifyAttributes(calls, kind) ==
  mapped' = [p \in Pages |->
    IF kind[1] = "RESERVE" /\ \E c \in calls : Affects(c, p) /\ c.old[1] = "COMMIT" THEN "absent"
    ELSE IF /\ kind[1] = "COMMIT" /\ mapped[p] # "absent"
            /\ \E c \in calls : Affects(c, p) /\ c.old[1] = "COMMIT" /\ c.old[2] # kind[2]
         THEN kind[2] ELSE mapped[p]]

MmAlterRegion(start, length, kind) ==
  LET i     == MmFindRegion(start)
      end   == start + length
      same  == regions[i].kind = kind
      j     == IF same \/ start = Base(regions, i) THEN i ELSE i + 1
      split == IF same THEN regions ELSE MmSplitRegion(i, start, end, kind)
  IN /\ Spans \/ end <= Beyond(regions, i)
     /\ regions' = Join(Join(Extend(split, j, end), j), j - 1)
     /\ MmModifyAttributes(Calls(i, start, end, kind), kind)
     /\ asked' = [p \in Pages |-> IF start <= p /\ p < end THEN kind ELSE asked[p]]
     /\ written' = IF kind[1] = "RESERVE" THEN written \ (start..(end - 1)) ELSE written

\* Commits or reserves part of an area that is there; decommits, also beyond its end;
\* protects.
NtAllocateVirtualMemory(start, length, kind) == MmAlterRegion(start, length, kind)
NtFreeVirtualMemory(start, length) == MmAlterRegion(start, length, <<"RESERVE", "NOACCESS">>)
MmProtectAnonMem(start, length, protect) ==
  MmAlterRegion(start, length, <<regions[MmFindRegion(start)].kind[1], protect>>)

\* A fault of a page that is not present maps it as its region says, and fails in reserved
\* or inaccessible memory.
MmNotPresentFaultVirtualMemory(p) ==
  LET kind == regions[MmFindRegion(p)].kind
  IN /\ mapped[p] = "absent" /\ kind[1] = "COMMIT" /\ kind[2] # "NOACCESS"
     /\ mapped' = [mapped EXCEPT ![p] = kind[2]]
     /\ written' = written \cup {p}
     /\ UNCHANGED <<regions, asked>>

Next ==
  \/ \E start \in Pages, length \in 1..Size :
       \/ \E kind \in Kinds : NtAllocateVirtualMemory(start, length, kind)
       \/ NtFreeVirtualMemory(start, length)
       \/ \E protect \in Protects \cup {"NOACCESS"} : MmProtectAnonMem(start, length, protect)
  \/ \E p \in Pages : MmNotPresentFaultVirtualMemory(p)

Spec == Init /\ [][Next]_vars
-------------------------------------------------------------------------------
TypeOK ==
  /\ regions \in Seq([kind : Kinds, length : 1..Size])
  /\ mapped \in [Pages -> Protects \cup {"NOACCESS", "absent"}]
  /\ asked \in [Pages -> Kinds] /\ written \subseteq Pages

\* The list covers the area, gives every page the kind that was asked for, and no two regions
\* beside each other have one kind.
RegionsFollowCalls ==
  /\ Beyond(regions, Len(regions)) = Size
  /\ \A p \in Pages : regions[MmFindRegion(p)].kind = asked[p]
  /\ \A i \in 1..(Len(regions) - 1) : regions[i].kind # regions[i + 1].kind

\* A page in use stays present, with the protection that was asked for; no other page is.
PagesFollowCalls ==
  \A p \in Pages : mapped[p] = IF p \in written THEN asked[p][2] ELSE "absent"
===============================================================================
