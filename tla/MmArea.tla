-------------------------------- MODULE MmArea ---------------------------------
(***************************************************************************)
(* The memory areas of an address space (mm/marea.c): a binary tree sorted by   *)
(* address, its links up and down, its rebalancing in the middle of an         *)
(* insertion, the removal of a node, and the searches for an address, for a    *)
(* conflict and for a gap.  Callers hold the address space's lock, so that a   *)
(* call is one step.  The unit is a page; an area is named by its start.       *)
(***************************************************************************)
EXTENDS Integers, Sequences, FiniteSets

CONSTANTS
  None,
  Lowest,        \* LowestAddress
  Kernel,        \* KERNEL_BASE
  Lengths,       \* lengths of areas
  Granularities, \* MM_VIRTMEM_GRANULARITY for virtual memory, a page for the rest
  MaxAreas,      \* bound: areas
  Limit          \* depth at which an insertion rebalances (22)

AreaAssumption ==
  /\ Lowest \in Nat /\ Kernel \in Nat /\ Lowest < Kernel /\ None \notin Nat
  /\ Lengths \subseteq Nat \ {0} /\ Granularities \subseteq Nat \ {0}
  /\ Limit \in Nat \ {0}
  /\ MaxAreas < 2 ^ Limit     \* a balanced tree is not as deep as the limit

VARIABLES
  tree,   \* MemoryAreaRoot, and the LeftChild, RightChild and Parent of the areas
  size    \* start -> length of the area there, 0 where none starts

vars == <<tree, size>>

Addresses == 0..(Kernel - 1)
Areas     == {a \in Addresses : size[a] > 0}
Ending(a) == a + size[a]

Init ==
  /\ tree = [root |-> None, left |-> [a \in Addresses |-> None],
             right |-> [a \in Addresses |-> None], parent |-> [a \in Addresses |-> None]]
  /\ size = [a \in Addresses |-> 0]
-------------------------------------------------------------------------------
\* Setting one link of a node; a link of no node is the root.
SetLeft(t, n, m)   == IF n = None THEN [t EXCEPT !.root = m] ELSE [t EXCEPT !.left[n] = m]
SetRight(t, n, m)  == [t EXCEPT !.right[n] = m]
SetParent(t, n, m) == IF n = None THEN t ELSE [t EXCEPT !.parent[n] = m]

RECURSIVE Leftmost(_, _), Rightmost(_, _), Climb(_, _, _)
Leftmost(t, n)  == IF t.left[n] = None THEN n ELSE Leftmost(t, t.left[n])
Rightmost(t, n) == IF t.right[n] = None THEN n ELSE Rightmost(t, t.right[n])

\* Up as long as one comes from the side that the links of side lead to.
Climb(t, n, side) ==
  IF t.parent[n] = None THEN None
  ELSE IF side[t.parent[n]] = n THEN Climb(t, t.parent[n], side) ELSE t.parent[n]

MmIterateNextNode(n) ==
  IF tree.right[n] # None THEN Leftmost(tree, tree.right[n]) ELSE Climb(tree, n, tree.right)

MmIteratePrevNode(n) ==
  IF tree.left[n] # None THEN Rightmost(tree, tree.left[n]) ELSE Climb(tree, n, tree.left)

\* The areas in the order in which the iteration meets them.
RECURSIVE Forward(_), Backward(_)
Forward(n)  == IF n = None THEN <<>> ELSE <<n>> \o Forward(MmIterateNextNode(n))
Backward(n) == IF n = None THEN <<>> ELSE <<n>> \o Backward(MmIteratePrevNode(n))

Ascending  == IF tree.root = None THEN <<>> ELSE Forward(Leftmost(tree, tree.root))
Descending == IF tree.root = None THEN <<>> ELSE Backward(Rightmost(tree, tree.root))
-------------------------------------------------------------------------------
\* MmLocateMemoryAreaByAddress.
RECURSIVE Locate(_, _)
Locate(n, address) ==
  IF n = None THEN None
  ELSE IF address < n THEN Locate(tree.left[n], address)
  ELSE IF address >= Ending(n) THEN Locate(tree.right[n], address)
  ELSE n

MmLocateMemoryAreaByAddress(address) == Locate(tree.root, address)

\* MmLocateMemoryAreaByRegion: the first area in order that meets one of three conditions,
\* unless one that begins beyond the region comes before it.
Meets(n, address, extent) ==
  \/ n >= address /\ n < extent
  \/ Ending(n) > address /\ Ending(n) < extent
  \/ n <= address /\ Ending(n) >= extent

MmLocateMemoryAreaByRegion(address, length) ==
  LET order == Ascending
      hits  == {i \in DOMAIN order :
                  /\ Meets(order[i], address, address + length)
                  /\ \A j \in 1..(i - 1) : order[j] < address + length}
  IN IF hits = {} THEN None ELSE order[CHOOSE i \in hits : \A j \in hits : i <= j]

RoundUp(x, g)   == ((x + g - 1) \div g) * g
RoundDown(x, g) == (x \div g) * g

\* MmFindGapBottomUp: between two areas, after the last, before the first.  HighestAddress is
\* the last byte below KERNEL_BASE, so that the last page is not part of a gap.
MmFindGapBottomUp(length, g) ==
  LET order  == Ascending
      count  == Len(order)
      after  == [i \in 1..count |-> RoundUp(Ending(order[i]), g)]
      first  == RoundUp(Lowest, g)
      inside == {i \in 1..(count - 1) : after[i] < order[i + 1] /\ order[i + 1] - after[i] >= length}
  IN IF count = 0 THEN (IF Kernel - first > length THEN first ELSE None)
     ELSE IF inside # {} THEN after[CHOOSE i \in inside : \A j \in inside : i <= j]
     ELSE IF Kernel - after[count] > length THEN after[count]
     ELSE IF order[1] > first /\ order[1] - first >= length THEN first
     ELSE None

\* MmFindGapTopDown: after the last area, between two, before the first.  A length that
\* reaches below address zero ends the search.
MmFindGapTopDown(length, g) ==
  LET order  == Descending
      count  == Len(order)
      top    == RoundDown(Kernel - length, g)
      before == [i \in 1..count |-> RoundDown(order[i] - length, g)]
      inside == {i \in 1..(count - 1) :
                   /\ order[i] >= length /\ Ending(order[i + 1]) <= before[i]}
  IN IF Kernel < length THEN None
     ELSE IF count = 0 THEN (IF top >= Lowest THEN top ELSE None)
     ELSE IF Ending(order[1]) <= top THEN top
     ELSE IF inside # {} THEN before[CHOOSE i \in inside : \A j \in inside : i <= j]
     ELSE IF order[count] >= length /\ before[count] >= Lowest THEN before[count]
     ELSE None
-------------------------------------------------------------------------------
\* MmCompressHelper: count rotations to the right along the left spine below top.
RECURSIVE MmCompressHelper(_, _, _)
MmCompressHelper(t, top, count) ==
  IF count = 0 THEN t
  ELSE LET red   == IF top = None THEN t.root ELSE t.left[top]
           black == t.left[red]
           inner == t.right[black]
           tree1 == SetParent(SetLeft(t, top, black), black, top)
           tree2 == SetParent(SetLeft(tree1, red, inner), inner, red)
           tree3 == SetParent(SetRight(tree2, black, red), red, black)
       IN MmCompressHelper(tree3, black, count - 1)

\* The tree becomes a vine of left links: <<the vine, its length>>.
RECURSIVE ToVine(_, _, _, _)
ToVine(t, previous, n, count) ==
  IF n = None THEN <<t, count>>
  ELSE IF t.right[n] = None THEN ToVine(t, n, t.left[n], count + 1)
  ELSE LET temp == t.right[n]
           tree1 == SetParent(SetRight(t, n, t.left[temp]), t.left[temp], n)
           tree2 == SetParent([tree1 EXCEPT !.left[temp] = n], n, temp)
       IN ToVine(SetParent(SetLeft(tree2, previous, temp), temp, previous), previous, temp, count)

RECURSIVE HighestBit(_), Halve(_, _)
HighestBit(n) == IF n <= 1 THEN n ELSE 2 * HighestBit(n \div 2)
Halve(t, vine) == IF vine <= 1 THEN t ELSE Halve(MmCompressHelper(t, None, vine \div 2), vine \div 2)

MmRebalanceTree(t) ==
  LET vine   == ToVine(t, None, t.root, 0)
      leaves == vine[2] + 1 - HighestBit(vine[2] + 1)
  IN Halve(MmCompressHelper(vine[1], None, leaves), vine[2] - leaves)

\* MmInsertMemoryArea goes down from n; at the limit it rebalances the tree and goes on from
\* the node it has reached: <<the tree, the node the area is to hang on>>.
RECURSIVE Descend(_, _, _, _)
Descend(t, a, n, depth) ==
  LET child == IF a < n THEN t.left[n] ELSE t.right[n]
      next  == IF depth + 1 = Limit THEN MmRebalanceTree(t) ELSE t
  IN IF child = None THEN <<t, n>> ELSE Descend(next, a, child, depth + 1)

MmInsertMemoryArea(a) ==
  LET place == Descend(tree, a, tree.root, 0)
      t     == [place[1] EXCEPT !.left[a] = None, !.right[a] = None, !.parent[a] = place[2]]
  IN tree' = IF tree.root = None
             THEN [tree EXCEPT !.root = a, !.left[a] = None, !.right[a] = None,
                               !.parent[a] = None]
             ELSE IF a < place[2] THEN [t EXCEPT !.left[place[2]] = a]
             ELSE [t EXCEPT !.right[place[2]] = a]

\* MmCreateMemoryArea at a given address, or in a gap.
CreateAt(base, length, g) ==
  LET start == RoundDown(base, g)
      whole == length + base - start
  IN /\ start + whole <= Kernel
     /\ MmLocateMemoryAreaByRegion(start, whole) = None
     /\ MmInsertMemoryArea(start)
     /\ size' = [size EXCEPT ![start] = whole]

CreateInGap(length, g, topDown) ==
  LET start == IF topDown THEN MmFindGapTopDown(length, g) ELSE MmFindGapBottomUp(length, g)
  IN /\ start # None
     /\ MmInsertMemoryArea(start)
     /\ size' = [size EXCEPT ![start] = length]

MmCreateMemoryArea(base, length, g, topDown) ==
  /\ Cardinality(Areas) < MaxAreas
  /\ \/ base > 0 /\ CreateAt(base, length, g)
     \/ base = 0 /\ CreateInGap(length, g, topDown)

\* MmFreeMemoryArea takes a node out: its left child, its right child or the lowest node of
\* its right subtree takes its place.
Replace(t, a, n) ==
  LET up == t.parent[a]
  IN SetParent(IF up = None THEN [t EXCEPT !.root = n]
               ELSE IF t.left[up] = a THEN [t EXCEPT !.left[up] = n]
               ELSE [t EXCEPT !.right[up] = n], n, up)

\* Node n takes over the children of a, the right one from tree t.
Adopt(t, n, a) ==
  LET tree1 == SetParent([t EXCEPT !.left[n] = t.left[a]], t.left[a], n)
  IN SetParent([tree1 EXCEPT !.right[n] = t.right[a]], t.right[a], n)

\* Mutated: the right child of the lowest node is left behind.
RaiseLowestAlone(a) ==
  LET n == Leftmost(tree, tree.right[a])
  IN Replace(Adopt(SetLeft(tree, tree.parent[n], None), n, a), a, n)

RaiseLowest(a) ==
  LET n == Leftmost(tree, tree.right[a])
      t == SetParent(SetLeft(tree, tree.parent[n], tree.right[n]), tree.right[n], tree.parent[n])
  IN Replace(Adopt(t, n, a), a, n)

MmFreeMemoryArea(a) ==
  LET l == tree.left[a]  r == tree.right[a]
      without == IF r = None THEN Replace(tree, a, l)
                 ELSE IF tree.left[r] = None
                      THEN Replace(SetParent(SetLeft(tree, r, l), l, r), a, r)
                 ELSE RaiseLowest(a)
  IN /\ a \in Areas
     /\ tree' = [without EXCEPT !.left[a] = None, !.right[a] = None, !.parent[a] = None]
     /\ size' = [size EXCEPT ![a] = 0]

Next ==
  \/ \E base \in Addresses, length \in Lengths, g \in Granularities, topDown \in BOOLEAN :
       MmCreateMemoryArea(base, length, g, topDown)
  \/ \E a \in Addresses : MmFreeMemoryArea(a)

Spec == Init /\ [][Next]_vars
-------------------------------------------------------------------------------
TypeOK ==
  /\ tree.root \in Addresses \cup {None}
  /\ \A f \in {tree.left, tree.right, tree.parent} : f \in [Addresses -> Addresses \cup {None}]
  /\ size \in [Addresses -> 0..Kernel]

\* Every area is reached from the root by links that agree with the areas' Parent.
RECURSIVE Below(_)
Below(n) == IF n = None THEN {} ELSE {n} \cup Below(tree.left[n]) \cup Below(tree.right[n])

AllReached == Below(tree.root) = Areas

ParentsAgree ==
  /\ tree.root # None => tree.parent[tree.root] = None
  /\ \A a \in Areas, b \in Areas :
       (tree.left[b] = a \/ tree.right[b] = a) <=> tree.parent[a] = b

\* The iteration meets the areas in the order of their addresses, upwards and downwards, and
\* none overlaps the next.
IterationIsSorted ==
  /\ \A i \in 1..(Len(Ascending) - 1) : Ending(Ascending[i]) <= Ascending[i + 1]
  /\ Len(Ascending) = Cardinality(Areas)
  /\ Descending = [i \in 1..Len(Ascending) |-> Ascending[Len(Ascending) + 1 - i]]

\* An address is found in the area that it lies in; a region where some area lies, too.
InArea(a, n) == n <= a /\ a < Ending(n)

FindsAreas ==
  /\ \A a \in Addresses :
       MmLocateMemoryAreaByAddress(a)
         = IF \E n \in Areas : InArea(a, n) THEN CHOOSE n \in Areas : InArea(a, n) ELSE None
  /\ \A a \in Addresses, l \in Lengths :
       MmLocateMemoryAreaByRegion(a, l) # None
         <=> \E n \in Areas, b \in a..(a + l - 1) : InArea(b, n)

\* A gap that is found is free and aligned, one that is there is found, and from the top it
\* is the highest one; from the bottom the last page is never used.
FreeAt(a, l, g) ==
  /\ a % g = 0 /\ a >= Lowest /\ a + l <= Kernel
  /\ \A b \in a..(a + l - 1), n \in Areas : ~InArea(b, n)

FindsGaps ==
  \A l \in Lengths, g \in Granularities :
    LET gaps == {a \in Addresses : FreeAt(a, l, g)}
        up   == MmFindGapBottomUp(l, g)
        down == MmFindGapTopDown(l, g)
    IN /\ up \in gaps \cup {None} /\ (up = None => \A a \in gaps : a + l = Kernel)
       /\ down = IF gaps = {} THEN None ELSE CHOOSE a \in gaps : \A b \in gaps : b <= a

\* No area lies deeper than the depth at which the tree is rebalanced.
RECURSIVE Depth(_)
Depth(n) ==
  IF n = None THEN 0
  ELSE LET l == Depth(tree.left[n])  r == Depth(tree.right[n]) IN 1 + (IF l > r THEN l ELSE r)

StaysShallow == Depth(tree.root) <= Limit + 1
===============================================================================
