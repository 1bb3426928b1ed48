--------------------------- MODULE ExResourceProofs ---------------------------
(***************************************************************************)
(* What ExResource promises, for any threads and owner pointers, where the     *)
(* callers do what the repository's do: nobody starves exclusive waiters with   *)
(* a wait, converts beside an owner table or hands over from the table.        *)
(***************************************************************************)
EXTENDS ExResource, ListLemmas, FiniteSetTheorems

Careful == Starving # "Any" /\ ~Converting /\ ~TableLookup

HasSize(S, n) == IsFiniteSet(S) /\ Cardinality(S) = n

\* A set of so many elements has one more with a new one, and one less without one.
LEMMA SizeChanges ==
  ASSUME NEW S, NEW n, HasSize(S, n), NEW x
  PROVE  /\ n \in Nat
         /\ x \notin S => HasSize(S \union {x}, n + 1)
         /\ x \in S => n >= 1 /\ HasSize(S \ {x}, n - 1)
<1>1. n \in Nat
  BY FS_CardinalityType DEF HasSize
<1>2. ASSUME x \notin S PROVE HasSize(S \union {x}, n + 1)
  BY <1>2, FS_AddElement DEF HasSize
<1>3. ASSUME x \in S PROVE n >= 1 /\ HasSize(S \ {x}, n - 1)
  <2>1. n # 0
    BY <1>3, FS_EmptySet DEF HasSize
  <2> QED
    BY <1>1, <1>3, <2>1, FS_RemoveElement DEF HasSize
<1> QED
  BY <1>1, <1>2, <1>3

LEMMA SizeOfNothing ==
  /\ HasSize({}, 0)
  /\ \A S : HasSize(S, 0) => S = {}
BY FS_EmptySet DEF HasSize
-------------------------------------------------------------------------------
(* The owner table. *)

\* The acquisitions that a table records for o: each is an entry and a number.
Tokens(tbl, o) ==
  {x \in (DOMAIN tbl) \X (Nat \ {0}) : tbl[x[1]].thread = o /\ x[2] <= tbl[x[1]].count}
Used(tbl) == {i \in DOMAIN tbl : tbl[i].count > 0}

LEMMA EntryTypes ==
  ASSUME ResourceAssumption
  PROVE  /\ None \notin Owners
         /\ Free \in Entries /\ Free.thread = None /\ Free.count = 0
         /\ \A o \in Owners : One(o) \in Entries /\ One(o).thread = o /\ One(o).count = 1
         /\ \A e \in Entries : e.thread \in Owners \union {None} /\ e.count \in Nat
BY DEF ResourceAssumption, Owners, None, Free, One, Entries

\* An entry that counts one more, or one less.
LEMMA EntryCounts ==
  ASSUME NEW e \in Entries
  PROVE  /\ e.count \in Nat
         /\ [e EXCEPT !.count = @ + 1] \in Entries
         /\ [e EXCEPT !.count = @ + 1].thread = e.thread
         /\ [e EXCEPT !.count = @ + 1].count = e.count + 1
         /\ e.count > 0 => [e EXCEPT !.count = @ - 1] \in Entries
         /\ [e EXCEPT !.count = @ - 1].thread = e.thread
         /\ [e EXCEPT !.count = @ - 1].count = e.count - 1
BY DEF Entries

\* tbl2 is tbl with one more acquisition of t, the one numbered n, in entry i.
IsGrown(tbl, tbl2, t, i, n) ==
  /\ Tokens(tbl2, t) = Tokens(tbl, t) \union {<<i, n>>} /\ <<i, n>> \notin Tokens(tbl, t)
  /\ \A o : o # t => Tokens(tbl2, o) = Tokens(tbl, o)
  /\ Used(tbl2) = Used(tbl) \union {i}

\* tbl2 is tbl without the acquisition of o that is numbered n, in entry i.
IsShrunk(tbl, tbl2, o, i, n) ==
  /\ Tokens(tbl2, o) = Tokens(tbl, o) \ {<<i, n>>} /\ <<i, n>> \in Tokens(tbl, o)
  /\ \A p \in Owners \ {o} : Tokens(tbl2, p) = Tokens(tbl, p)
  /\ Used(tbl2) = IF n = 1 THEN Used(tbl) \ {i} ELSE Used(tbl)

\* One more acquisition is recorded in an entry of its owner, or in a free one.
LEMMA EntryGrows ==
  ASSUME NEW tbl \in Seq(Entries), NEW i \in DOMAIN tbl, NEW t, NEW new \in Entries,
         new.thread = t, new.count = tbl[i].count + 1,
         tbl[i].thread = t \/ tbl[i].count = 0,
         NEW tbl2, tbl2 = [tbl EXCEPT ![i] = new]
  PROVE  IsGrown(tbl, tbl2, t, i, new.count)
<1> DEFINE x == <<i, new.count>>
<1>1. /\ DOMAIN tbl2 = DOMAIN tbl /\ tbl2[i] = new
      /\ \A j \in DOMAIN tbl : j # i => tbl2[j] = tbl[j]
  OBVIOUS
<1>2. /\ \A j \in DOMAIN tbl : tbl[j].count \in Nat
      /\ new.count \in Nat \ {0}
  <2>1. \A j \in DOMAIN tbl : tbl[j] \in Entries
    OBVIOUS
  <2>2. \A e \in Entries : e.count \in Nat
    BY DEF Entries
  <2> QED
    BY <2>1, <2>2
<1>3. ASSUME NEW j \in DOMAIN tbl, NEW n \in Nat \ {0}
      PROVE  (tbl2[j].thread = t /\ n <= tbl2[j].count)
               <=> ((tbl[j].thread = t /\ n <= tbl[j].count) \/ (j = i /\ n = new.count))
  <2>1. CASE j # i
    BY <1>1, <2>1
  <2>2. CASE j = i
    BY <1>1, <1>2, <2>2
  <2> QED
    BY <2>1, <2>2
<1>4. Tokens(tbl2, t) = Tokens(tbl, t) \union {x}
  <2>1. ASSUME NEW y PROVE y \in Tokens(tbl2, t) <=> y \in Tokens(tbl, t) \union {x}
    <3>1. CASE y \in (DOMAIN tbl) \X (Nat \ {0})
      <4>1. PICK j \in DOMAIN tbl, n \in Nat \ {0} : y = <<j, n>>
        BY <3>1
      <4> QED
        BY <1>1, <1>3, <4>1 DEF Tokens
    <3>2. CASE y \notin (DOMAIN tbl) \X (Nat \ {0})
      BY <1>1, <1>2, <3>2 DEF Tokens
    <3> QED
      BY <3>1, <3>2
  <2> QED
    BY <2>1
<1>5. x \notin Tokens(tbl, t)
  BY <1>2 DEF Tokens
<1>6. ASSUME NEW o, o # t PROVE Tokens(tbl2, o) = Tokens(tbl, o)
  <2>1. ASSUME NEW j \in DOMAIN tbl, NEW n \in Nat \ {0}
        PROVE  (tbl2[j].thread = o /\ n <= tbl2[j].count)
                 <=> (tbl[j].thread = o /\ n <= tbl[j].count)
    BY <1>1, <1>2, <1>6
  <2>2. ASSUME NEW y PROVE y \in Tokens(tbl2, o) <=> y \in Tokens(tbl, o)
    <3>1. CASE y \in (DOMAIN tbl) \X (Nat \ {0})
      <4>1. PICK j \in DOMAIN tbl, n \in Nat \ {0} : y = <<j, n>>
        BY <3>1
      <4> QED
        BY <1>1, <2>1, <4>1 DEF Tokens
    <3>2. CASE y \notin (DOMAIN tbl) \X (Nat \ {0})
      BY <1>1, <3>2 DEF Tokens
    <3> QED
      BY <3>1, <3>2
  <2> QED
    BY <2>2
<1>7. Used(tbl2) = Used(tbl) \union {i}
  BY <1>1, <1>2 DEF Used
<1> QED
  BY <1>4, <1>5, <1>6, <1>7 DEF IsGrown

\* A release takes one acquisition out of its owner's entry.
LEMMA EntryShrinks ==
  ASSUME ResourceAssumption,
         NEW tbl \in Seq(Entries), NEW i \in DOMAIN tbl, NEW o \in Owners, tbl[i].thread = o,
         tbl[i].count > 0, NEW tbl2, tbl2 = [tbl EXCEPT ![i] = Less(tbl[i])]
  PROVE  Less(tbl[i]) \in Entries /\ IsShrunk(tbl, tbl2, o, i, tbl[i].count)
<1> DEFINE x == <<i, tbl[i].count>>
<1>1. /\ DOMAIN tbl2 = DOMAIN tbl /\ tbl2[i] = Less(tbl[i])
      /\ \A j \in DOMAIN tbl : j # i => tbl2[j] = tbl[j]
  OBVIOUS
<1>2. /\ \A j \in DOMAIN tbl : tbl[j] \in Entries /\ tbl[j].count \in Nat
      /\ tbl[i].count \in Nat \ {0}
  <2>1. \A j \in DOMAIN tbl : tbl[j] \in Entries
    OBVIOUS
  <2>2. \A e \in Entries : e.count \in Nat
    BY DEF Entries
  <2> QED
    BY <2>1, <2>2
<1>3. /\ Less(tbl[i]) \in Entries /\ Less(tbl[i]).count = tbl[i].count - 1
      /\ Less(tbl[i]).thread = IF tbl[i].count = 1 THEN None ELSE o
  <2>1. tbl[i] \in Entries /\ tbl[i].thread = o
    BY <1>2
  <2>2. CASE tbl[i].count = 1
    <3>1. Less(tbl[i]) = Free
      BY <2>2 DEF Less
    <3> QED
      BY <2>2, <3>1, EntryTypes
  <2>3. CASE tbl[i].count # 1
    <3>1. Less(tbl[i]) = [tbl[i] EXCEPT !.count = @ - 1]
      BY <2>3 DEF Less
    <3>2. [tbl[i] EXCEPT !.count = @ - 1] \in Entries
      BY <2>1, EntryCounts
    <3>3. /\ [tbl[i] EXCEPT !.count = @ - 1].count = tbl[i].count - 1
          /\ [tbl[i] EXCEPT !.count = @ - 1].thread = tbl[i].thread
      BY <2>1, EntryCounts, Zenon
    <3> QED
      BY <2>1, <2>3, <3>1, <3>2, <3>3
  <2> QED
    BY <2>2, <2>3
<1>4. None \notin Owners
  BY EntryTypes
<1>5. ASSUME NEW p \in Owners, NEW j \in DOMAIN tbl, NEW n \in Nat \ {0}
      PROVE  (tbl2[j].thread = p /\ n <= tbl2[j].count)
               <=> (tbl[j].thread = p /\ n <= tbl[j].count /\ ~(j = i /\ n = tbl[i].count))
  <2>1. CASE j # i
    BY <1>1, <2>1
  <2>2. CASE j = i /\ p # o
    BY <1>1, <1>3, <1>4, <2>2
  <2>3. CASE j = i /\ p = o /\ tbl[i].count = 1
    BY <1>1, <1>3, <1>4, <2>3
  <2>4. CASE j = i /\ p = o /\ tbl[i].count # 1
    BY <1>1, <1>2, <1>3, <2>4
  <2> QED
    BY <2>1, <2>2, <2>3, <2>4
<1>6. ASSUME NEW p \in Owners
      PROVE  Tokens(tbl2, p) = Tokens(tbl, p) \ {x}
  <2>1. ASSUME NEW y PROVE y \in Tokens(tbl2, p) <=> y \in Tokens(tbl, p) \ {x}
    <3>1. CASE y \in (DOMAIN tbl) \X (Nat \ {0})
      <4>1. PICK j \in DOMAIN tbl, n \in Nat \ {0} : y = <<j, n>>
        BY <3>1
      <4> QED
        BY <1>1, <1>5, <4>1 DEF Tokens
    <3>2. CASE y \notin (DOMAIN tbl) \X (Nat \ {0})
      BY <1>1, <3>2 DEF Tokens
    <3> QED
      BY <3>1, <3>2
  <2> QED
    BY <2>1
<1>7. x \in Tokens(tbl, o)
  BY <1>2 DEF Tokens
<1>8. ASSUME NEW p \in Owners \ {o} PROVE x \notin Tokens(tbl, p)
  BY DEF Tokens
<1>9. Used(tbl2) = IF tbl[i].count = 1 THEN Used(tbl) \ {i} ELSE Used(tbl)
  <2>1. tbl2[i].count = tbl[i].count - 1
    BY <1>1, <1>3
  <2> QED
    BY <1>1, <1>2, <2>1 DEF Used
<1>10. ASSUME NEW p \in Owners \ {o} PROVE Tokens(tbl2, p) = Tokens(tbl, p)
  <2>1. Tokens(tbl2, p) = Tokens(tbl, p) \ {x}
    BY <1>6
  <2>2. x \notin Tokens(tbl, p)
    BY <1>8
  <2> HIDE DEF x
  <2> QED
    BY <2>1, <2>2
<1> QED
  BY <1>3, <1>6, <1>7, <1>9, <1>10 DEF IsShrunk

\* A table with a new entry.
LEMMA EntryAppended ==
  ASSUME ResourceAssumption, NEW tbl \in Seq(Entries), NEW t \in Owners
  PROVE  LET tbl2 == Append(tbl, One(t))
             n == Len(tbl) + 1
         IN  /\ tbl2 \in Seq(Entries) /\ Len(tbl2) = n
             /\ Tokens(tbl2, t) = Tokens(tbl, t) \union {<<n, 1>>} /\ <<n, 1>> \notin Tokens(tbl, t)
             /\ \A o \in Owners \ {t} : Tokens(tbl2, o) = Tokens(tbl, o)
             /\ Used(tbl2) = Used(tbl) \union {n} /\ n \notin Used(tbl)
<1> DEFINE tbl2 == Append(tbl, One(t))
           n == Len(tbl) + 1
<1>1. /\ Len(tbl) \in Nat /\ DOMAIN tbl = 1 .. Len(tbl)
      /\ One(t) \in Entries /\ One(t).thread = t /\ One(t).count = 1
  BY EntryTypes
<1>2. /\ tbl2 \in Seq(Entries) /\ Len(tbl2) = n /\ DOMAIN tbl2 = (DOMAIN tbl) \union {n}
      /\ tbl2[n] = One(t) /\ \A j \in DOMAIN tbl : tbl2[j] = tbl[j]
      /\ n \notin DOMAIN tbl /\ n \in Nat
  BY <1>1
<1> HIDE DEF tbl2, n
<1>3. ASSUME NEW y, NEW o
      PROVE  y \in Tokens(tbl2, o) <=> (y \in Tokens(tbl, o) \/ (o = t /\ y = <<n, 1>>))
  <2>1. CASE y \in (DOMAIN tbl) \X (Nat \ {0})
    BY <1>2, <2>1 DEF Tokens
  <2>2. CASE y \in {n} \X (Nat \ {0})
    <3>1. PICK k \in Nat \ {0} : y = <<n, k>>
      BY <2>2
    <3>2. y \in Tokens(tbl2, o) <=> (t = o /\ k <= 1)
      BY <1>1, <1>2, <3>1 DEF Tokens
    <3>3. y \notin Tokens(tbl, o)
      BY <1>2, <3>1 DEF Tokens
    <3> QED
      BY <3>1, <3>2, <3>3
  <2>3. CASE y \notin ((DOMAIN tbl) \union {n}) \X (Nat \ {0})
    BY <1>2, <2>3 DEF Tokens
  <2> QED
    BY <2>1, <2>2, <2>3
<1>4. \A o : <<n, 1>> \notin Tokens(tbl, o)
  BY <1>2 DEF Tokens
<1>5. Used(tbl2) = Used(tbl) \union {n} /\ n \notin Used(tbl)
  BY <1>1, <1>2 DEF Used
<1>6. Tokens(tbl2, t) = Tokens(tbl, t) \union {<<n, 1>>}
  BY <1>3
<1>7. ASSUME NEW o \in Owners \ {t} PROVE Tokens(tbl2, o) = Tokens(tbl, o)
  <2>1. \A y : y \in Tokens(tbl2, o) <=> y \in Tokens(tbl, o)
    BY <1>3
  <2> QED
    BY <2>1
<1> QED
  BY <1>2, <1>4, <1>5, <1>6, <1>7 DEF tbl2, n

\* The first table has the entry of the owner that was recorded alone, and the new one's.
LEMMA TableCreated ==
  ASSUME ResourceAssumption, NEW e \in Entries, e.thread \in Owners, e.count > 0,
         NEW t \in Owners
  PROVE  LET tbl == <<e, One(t), Free>>
             n(o) == IF o = e.thread THEN e.count ELSE 0
         IN  /\ tbl \in Seq(Entries) /\ Len(tbl) = 3
             /\ \A o \in Owners : HasSize(Tokens(tbl, o), IF o = t THEN n(o) + 1 ELSE n(o))
             /\ HasSize(Used(tbl), 2)
             /\ tbl[1] = e /\ tbl[2] = One(t) /\ tbl[3] = Free
<1> DEFINE tbl == <<e, One(t), Free>>
           n(o) == IF o = e.thread THEN e.count ELSE 0
<1>1. /\ One(t) \in Entries /\ One(t).thread = t /\ One(t).count = 1
      /\ Free \in Entries /\ Free.thread = None /\ Free.count = 0
      /\ None \notin Owners /\ e.count \in Nat \ {0}
  BY EntryTypes
<1>2. /\ tbl \in Seq(Entries) /\ Len(tbl) = 3 /\ DOMAIN tbl = {1, 2, 3}
      /\ tbl[1] = e /\ tbl[2] = One(t) /\ tbl[3] = Free
  BY <1>1
<1> HIDE DEF tbl
<1>3. ASSUME NEW o \in Owners
      PROVE  HasSize(Tokens(tbl, o), IF o = t THEN n(o) + 1 ELSE n(o))
  <2> DEFINE old == {1} \X (IF o = e.thread THEN 1 .. e.count ELSE {})
  <2>1. HasSize(old, n(o))
    <3>1. CASE o = e.thread
      <4>1. PICK c \in Nat \ {0} : c = e.count
        BY <1>1
      <4>2. IsFiniteSet(1 .. c) /\ Cardinality(1 .. c) = c
        BY FS_Interval
      <4>3. IsFiniteSet({1}) /\ Cardinality({1}) = 1
        BY FS_Singleton
      <4>4. /\ IsFiniteSet({1} \X (1 .. c))
            /\ Cardinality({1} \X (1 .. c)) = Cardinality({1}) * Cardinality(1 .. c)
        BY <4>2, <4>3, FS_Product, Zenon
      <4>5. Cardinality({1} \X (1 .. c)) = c
        BY <4>2, <4>3, <4>4
      <4> QED
        BY <3>1, <4>1, <4>4, <4>5 DEF HasSize
    <3>2. CASE o # e.thread
      <4>1. old = {}
        BY <3>2
      <4> QED
        BY <3>2, <4>1, SizeOfNothing
    <3> QED
      BY <3>1, <3>2
  <2>2. ASSUME NEW j \in {1, 2, 3}, NEW k \in Nat \ {0}
        PROVE  <<j, k>> \in Tokens(tbl, o)
                 <=> ((j = 1 /\ o = e.thread /\ k <= e.count) \/ (j = 2 /\ o = t /\ k = 1))
    <3>1. <<j, k>> \in Tokens(tbl, o) <=> (tbl[j].thread = o /\ k <= tbl[j].count)
      BY <1>2 DEF Tokens
    <3> QED
      BY <1>1, <1>2, <3>1
  <2>3. ASSUME NEW y
        PROVE  y \in Tokens(tbl, o) <=> (y \in old \/ (o = t /\ y = <<2, 1>>))
    <3>1. CASE y \in {1, 2, 3} \X (Nat \ {0})
      <4>1. PICK j \in {1, 2, 3}, k \in Nat \ {0} : y = <<j, k>>
        BY <3>1
      <4>2. y \in old <=> (j = 1 /\ o = e.thread /\ k <= e.count)
        BY <1>1, <4>1
      <4> QED
        BY <2>2, <4>1, <4>2
    <3>2. CASE y \notin {1, 2, 3} \X (Nat \ {0})
      <4>1. y \notin Tokens(tbl, o) /\ y # <<2, 1>>
        BY <1>2, <3>2 DEF Tokens
      <4>2. y \notin old
        BY <1>1, <3>2
      <4> QED
        BY <4>1, <4>2
    <3> QED
      BY <3>1, <3>2
  <2>4. CASE o = t
    <3>1. Tokens(tbl, o) = old \union {<<2, 1>>} /\ <<2, 1>> \notin old
      BY <2>3, <2>4
    <3> HIDE DEF old, n
    <3>2. HasSize(old \union {<<2, 1>>}, n(o) + 1)
      BY <2>1, <3>1, SizeChanges
    <3> QED
      BY <2>4, <3>1, <3>2
  <2>5. CASE o # t
    <3>1. Tokens(tbl, o) = old
      BY <2>3, <2>5
    <3> QED
      BY <2>1, <2>5, <3>1
  <2> QED
    BY <2>4, <2>5
<1>4. HasSize(Used(tbl), 2)
  <2>1. Used(tbl) = {1} \union {2}
    BY <1>1, <1>2 DEF Used
  <2>2. HasSize({1}, 1)
    BY FS_Singleton DEF HasSize
  <2>3. 2 \notin {1}
    OBVIOUS
  <2>4. HasSize({1} \union {2}, 1 + 1)
    BY <2>2, <2>3, SizeChanges, Zenon
  <2> QED
    BY <2>1, <2>4
<1> QED
  BY <1>2, <1>3, <1>4 DEF tbl
-------------------------------------------------------------------------------
(* Where the owners are recorded. *)

OwnerTypes ==
  /\ exclusive \in BOOLEAN /\ active \in Nat
  /\ owner0 \in Entries /\ owner1 \in Entries /\ table \in Seq(Entries)
  /\ holds \in [Owners -> 0 .. MaxHolds]

\* o has n acquisitions, and nobody else has any.
Alone(o, n) ==
  o \in Owners /\ n > 0 /\ holds[o] = n /\ \A p \in Owners \ {o} : holds[p] = 0

\* An entry is free if and only if it counts nothing; the entry beside the table has its size.
EntriesFormed ==
  /\ \A i \in DOMAIN table : table[i].thread = None <=> table[i].count = 0
  /\ table # << >> => owner1.thread = None /\ owner1.count = Len(table)

\* An exclusive owner is in the first entry, and nowhere else is anybody.
ExclusiveRecorded ==
  exclusive =>
    /\ active = 1 /\ Alone(owner0.thread, owner0.count)
    /\ table = << >> => owner1 = Free
    /\ \A i \in DOMAIN table : table[i].thread = None

\* Shared owners are in the second entry, if it is one, or all of them in the table.
SharedRecorded ==
  ~exclusive =>
    /\ owner0 = Free
    /\ table = << >> =>
         \/ active = 0 /\ owner1 = Free /\ \A o \in Owners : holds[o] = 0
         \/ active = 1 /\ Alone(owner1.thread, owner1.count)
    /\ table # << >> =>
         /\ HasSize(Used(table), active)
         /\ \A o \in Owners : HasSize(Tokens(table, o), holds[o])

OwnersRecorded == OwnerTypes /\ EntriesFormed /\ ExclusiveRecorded /\ SharedRecorded

\* The count of owners is zero while nobody has an acquisition, and then only.
LEMMA CountOfNone ==
  ASSUME ResourceAssumption, OwnersRecorded
  PROVE  FreeWhenReleased
<1>1. /\ None \notin Owners /\ \A e \in Entries : e.thread \in Owners \union {None} /\ e.count \in Nat
      /\ holds \in [Owners -> 0 .. MaxHolds] /\ MaxHolds \in Nat
  BY EntryTypes DEF OwnersRecorded, OwnerTypes, ResourceAssumption
<1>2. CASE exclusive
  BY <1>1, <1>2 DEF OwnersRecorded, ExclusiveRecorded, Alone, FreeWhenReleased
<1>3. CASE ~exclusive /\ table = << >>
  BY <1>1, <1>3 DEF OwnersRecorded, SharedRecorded, Alone, FreeWhenReleased
<1>4. CASE ~exclusive /\ table # << >>
  <2>1. /\ HasSize(Used(table), active)
        /\ \A o \in Owners : HasSize(Tokens(table, o), holds[o])
        /\ \A i \in DOMAIN table : table[i] \in Entries
        /\ \A i \in DOMAIN table : table[i].thread = None <=> table[i].count = 0
    BY <1>4 DEF OwnersRecorded, OwnerTypes, SharedRecorded, EntriesFormed
  <2>2. ASSUME active = 0, NEW o \in Owners PROVE holds[o] = 0
    <3>1. Used(table) = {}
      BY <2>1, <2>2, SizeOfNothing
    <3>2. \A i \in DOMAIN table : table[i].count = 0
      BY <1>1, <2>1, <3>1 DEF Used
    <3>3. Tokens(table, o) = {}
      BY <3>2 DEF Tokens
    <3> QED
      BY <2>1, <3>3, SizeOfNothing DEF HasSize
  <2>3. ASSUME \A o \in Owners : holds[o] = 0 PROVE active = 0
    <3>1. ASSUME NEW i \in DOMAIN table PROVE table[i].count = 0
      <4>1. SUFFICES ASSUME table[i].thread \in Owners PROVE table[i].count = 0
        BY <1>1, <2>1
      <4>2. Tokens(table, table[i].thread) = {}
        BY <2>1, <2>3, <4>1, SizeOfNothing
      <4>3. table[i].count \in Nat /\ (table[i].count > 0 => <<i, 1>> \in Tokens(table, table[i].thread))
        BY <1>1, <2>1 DEF Tokens
      <4> QED
        BY <4>2, <4>3
    <3>2. Used(table) = {}
      BY <3>1 DEF Used
    <3> QED
      BY <2>1, <3>2, SizeOfNothing DEF HasSize
  <2> QED
    BY <2>2, <2>3 DEF FreeWhenReleased
<1> QED
  BY <1>2, <1>3, <1>4

\* A new exclusive owner comes when there is nobody.
LEMMA ExclusiveTaken ==
  ASSUME ResourceAssumption, OwnersRecorded, NEW t \in Threads,
         active = 0, holds[t] < MaxHolds, TakeExclusive(t)
  PROVE  OwnersRecorded'
<1>1. /\ t \in Owners /\ None \notin Owners /\ One(t) \in Entries
      /\ One(t).thread = t /\ One(t).count = 1 /\ MaxHolds \in Nat \ {0}
  BY EntryTypes DEF Owners, ResourceAssumption
<1>2. ~exclusive /\ \A o \in Owners : holds[o] = 0
  BY CountOfNone DEF OwnersRecorded, ExclusiveRecorded, FreeWhenReleased
<1>3. /\ exclusive' /\ active' = 1 /\ owner0' = One(t) /\ owner1' = owner1 /\ table' = table
      /\ holds' = [holds EXCEPT ![t] = @ + 1]
  BY DEF TakeExclusive, Granted
<1>4. holds \in [Owners -> 0 .. MaxHolds]
  BY DEF OwnersRecorded, OwnerTypes
<1>5. /\ holds' \in [Owners -> 0 .. MaxHolds] /\ holds'[t] = 1
      /\ \A o \in Owners \ {t} : holds'[o] = 0
  BY <1>1, <1>2, <1>3, <1>4
<1>6. OwnerTypes'
  <2>1. exclusive' \in BOOLEAN
    BY DEF TakeExclusive
  <2> QED
    BY <1>1, <1>3, <1>5, <2>1 DEF OwnersRecorded, OwnerTypes
<1>7. EntriesFormed'
  BY <1>3 DEF OwnersRecorded, EntriesFormed
<1>8. Alone(owner0.thread, owner0.count)'
  BY <1>1, <1>3, <1>5 DEF Alone
<1>9. table = << >> => owner1 = Free
  BY <1>2 DEF OwnersRecorded, SharedRecorded
<1>10. ASSUME NEW i \in DOMAIN table PROVE table[i].thread = None
  <2>1. HasSize(Used(table), 0) /\ table # << >>
    BY <1>2 DEF OwnersRecorded, SharedRecorded
  <2>2. table[i] \in Entries /\ (table[i].thread = None <=> table[i].count = 0)
    BY DEF OwnersRecorded, OwnerTypes, EntriesFormed
  <2>3. i \notin Used(table)
    BY <2>1, SizeOfNothing
  <2>4. table[i].count \in Nat
    BY <2>2, EntryTypes
  <2> QED
    BY <2>2, <2>3, <2>4 DEF Used
<1>11. ExclusiveRecorded'
  BY <1>3, <1>8, <1>9, <1>10 DEF ExclusiveRecorded
<1> QED
  BY <1>3, <1>6, <1>7, <1>11 DEF OwnersRecorded, SharedRecorded

\* A shared owner more in the owner table.
LEMMA AddedToTable ==
  ASSUME ResourceAssumption, OwnersRecorded, NEW t \in Threads, ~exclusive,
         table # << >>, holds[t] < MaxHolds, AddToTable(t), Granted(t), UNCHANGED <<exclusive, owner0>>
  PROVE  OwnersRecorded'
<1>1. /\ t \in Owners /\ None \notin Owners /\ One(t) \in Entries
      /\ One(t).thread = t /\ One(t).count = 1 /\ MaxHolds \in Nat \ {0}
      /\ \A e \in Entries : e.count \in Nat
  BY EntryTypes DEF Owners, ResourceAssumption
<1>2. /\ active \in Nat /\ owner0 \in Entries /\ owner1 \in Entries /\ table \in Seq(Entries)
      /\ exclusive \in BOOLEAN /\ holds \in [Owners -> 0 .. MaxHolds] /\ owner0 = Free
      /\ owner1.thread = None /\ owner1.count = Len(table)
      /\ \A i \in DOMAIN table : table[i].thread = None <=> table[i].count = 0
      /\ HasSize(Used(table), active)
      /\ \A o \in Owners : HasSize(Tokens(table, o), holds[o])
  BY DEF OwnersRecorded, OwnerTypes, EntriesFormed, SharedRecorded
<1>3. /\ holds' = [holds EXCEPT ![t] = @ + 1]
      /\ exclusive' = exclusive /\ owner0' = owner0
  BY DEF Granted
<1>4. /\ holds' \in [Owners -> 0 .. MaxHolds] /\ holds'[t] = holds[t] + 1
      /\ \A o \in Owners \ {t} : holds'[o] = holds[o]
  BY <1>1, <1>2, <1>3
<1> DEFINE places == Places({t, None})
           i == FirstOf(places)
<1>5. SUFFICES /\ table' \in Seq(Entries) /\ table' # << >> /\ active' \in Nat
               /\ owner1' \in Entries /\ owner1'.thread = None /\ owner1'.count = Len(table')
               /\ \A j \in DOMAIN table' : table'[j].thread = None <=> table'[j].count = 0
               /\ HasSize(Used(table'), active')
               /\ \A o \in Owners : HasSize(Tokens(table', o), holds'[o])
  <2>1. OwnerTypes' /\ EntriesFormed'
    BY <1>2, <1>3, <1>4, <1>5 DEF OwnerTypes, EntriesFormed
  <2>2. ExclusiveRecorded'
    BY <1>2, <1>3 DEF ExclusiveRecorded
  <2>3. Used(table)' = Used(table') /\ \A o : Tokens(table, o)' = Tokens(table', o)
    BY DEF Used, Tokens
  <2>4. SharedRecorded'
    BY <1>2, <1>3, <1>4, <1>5, <2>3 DEF SharedRecorded
  <2> QED
    BY <2>1, <2>2, <2>4 DEF OwnersRecorded
<1>6. CASE places = {}
  <2>1. SubSeq(table, 1, owner1.count) = table
    BY <1>2
  <2>2. /\ table' = Append(table, One(t)) /\ active' = active + 1
        /\ owner1' = [owner1 EXCEPT !.count = @ + 1]
    BY <1>6, <2>1 DEF AddToTable
  <2>3. /\ table' \in Seq(Entries) /\ Len(table') = Len(table) + 1 /\ table' # << >>
        /\ DOMAIN table' = 1 .. Len(table) + 1 /\ DOMAIN table = 1 .. Len(table) /\ Len(table) \in Nat
        /\ table'[Len(table) + 1] = One(t) /\ \A j \in DOMAIN table : table'[j] = table[j]
    BY <1>1, <1>2, <2>2
  <2>4. \A j \in DOMAIN table' : table'[j].thread = None <=> table'[j].count = 0
    BY <1>1, <1>2, <2>3
  <2>5. owner1' \in Entries /\ owner1'.thread = None /\ owner1'.count = Len(table')
    <3>1. owner1' = [thread |-> None, count |-> Len(table) + 1]
      BY <1>2, <2>2 DEF Entries
    <3> QED
      BY <2>3, <3>1 DEF Entries
  <2>6. HasSize(Used(table'), active')
    <3>1. Used(table') = Used(table) \union {Len(table) + 1} /\ Len(table) + 1 \notin Used(table)
      BY <1>1, <1>2, <2>2, EntryAppended
    <3>2. HasSize(Used(table) \union {Len(table) + 1}, active + 1)
      BY <1>2, <3>1, SizeChanges, Zenon
    <3> QED
      BY <2>2, <3>1, <3>2
  <2>7. ASSUME NEW o \in Owners PROVE HasSize(Tokens(table', o), holds'[o])
    <3>1. CASE o = t
      <4>1. /\ Tokens(table', t) = Tokens(table, t) \union {<<Len(table) + 1, 1>>}
            /\ <<Len(table) + 1, 1>> \notin Tokens(table, t)
        BY <1>1, <1>2, <2>2, EntryAppended
      <4>2. HasSize(Tokens(table, t), holds[t])
        BY <1>1, <1>2
      <4>3. HasSize(Tokens(table, t) \union {<<Len(table) + 1, 1>>}, holds[t] + 1)
        BY <4>1, <4>2, SizeChanges, Zenon
      <4> QED
        BY <1>4, <3>1, <4>1, <4>3
    <3>2. CASE o # t
      <4>1. table \in Seq(Entries) /\ t \in Owners
        BY <1>1, <1>2
      <4>2. \A p \in Owners \ {t} : Tokens(Append(table, One(t)), p) = Tokens(table, p)
        BY <4>1, EntryAppended, Zenon
      <4>3. Tokens(table', o) = Tokens(table, o)
        BY <2>2, <3>2, <4>2
      <4> QED
        BY <1>2, <1>4, <3>2, <4>3
    <3> QED
      BY <3>1, <3>2
  <2> QED
    BY <1>2, <2>2, <2>3, <2>4, <2>5, <2>6, <2>7
<1>7. CASE places # {}
  <2>1. i \in DOMAIN table /\ table[i].thread \in {t, None}
    <3>1. \E j \in places : \A k \in places : j <= k
      <4>1. places \subseteq Nat
        BY <1>2 DEF Places
      <4>2. PICK j \in places : \A k \in places : j <= k
        BY <1>7, <4>1, LeastIsThere, Zenon
      <4> QED
        BY <4>2
    <3>2. i \in places
      BY <3>1 DEF FirstOf
    <3> QED
      BY <1>2, <3>2 DEF Places
  <2>2. owner1' = owner1
    BY <1>7 DEF AddToTable
  <2> DEFINE new == [thread |-> t, count |-> table[i].count + 1]
  <2>3. table[i] \in Entries /\ table[i].count \in Nat
    BY <1>1, <1>2, <2>1
  <2>4. new \in Entries /\ new.thread = t /\ new.count = table[i].count + 1
    BY <1>1, <2>3 DEF Entries
  <2>5. table' = [table EXCEPT ![i] = new]
    <3>1. CASE table[i].thread = t
      <4>1. table' = [table EXCEPT ![i].count = @ + 1]
        BY <1>7, <3>1 DEF AddToTable
      <4>2. ASSUME NEW e \in Entries
            PROVE  [e EXCEPT !.count = @ + 1] = [thread |-> e.thread, count |-> e.count + 1]
        BY DEF Entries
      <4>3. [table[i] EXCEPT !.count = @ + 1] = new
        BY <2>3, <3>1, <4>2
      <4> QED
        BY <4>1, <4>3
    <3>2. CASE table[i].thread # t
      <4>1. table' = [table EXCEPT ![i] = One(t)]
        BY <1>7, <3>2 DEF AddToTable
      <4>2. One(t) = new
        BY <1>2, <2>1, <3>2 DEF One
      <4> QED
        BY <4>1, <4>2
    <3> QED
      BY <3>1, <3>2
  <2>6. active' = IF table[i].thread = t THEN active ELSE active + 1
    BY <1>7 DEF AddToTable
  <2> HIDE DEF i, new, places
  <2>7. /\ table' \in Seq(Entries) /\ table' # << >> /\ Len(table') = Len(table)
        /\ DOMAIN table' = DOMAIN table /\ table'[i] = new
        /\ \A j \in DOMAIN table : j # i => table'[j] = table[j]
    BY <1>2, <2>1, <2>4, <2>5
  <2>8. \A j \in DOMAIN table' : table'[j].thread = None <=> table'[j].count = 0
    BY <1>1, <1>2, <2>3, <2>4, <2>7
  <2>9. table[i].thread = t \/ table[i].count = 0
    BY <1>2, <2>1
  <2>10. /\ Tokens(table', t) = Tokens(table, t) \union {<<i, new.count>>}
         /\ <<i, new.count>> \notin Tokens(table, t)
         /\ \A o : o # t => Tokens(table', o) = Tokens(table, o)
         /\ Used(table') = Used(table) \union {i}
    <3>1. table \in Seq(Entries) /\ i \in DOMAIN table /\ new \in Entries
      BY <1>2, <2>1, <2>4
    <3>2. IsGrown(table, table', t, i, new.count)
      BY <2>4, <2>5, <2>9, <3>1, EntryGrows, Zenon
    <3> QED
      BY <3>2 DEF IsGrown
  <2>11. HasSize(Used(table'), active') /\ active' \in Nat
    <3>1. CASE table[i].thread = t
      <4>1. i \in Used(table)
        BY <1>1, <1>2, <2>1, <2>3, <3>1 DEF Used
      <4>2. Used(table') = Used(table)
        BY <2>10, <4>1
      <4> QED
        BY <1>2, <2>6, <3>1, <4>2
    <3>2. CASE table[i].thread # t
      <4>1. i \notin Used(table)
        BY <2>9, <3>2 DEF Used
      <4>2. HasSize(Used(table) \union {i}, active + 1)
        BY <1>2, <4>1, SizeChanges, Zenon
      <4> QED
        BY <1>2, <2>6, <2>10, <3>2, <4>2
    <3> QED
      BY <3>1, <3>2
  <2>12. ASSUME NEW o \in Owners PROVE HasSize(Tokens(table', o), holds'[o])
    <3>1. CASE o = t
      <4>1. HasSize(Tokens(table, t), holds[t])
        BY <1>1, <1>2
      <4>2. HasSize(Tokens(table, t) \union {<<i, new.count>>}, holds[t] + 1)
        BY <2>10, <4>1, SizeChanges, Zenon
      <4> QED
        BY <1>4, <2>10, <3>1, <4>2
    <3>2. CASE o # t
      BY <1>2, <1>4, <2>10, <3>2
    <3> QED
      BY <3>1, <3>2
  <2> QED
    BY <1>2, <2>2, <2>7, <2>8, <2>11, <2>12
<1> QED
  BY <1>6, <1>7

\* A shared owner more, where it is recorded in one of three ways.
LEMMA SharedTaken ==
  ASSUME ResourceAssumption, OwnersRecorded, NEW t \in Threads, ~exclusive, holds[t] < MaxHolds,
         TakeShared(t)
  PROVE  OwnersRecorded'
<1>1. /\ t \in Owners /\ None \notin Owners /\ One(t) \in Entries
      /\ One(t).thread = t /\ One(t).count = 1 /\ MaxHolds \in Nat \ {0}
      /\ \A e \in Entries : e.count \in Nat
  BY EntryTypes DEF Owners, ResourceAssumption
<1>2. /\ active \in Nat /\ owner0 \in Entries /\ owner1 \in Entries /\ exclusive \in BOOLEAN
      /\ holds \in [Owners -> 0 .. MaxHolds] /\ owner0 = Free
  BY DEF OwnersRecorded, OwnerTypes, SharedRecorded
<1>3. /\ exclusive' = exclusive /\ owner0' = owner0
      /\ holds' = [holds EXCEPT ![t] = @ + 1]
  BY DEF TakeShared, Granted
<1>4. /\ holds' \in [Owners -> 0 .. MaxHolds] /\ holds'[t] = holds[t] + 1
      /\ \A o \in Owners \ {t} : holds'[o] = holds[o]
  BY <1>1, <1>2, <1>3
<1>5. ExclusiveRecorded'
  BY <1>3 DEF ExclusiveRecorded
<1>6. CASE active = 0 /\ owner1' = One(t) /\ table' = << >> /\ active' = 1
  <2>1. \A o \in Owners : holds[o] = 0
    BY <1>6, CountOfNone DEF FreeWhenReleased
  <2>2. OwnerTypes'
    BY <1>1, <1>2, <1>3, <1>4, <1>6 DEF OwnerTypes
  <2>3. EntriesFormed'
    BY <1>6 DEF EntriesFormed
  <2>4. Alone(owner1.thread, owner1.count)'
    BY <1>1, <1>4, <1>6, <2>1 DEF Alone
  <2>5. SharedRecorded'
    BY <1>2, <1>3, <1>6, <2>4 DEF SharedRecorded
  <2> QED
    BY <1>5, <2>2, <2>3, <2>5 DEF OwnersRecorded
<1>7. CASE /\ active # 0 /\ table = << >>
           /\ table' = <<owner1, One(t), Free>> /\ owner1' = [thread |-> None, count |-> 3]
           /\ active' = active + 1
  <2> DEFINE n(o) == IF o = owner1.thread THEN owner1.count ELSE 0
  <2>1. /\ active = 1 /\ owner1.thread \in Owners /\ owner1.count > 0
        /\ holds[owner1.thread] = owner1.count
        /\ \A o \in Owners \ {owner1.thread} : holds[o] = 0
    BY <1>7 DEF OwnersRecorded, SharedRecorded, Alone
  <2>2. /\ table' \in Seq(Entries) /\ Len(table') = 3
        /\ \A o \in Owners : HasSize(Tokens(table', o), IF o = t THEN n(o) + 1 ELSE n(o))
        /\ HasSize(Used(table'), 2)
        /\ table'[1] = owner1 /\ table'[2] = One(t) /\ table'[3] = Free
    BY <1>1, <1>2, <1>7, <2>1, TableCreated
  <2>3. owner1' \in Entries /\ owner1'.thread = None /\ owner1'.count = 3
    BY <1>7 DEF Entries
  <2>4. Free.thread = None /\ Free.count = 0
    BY EntryTypes
  <2>5. OwnerTypes'
    BY <1>2, <1>3, <1>4, <1>7, <2>1, <2>2, <2>3 DEF OwnerTypes
  <2>6. table' # << >> /\ DOMAIN table' = {1, 2, 3}
    BY <2>2
  <2>7. EntriesFormed'
    <3>1. \A i \in {1, 2, 3} : table'[i].thread = None <=> table'[i].count = 0
      BY <1>1, <2>1, <2>2, <2>4
    <3> QED
      BY <2>2, <2>3, <2>6, <3>1 DEF EntriesFormed
  <2>8. ASSUME NEW o \in Owners PROVE HasSize(Tokens(table', o), holds'[o])
    <3>1. holds[o] = n(o)
      BY <2>1
    <3>2. holds'[o] = IF o = t THEN n(o) + 1 ELSE n(o)
      BY <1>4, <3>1
    <3> QED
      BY <2>2, <3>2
  <2>9. Used(table)' = Used(table') /\ \A o : Tokens(table, o)' = Tokens(table', o)
    BY DEF Used, Tokens
  <2>10. active' = 2
    BY <1>7, <2>1
  <2>11. SharedRecorded'
    BY <1>2, <1>3, <2>2, <2>6, <2>8, <2>9, <2>10 DEF SharedRecorded
  <2> QED
    BY <1>5, <2>5, <2>7, <2>11 DEF OwnersRecorded
<1>8. CASE table # << >> /\ AddToTable(t)
  <2>1. Granted(t) /\ UNCHANGED <<exclusive, owner0>>
    BY DEF TakeShared
  <2> QED
    BY <1>8, <2>1, AddedToTable
<1> QED
  BY <1>6, <1>7, <1>8 DEF TakeShared, EiAddSharedOwner

\* An exclusive owner takes it once more.
LEMMA TakenAgain ==
  ASSUME ResourceAssumption, OwnersRecorded, NEW t \in Threads, OwnsExclusive(t),
         holds[t] < MaxHolds, TakeAgain(t)
  PROVE  OwnersRecorded'
<1>1. /\ exclusive /\ owner0.thread = t /\ t \in Owners /\ owner0.count > 0
      /\ holds[t] = owner0.count /\ \A o \in Owners \ {t} : holds[o] = 0
  BY DEF OwnersRecorded, ExclusiveRecorded, Alone, OwnsExclusive
<1>2. /\ active \in Nat /\ owner0 \in Entries /\ owner1 \in Entries /\ exclusive \in BOOLEAN
      /\ holds \in [Owners -> 0 .. MaxHolds] /\ table \in Seq(Entries) /\ MaxHolds \in Nat
  BY DEF OwnersRecorded, OwnerTypes, ResourceAssumption
<1>3. /\ owner0' = [owner0 EXCEPT !.count = @ + 1] /\ holds' = [holds EXCEPT ![t] = @ + 1]
      /\ UNCHANGED <<exclusive, active, owner1, table>>
  BY DEF TakeAgain, Granted
<1>4. /\ holds' \in [Owners -> 0 .. MaxHolds] /\ holds'[t] = holds[t] + 1
      /\ \A o \in Owners \ {t} : holds'[o] = holds[o]
  BY <1>1, <1>2, <1>3
<1>5. owner0' \in Entries /\ owner0'.thread = t /\ owner0'.count = owner0.count + 1
  <2>1. owner0 \in Entries /\ owner0.thread = t /\ owner0' = [owner0 EXCEPT !.count = @ + 1]
    BY <1>1, <1>2, <1>3
  <2> QED
    BY <2>1, EntryCounts
<1>6. OwnerTypes'
  BY <1>2, <1>3, <1>4, <1>5 DEF OwnerTypes
<1>7. EntriesFormed'
  BY <1>3 DEF OwnersRecorded, EntriesFormed
<1>8. Alone(owner0.thread, owner0.count)'
  <2>1. owner0.count \in Nat
    BY <1>2, EntryTypes
  <2> QED
    BY <1>1, <1>4, <1>5, <2>1 DEF Alone
<1>9. ExclusiveRecorded'
  BY <1>1, <1>3, <1>8 DEF OwnersRecorded, ExclusiveRecorded
<1> QED
  BY <1>1, <1>3, <1>6, <1>7, <1>9 DEF OwnersRecorded, SharedRecorded

\* Every way to take it: the owner was exclusive, or there was none where that matters.
LEMMA Taken ==
  ASSUME ResourceAssumption, OwnersRecorded, NEW t \in Threads, NEW kind \in Kinds,
         holds[t] < MaxHolds, Take(t, kind),
         OwnsExclusive(t) \/ ~exclusive,
         kind = "Exclusive" => OwnsExclusive(t) \/ active = 0,
         kind = "Starve" => OwnsExclusive(t) \/ (active = 0 => table = << >>)
  PROVE  OwnersRecorded'
<1>1. CASE OwnsExclusive(t)
  BY <1>1, TakenAgain DEF Take
<1>2. CASE ~OwnsExclusive(t) /\ kind = "Exclusive"
  BY <1>2, ExclusiveTaken DEF Take
<1>3. CASE ~OwnsExclusive(t) /\ kind = "Shared"
  BY <1>3, SharedTaken DEF Take
<1>4. CASE ~OwnsExclusive(t) /\ kind = "Starve"
  <2>1. TakeStarving(t)
    BY <1>4 DEF Take
  <2>2. TakeShared(t)
    BY <1>4, <2>1 DEF TakeStarving, TakeShared, EiAddSharedOwner
  <2> QED
    BY <1>4, <2>2, SharedTaken
<1> QED
  BY <1>1, <1>2, <1>3, <1>4 DEF Kinds

\* The last release of an exclusive owner leaves nobody, an earlier one leaves it.
LEMMA ExclusiveReleased ==
  ASSUME ResourceAssumption, OwnersRecorded, NEW o \in Owners, holds[o] > 0,
         holds' = [holds EXCEPT ![o] = @ - 1], ReleaseExclusive
  PROVE  OwnersRecorded'
<1>1. /\ exclusive /\ active = 1 /\ owner0.thread \in Owners
      /\ holds[owner0.thread] = owner0.count /\ \A p \in Owners \ {owner0.thread} : holds[p] = 0
      /\ table = << >> => owner1 = Free
      /\ \A i \in DOMAIN table : table[i].thread = None
  BY DEF ReleaseExclusive, OwnersRecorded, ExclusiveRecorded, Alone
<1>2. /\ active \in Nat /\ owner0 \in Entries /\ owner1 \in Entries
      /\ holds \in [Owners -> 0 .. MaxHolds] /\ table \in Seq(Entries) /\ MaxHolds \in Nat
      /\ \A i \in DOMAIN table : table[i].thread = None <=> table[i].count = 0
  BY DEF OwnersRecorded, OwnerTypes, EntriesFormed, ResourceAssumption
<1>3. o = owner0.thread /\ holds[o] = owner0.count /\ owner0.count \in Nat \ {0}
  BY <1>1, <1>2
<1>4. /\ holds' \in [Owners -> 0 .. MaxHolds] /\ holds'[o] = owner0.count - 1
      /\ \A p \in Owners \ {o} : holds'[p] = 0
  BY <1>1, <1>2, <1>3
<1>5. owner1' = owner1 /\ table' = table
  BY DEF ReleaseExclusive
<1>6. EntriesFormed'
  BY <1>5 DEF OwnersRecorded, EntriesFormed
<1>7. CASE owner0.count > 1
  <2>1. /\ owner0' = [owner0 EXCEPT !.count = @ - 1]
        /\ exclusive' = exclusive /\ active' = active
    BY <1>7 DEF ReleaseExclusive
  <2>2. owner0' \in Entries /\ owner0'.thread = o /\ owner0'.count = owner0.count - 1
    <3>1. owner0 \in Entries /\ owner0.thread = o /\ owner0.count > 0
      BY <1>2, <1>3
    <3> QED
      BY <2>1, <3>1, EntryCounts
  <2>3. exclusive' \in BOOLEAN
    BY <2>1 DEF OwnersRecorded, OwnerTypes
  <2>4. OwnerTypes'
    BY <1>2, <1>4, <1>5, <2>1, <2>2, <2>3 DEF OwnerTypes
  <2>5. Alone(owner0.thread, owner0.count)'
    BY <1>3, <1>4, <1>7, <2>2 DEF Alone
  <2>6. ExclusiveRecorded'
    BY <1>1, <1>5, <2>1, <2>5 DEF ExclusiveRecorded
  <2> QED
    BY <1>1, <1>6, <2>1, <2>4, <2>6 DEF OwnersRecorded, SharedRecorded
<1>8. CASE ~(owner0.count > 1)
  <2>1. owner0' = Free /\ active' = active - 1 /\ exclusive' = FALSE
    BY <1>8 DEF ReleaseExclusive
  <2>2. active' = 0 /\ \A p \in Owners : holds'[p] = 0
    BY <1>1, <1>3, <1>4, <1>8, <2>1
  <2>3. OwnerTypes'
    <3>1. owner0' \in Entries /\ exclusive' \in BOOLEAN /\ active' \in Nat
      BY <2>1, <2>2, EntryTypes
    <3>2. owner1' \in Entries /\ table' \in Seq(Entries) /\ holds' \in [Owners -> 0 .. MaxHolds]
      BY <1>2, <1>4, <1>5
    <3> QED
      BY <3>1, <3>2 DEF OwnerTypes
  <2>4. Used(table)' = {}
    BY <1>1, <1>2, <1>5 DEF Used
  <2>5. ASSUME NEW p \in Owners PROVE Tokens(table, p)' = {}
    <3>1. None \notin Owners
      BY EntryTypes
    <3> QED
      BY <1>1, <1>5, <3>1 DEF Tokens
  <2>6. HasSize(Used(table)', 0) /\ \A p \in Owners : HasSize(Tokens(table, p)', 0)
    BY <2>4, <2>5, SizeOfNothing
  <2>7. HasSize(Used(table)', active') /\ \A p \in Owners : HasSize(Tokens(table, p)', holds'[p])
    BY <2>2, <2>6
  <2>8. HasSize(Used(table), active)' /\ \A p \in Owners : HasSize(Tokens(table, p), holds[p])'
    BY <2>7 DEF HasSize
  <2>9. SharedRecorded'
    BY <1>1, <1>5, <2>1, <2>2, <2>8 DEF SharedRecorded
  <2> QED
    BY <1>6, <2>1, <2>3, <2>9 DEF OwnersRecorded, ExclusiveRecorded
<1> QED
  BY <1>7, <1>8

\* A shared owner's release is found where its acquisition was recorded.
LEMMA SharedReleased ==
  ASSUME ResourceAssumption, OwnersRecorded, NEW o \in Owners, holds[o] > 0,
         holds' = [holds EXCEPT ![o] = @ - 1], ReleaseShared(o)
  PROVE  OwnersRecorded'
<1>1. /\ None \notin Owners /\ o # None /\ \A e \in Entries : e.count \in Nat
      /\ Free \in Entries /\ Free.thread = None /\ Free.count = 0
  BY EntryTypes
<1>2. /\ active \in Nat /\ owner0 \in Entries /\ owner1 \in Entries /\ exclusive \in BOOLEAN
      /\ holds \in [Owners -> 0 .. MaxHolds] /\ table \in Seq(Entries) /\ MaxHolds \in Nat
      /\ \A i \in DOMAIN table : table[i].thread = None <=> table[i].count = 0
      /\ table # << >> => owner1.thread = None /\ owner1.count = Len(table)
  BY DEF OwnersRecorded, OwnerTypes, EntriesFormed, ResourceAssumption
<1>3. /\ ~exclusive /\ exclusive' = exclusive /\ owner0' = owner0 /\ owner0 = Free
      /\ EiRemoveSharedOwner(o)
  BY DEF ReleaseShared, OwnersRecorded, SharedRecorded
<1>4. /\ holds' \in [Owners -> 0 .. MaxHolds] /\ holds'[o] = holds[o] - 1
      /\ \A p \in Owners \ {o} : holds'[p] = holds[p]
  BY <1>2
<1>5. ExclusiveRecorded'
  BY <1>3 DEF ExclusiveRecorded
<1>6. CASE table = << >>
  <2>1. active = 1 /\ Alone(owner1.thread, owner1.count)
    BY <1>2, <1>3, <1>6 DEF OwnersRecorded, SharedRecorded
  <2>2. /\ owner1.thread = o /\ holds[o] = owner1.count /\ owner1.count \in Nat \ {0}
        /\ \A p \in Owners \ {o} : holds[p] = 0
    BY <1>1, <1>2, <2>1 DEF Alone
  <2>3. /\ owner1' = Less(owner1) /\ table' = table
        /\ active' = IF owner1.count = 1 THEN active - 1 ELSE active
    BY <1>3, <2>2 DEF EiRemoveSharedOwner
  <2>4. EntriesFormed'
    BY <1>6, <2>3 DEF EntriesFormed
  <2>5. CASE owner1.count = 1
    <3>1. owner1' = Free /\ active' = 0 /\ \A p \in Owners : holds'[p] = 0
      BY <1>4, <2>1, <2>2, <2>3, <2>5 DEF Less
    <3>2. OwnerTypes'
      BY <1>1, <1>2, <1>3, <1>4, <2>3, <3>1 DEF OwnerTypes
    <3>3. SharedRecorded'
      BY <1>3, <1>6, <2>3, <3>1 DEF SharedRecorded
    <3> QED
      BY <1>5, <2>4, <3>2, <3>3 DEF OwnersRecorded
  <2>6. CASE owner1.count # 1
    <3>1. owner1' = [owner1 EXCEPT !.count = @ - 1] /\ active' = 1
      BY <2>1, <2>3, <2>6 DEF Less
    <3>2. owner1' \in Entries /\ owner1'.thread = o /\ owner1'.count = owner1.count - 1
      <4>1. owner1 \in Entries /\ owner1.thread = o /\ owner1.count > 0
        BY <1>2, <2>2
      <4> QED
        BY <3>1, <4>1, EntryCounts
    <3>3. OwnerTypes'
      BY <1>2, <1>3, <1>4, <2>3, <3>1, <3>2 DEF OwnerTypes
    <3>4. Alone(owner1.thread, owner1.count)'
      BY <1>4, <2>2, <2>6, <3>2 DEF Alone
    <3>5. SharedRecorded'
      BY <1>3, <1>6, <2>3, <3>1, <3>4 DEF SharedRecorded
    <3> QED
      BY <1>5, <2>4, <3>3, <3>5 DEF OwnersRecorded
  <2> QED
    BY <2>5, <2>6
<1>7. CASE table # << >>
  <2>1. HasSize(Used(table), active) /\ \A p \in Owners : HasSize(Tokens(table, p), holds[p])
    BY <1>3, <1>7 DEF OwnersRecorded, SharedRecorded
  <2> DEFINE i == FirstOf(Places({o}))
  <2>2. i \in DOMAIN table /\ table[i].thread = o
    <3>1. Tokens(table, o) # {}
      BY <1>2, <2>1, SizeOfNothing, FS_EmptySet DEF HasSize
    <3>2. PICK j \in DOMAIN table : table[j].thread = o
      BY <3>1 DEF Tokens
    <3>3. j \in Places({o}) /\ Places({o}) \subseteq Nat
      BY <1>2, <1>7, <3>2 DEF Places
    <3>4. PICK k \in Places({o}) : \A m \in Places({o}) : k <= m
      BY <3>3, LeastIsThere, Zenon
    <3>5. i \in Places({o})
      BY <3>4 DEF FirstOf
    <3> QED
      BY <1>2, <3>5 DEF Places
  <2>3. Places({o}) # {}
    BY <1>2, <1>7, <2>2 DEF Places
  <2>4. /\ table' = [table EXCEPT ![i] = Less(table[i])] /\ owner1' = owner1
        /\ active' = IF table[i].count = 1 THEN active - 1 ELSE active
    BY <1>1, <1>2, <1>3, <1>7, <2>3 DEF EiRemoveSharedOwner
  <2> HIDE DEF i
  <2>5. table[i] \in Entries /\ table[i].count \in Nat \ {0}
    BY <1>1, <1>2, <2>2
  <2>6. /\ Less(table[i]) \in Entries
        /\ Tokens(table', o) = Tokens(table, o) \ {<<i, table[i].count>>}
        /\ <<i, table[i].count>> \in Tokens(table, o)
        /\ \A p \in Owners \ {o} : Tokens(table', p) = Tokens(table, p)
        /\ Used(table') = IF table[i].count = 1 THEN Used(table) \ {i} ELSE Used(table)
    <3>1. table[i].count > 0 /\ table \in Seq(Entries)
      BY <1>2, <2>5
    <3>2. Less(table[i]) \in Entries /\ IsShrunk(table, table', o, i, table[i].count)
      BY <2>2, <2>4, <3>1, EntryShrinks, Zenon
    <3> QED
      BY <3>2 DEF IsShrunk
  <2>7. /\ table' \in Seq(Entries) /\ table' # << >> /\ Len(table') = Len(table)
        /\ DOMAIN table' = DOMAIN table /\ table'[i] = Less(table[i])
        /\ \A j \in DOMAIN table : j # i => table'[j] = table[j]
    BY <1>2, <1>7, <2>2, <2>4, <2>6
  <2>8. Less(table[i]).thread = None <=> Less(table[i]).count = 0
    <3>1. CASE table[i].count = 1
      BY <1>1, <3>1 DEF Less
    <3>2. CASE table[i].count # 1
      <4>1. Less(table[i]) = [thread |-> table[i].thread, count |-> table[i].count - 1]
        BY <2>5, <3>2 DEF Less, Entries
      <4> QED
        BY <1>1, <2>2, <2>5, <3>2, <4>1
    <3> QED
      BY <3>1, <3>2
  <2>9. EntriesFormed'
    BY <1>2, <1>7, <2>4, <2>7, <2>8 DEF EntriesFormed
  <2>10. HasSize(Used(table'), active') /\ active' \in Nat
    <3>1. CASE table[i].count = 1
      <4>1. i \in Used(table)
        BY <2>2, <2>5 DEF Used
      <4>2. active >= 1 /\ HasSize(Used(table) \ {i}, active - 1)
        BY <2>1, <4>1, SizeChanges, Zenon
      <4>3. Used(table') = Used(table) \ {i} /\ active' = active - 1
        BY <2>4, <2>6, <3>1
      <4>4. active' \in Nat
        BY <1>2, <4>2, <4>3
      <4> QED
        BY <4>2, <4>3, <4>4
    <3>2. CASE table[i].count # 1
      BY <1>2, <2>1, <2>4, <2>6, <3>2
    <3> QED
      BY <3>1, <3>2
  <2>11. ASSUME NEW p \in Owners PROVE HasSize(Tokens(table', p), holds'[p])
    <3>1. CASE p = o
      <4>1. HasSize(Tokens(table, o), holds[o])
        BY <2>1
      <4>2. HasSize(Tokens(table, o) \ {<<i, table[i].count>>}, holds[o] - 1)
        BY <2>6, <4>1, SizeChanges, Zenon
      <4> QED
        BY <1>4, <2>6, <3>1, <4>2
    <3>2. CASE p # o
      BY <1>4, <2>1, <2>6, <3>2
    <3> QED
      BY <3>1, <3>2
  <2>12. OwnerTypes'
    BY <1>2, <1>3, <1>4, <2>4, <2>7, <2>10 DEF OwnerTypes
  <2>13. Used(table)' = Used(table') /\ \A p : Tokens(table, p)' = Tokens(table', p)
    BY DEF Used, Tokens
  <2>14. SharedRecorded'
    BY <1>3, <2>7, <2>10, <2>11, <2>13 DEF SharedRecorded
  <2> QED
    BY <1>5, <2>9, <2>12, <2>14 DEF OwnersRecorded
<1> QED
  BY <1>6, <1>7

\* The exclusive owner becomes the only shared one, where there is no owner table.
LEMMA Converted ==
  ASSUME ResourceAssumption, Careful, OwnersRecorded, NEW t \in Threads,
         ExConvertExclusiveToSharedLite(t)
  PROVE  OwnersRecorded'
<1>1. /\ exclusive /\ table = << >> /\ owner1' = owner0 /\ owner0' = Free /\ ~exclusive'
      /\ exclusive' \in BOOLEAN /\ UNCHANGED <<active, table, holds>>
  BY DEF ExConvertExclusiveToSharedLite, OwnsExclusive, Careful
<1>2. active = 1 /\ Alone(owner0.thread, owner0.count)
  BY <1>1 DEF OwnersRecorded, ExclusiveRecorded
<1>3. Alone(owner1.thread, owner1.count)'
  BY <1>1, <1>2 DEF Alone
<1>4. OwnerTypes'
  BY <1>1, EntryTypes DEF OwnersRecorded, OwnerTypes
<1> QED
  BY <1>1, <1>2, <1>3, <1>4
  DEF OwnersRecorded, EntriesFormed, ExclusiveRecorded, SharedRecorded

\* An owner that is recorded alone hands its acquisitions to a pointer.
LEMMA HandedOver ==
  ASSUME ResourceAssumption, Careful, OwnersRecorded, NEW t \in Threads, NEW p \in Pointers,
         ExSetResourceOwnerPointer(t, p)
  PROVE  OwnersRecorded'
<1>1. t \in Owners /\ p \in Owners /\ t # p /\ None \notin Owners /\ t # None
  BY EntryTypes DEF ResourceAssumption, Owners
<1>2. /\ active \in Nat /\ owner0 \in Entries /\ owner1 \in Entries /\ exclusive \in BOOLEAN
      /\ holds \in [Owners -> 0 .. MaxHolds] /\ table \in Seq(Entries) /\ MaxHolds \in Nat
  BY DEF OwnersRecorded, OwnerTypes, ResourceAssumption
<1>3. /\ holds[t] > 0 /\ holds[p] = 0 /\ holds' = [holds EXCEPT ![t] = 0, ![p] = holds[t]]
      /\ exclusive' = exclusive /\ active' = active
      /\ exclusive => owner0.thread = t
      /\ exclusive \/ owner1.thread = t
  BY DEF ExSetResourceOwnerPointer, Careful
<1>4. /\ holds' \in [Owners -> 0 .. MaxHolds] /\ holds'[t] = 0 /\ holds'[p] = holds[t]
      /\ \A o \in Owners \ {t, p} : holds'[o] = holds[o]
  BY <1>1, <1>2, <1>3
<1>5. ASSUME NEW n, Alone(t, n) PROVE Alone(p, n)'
  BY <1>1, <1>4, <1>5 DEF Alone
<1>6. ASSUME NEW e \in Entries
      PROVE  /\ [e EXCEPT !.thread = p] \in Entries /\ [e EXCEPT !.thread = p].thread = p
             /\ [e EXCEPT !.thread = p].count = e.count
  BY <1>1 DEF Entries
<1>7. CASE exclusive
  <2>1. owner0' = [owner0 EXCEPT !.thread = p] /\ owner1' = owner1 /\ table' = table
    BY <1>7 DEF ExSetResourceOwnerPointer
  <2>2. owner0' \in Entries /\ owner0'.thread = p /\ owner0'.count = owner0.count
    BY <1>2, <1>6, <2>1
  <2>3. Alone(owner0.thread, owner0.count)'
    <3>1. Alone(t, owner0.count)
      BY <1>3, <1>7 DEF OwnersRecorded, ExclusiveRecorded
    <3> QED
      BY <1>5, <2>2, <3>1 DEF Alone
  <2>4. OwnerTypes'
    BY <1>2, <1>3, <1>4, <2>1, <2>2 DEF OwnerTypes
  <2>5. EntriesFormed'
    BY <2>1 DEF OwnersRecorded, EntriesFormed
  <2>6. ExclusiveRecorded'
    BY <1>3, <1>7, <2>1, <2>3 DEF OwnersRecorded, ExclusiveRecorded
  <2> QED
    BY <1>3, <1>7, <2>4, <2>5, <2>6 DEF OwnersRecorded, SharedRecorded
<1>8. CASE ~exclusive
  <2>1. owner1' = [owner1 EXCEPT !.thread = p] /\ owner0' = owner0 /\ table' = table
    BY <1>3, <1>8 DEF ExSetResourceOwnerPointer
  <2>2. owner1' \in Entries /\ owner1'.thread = p /\ owner1'.count = owner1.count
    BY <1>2, <1>6, <2>1
  <2>3. table = << >>
    BY <1>1, <1>3, <1>8 DEF OwnersRecorded, EntriesFormed
  <2>4. active = 1 /\ Alone(t, owner1.count) /\ owner0 = Free
    BY <1>1, <1>3, <1>8, <2>3 DEF OwnersRecorded, SharedRecorded
  <2>5. Alone(owner1.thread, owner1.count)'
    BY <1>5, <2>2, <2>4 DEF Alone
  <2>6. OwnerTypes'
    BY <1>2, <1>3, <1>4, <2>1, <2>2 DEF OwnerTypes
  <2>7. EntriesFormed'
    BY <2>1, <2>3 DEF EntriesFormed
  <2>8. SharedRecorded'
    BY <1>3, <2>1, <2>3, <2>4, <2>5 DEF SharedRecorded
  <2> QED
    BY <1>3, <1>8, <2>6, <2>7, <2>8 DEF OwnersRecorded, ExclusiveRecorded
<1> QED
  BY <1>7, <1>8
-------------------------------------------------------------------------------
(* The threads that wait. *)

WaitTypes ==
  /\ exclusiveWaiters \in Nat /\ sharedWaiters \in Nat
  /\ event \in BOOLEAN /\ credit \in Nat
  /\ blockedExclusive \in Seq(Threads) /\ blockedShared \in Seq(Threads)
  /\ pc \in [Threads -> {"Run", "Go", "Blocked", "Woken"}] /\ wants \in [Threads -> Kinds]

Sharing == {"Shared", "Starve"}
Listed(kinds) == {t \in Threads : pc[t] = "Blocked" /\ wants[t] \in kinds}

\* The lists of the event and the semaphore are the threads that are blocked, once.
WaitersListed ==
  /\ NoDuplicates(blockedExclusive) /\ Members(blockedExclusive) = Listed({"Exclusive"})
  /\ NoDuplicates(blockedShared) /\ Members(blockedShared) = Listed(Sharing)

WaitersSized ==
  /\ HasSize(Waiting({"Exclusive"}), exclusiveWaiters)
  /\ HasSize(Waiting(Sharing), sharedWaiters)
  /\ credit > 0 => blockedShared = << >>
  /\ event => blockedExclusive = << >>

WaitersKept == WaitTypes /\ WaitersListed /\ WaitersSized

\* The shared waiters that have released the spin lock and are not in the wait yet.
Going == {t \in Threads : pc[t] = "Go" /\ wants[t] \in Sharing}

\* The same threads wait if none begins to or has ended.
LEMMA SameWaiters ==
  ASSUME wants' = wants, \A t \in Threads : pc'[t] = "Run" <=> pc[t] = "Run"
  PROVE  \A kinds : Waiting(kinds)' = Waiting(kinds)
BY DEF Waiting

\* Every sharing waiter that is blocked or about to be is counted.
LEMMA SharersCounted ==
  ASSUME ResourceAssumption, WaitersKept
  PROVE  /\ Cardinality(Going) \in Nat /\ IsFiniteSet(Going)
         /\ Cardinality(Going) + Len(blockedShared) <= sharedWaiters
<1>1. HasSize(Waiting(Sharing), sharedWaiters)
  BY DEF WaitersKept, WaitersSized
<1>2. Going \in SUBSET Waiting(Sharing) /\ Listed(Sharing) \in SUBSET Waiting(Sharing)
  BY DEF Going, Listed, Waiting
<1>3. /\ IsFiniteSet(Waiting(Sharing)) /\ Cardinality(Waiting(Sharing)) = sharedWaiters
  BY <1>1 DEF HasSize
<1>4. IsFiniteSet(Going) /\ IsFiniteSet(Listed(Sharing))
  BY <1>2, <1>3, FS_Subset, Zenon
<1>5. Cardinality(Going) \in Nat /\ Cardinality(Listed(Sharing)) \in Nat
  BY <1>4, FS_CardinalityType, Zenon
<1>6. Cardinality(Going \union Listed(Sharing)) <= sharedWaiters
  <2>1. Going \union Listed(Sharing) \in SUBSET Waiting(Sharing)
    BY <1>2
  <2>2. Cardinality(Going \union Listed(Sharing)) <= Cardinality(Waiting(Sharing))
    BY <1>3, <2>1, FS_Subset, Zenon
  <2> QED
    BY <1>3, <2>2
<1>7. Cardinality(Going \union Listed(Sharing)) = Cardinality(Going) + Cardinality(Listed(Sharing))
  <2>1. Going \cap Listed(Sharing) = {}
    BY DEF Going, Listed
  <2>2. Cardinality(Going \cap Listed(Sharing)) = 0
    BY <2>1, FS_EmptySet
  <2>3. Cardinality(Going \union Listed(Sharing))
          = Cardinality(Going) + Cardinality(Listed(Sharing)) - Cardinality(Going \cap Listed(Sharing))
    BY <1>4, FS_Union, Zenon
  <2> QED
    BY <1>5, <2>2, <2>3
<1>8. Len(blockedShared) <= Cardinality(Listed(Sharing)) /\ Len(blockedShared) \in Nat
  <2>1. /\ blockedShared \in Seq(Threads) /\ NoDuplicates(blockedShared)
        /\ Members(blockedShared) = Listed(Sharing)
    BY DEF WaitersKept, WaitTypes, WaitersListed
  <2>2. blockedShared \in Seq(Listed(Sharing))
    BY <2>1 DEF Members
  <2>3. Len(blockedShared) <= Cardinality(Listed(Sharing))
    BY <1>4, <2>1, <2>2, ListFits, Zenon
  <2> QED
    BY <2>1, <2>3
<1>9. sharedWaiters \in Nat
  BY DEF WaitersKept, WaitTypes
<1> QED
  BY <1>4, <1>5, <1>6, <1>7, <1>8, <1>9

\* Without sharing waiters there is nobody to release the semaphore for.
LEMMA NoSharers ==
  ASSUME ResourceAssumption, WaitersKept, sharedWaiters = 0
  PROVE  blockedShared = << >> /\ Cardinality(Going) = 0
<1>1. /\ Cardinality(Going) \in Nat
      /\ Cardinality(Going) + Len(blockedShared) <= sharedWaiters
  BY SharersCounted
<1>2. blockedShared \in Seq(Threads)
  BY DEF WaitersKept, WaitTypes
<1>3. Len(blockedShared) = 0 /\ Cardinality(Going) = 0
  BY <1>1, <1>2
<1> QED
  BY <1>2, <1>3

\* The event is set, or an exclusive waiter is woken.
LEMMA EventSet ==
  ASSUME ResourceAssumption, WaitersKept, SetEvent, UNCHANGED <<waiting, wants>>
  PROVE  /\ WaitersKept'
         /\ event' \/ \E t \in Threads : pc'[t] = "Woken" /\ wants'[t] = "Exclusive"
         /\ \A t \in Threads : pc'[t] = "Run" <=> pc[t] = "Run"
<1>1. /\ WaitTypes /\ NoDuplicates(blockedExclusive) /\ NoDuplicates(blockedShared)
      /\ Members(blockedExclusive) = Listed({"Exclusive"}) /\ Members(blockedShared) = Listed(Sharing)
      /\ WaitersSized
  BY DEF WaitersKept, WaitersListed
<1>2. /\ wants' = wants /\ exclusiveWaiters' = exclusiveWaiters /\ sharedWaiters' = sharedWaiters
      /\ credit' = credit /\ blockedShared' = blockedShared
  BY DEF SetEvent, waiting
<1>3. CASE blockedExclusive = << >>
  <2>1. event' = TRUE /\ pc' = pc /\ blockedExclusive' = blockedExclusive
    BY <1>3 DEF SetEvent
  <2>2. WaitTypes'
    BY <1>1, <1>2, <2>1 DEF WaitTypes
  <2>3. WaitersListed'
    BY <1>1, <1>2, <2>1 DEF WaitersListed, Listed
  <2>4. WaitersSized'
    BY <1>1, <1>2, <1>3, <2>1, SameWaiters DEF WaitersSized
  <2> QED
    BY <2>1, <2>2, <2>3, <2>4 DEF WaitersKept
<1>4. CASE blockedExclusive # << >>
  <2> DEFINE h == Head(blockedExclusive)
  <2>1. /\ pc' = [pc EXCEPT ![h] = "Woken"] /\ event' = event
        /\ blockedExclusive' = Tail(blockedExclusive)
    BY <1>4 DEF SetEvent, Goto
  <2>2. h \in Threads /\ h \in Members(blockedExclusive)
    BY <1>1, <1>4, HeadIsMember DEF WaitTypes
  <2>3. pc[h] = "Blocked" /\ wants[h] = "Exclusive"
    BY <1>1, <2>2 DEF Listed
  <2>4. /\ Tail(blockedExclusive) \in Seq(Threads) /\ NoDuplicates(Tail(blockedExclusive))
        /\ Members(Tail(blockedExclusive)) = Members(blockedExclusive) \ {h}
    BY <1>1, <1>4, TailDrops DEF WaitTypes
  <2> HIDE DEF h
  <2>5. /\ pc' \in [Threads -> {"Run", "Go", "Blocked", "Woken"}] /\ pc'[h] = "Woken"
        /\ \A t \in Threads : t # h => pc'[t] = pc[t]
    BY <1>1, <2>1, <2>2 DEF WaitTypes
  <2>6. WaitTypes'
    BY <1>1, <1>2, <2>1, <2>4, <2>5 DEF WaitTypes
  <2>7. Listed({"Exclusive"})' = Listed({"Exclusive"}) \ {h} /\ Listed(Sharing)' = Listed(Sharing)
    BY <1>2, <2>2, <2>3, <2>5 DEF Listed, Sharing
  <2>8. WaitersListed'
    BY <1>1, <1>2, <2>1, <2>4, <2>7 DEF WaitersListed
  <2>9. \A t \in Threads : pc'[t] = "Run" <=> pc[t] = "Run"
    BY <2>3, <2>5
  <2>10. WaitersSized'
    BY <1>1, <1>2, <1>4, <2>1, <2>9, SameWaiters DEF WaitersSized
  <2> QED
    BY <1>2, <2>2, <2>3, <2>5, <2>6, <2>8, <2>9, <2>10 DEF WaitersKept
<1> QED
  BY <1>3, <1>4

\* The semaphore is released for every sharing waiter: none stays blocked, and those on
\* their way will find it.
LEMMA SemaphoreReleased ==
  ASSUME ResourceAssumption, WaitersKept, ReleaseSemaphore, UNCHANGED <<waiting, wants>>
  PROVE  /\ WaitersKept'
         /\ blockedShared' = << >> /\ Cardinality(Going') <= credit'
         /\ \A t \in Threads : pc'[t] = "Run" <=> pc[t] = "Run"
<1>1. /\ WaitTypes /\ NoDuplicates(blockedExclusive) /\ NoDuplicates(blockedShared)
      /\ Members(blockedExclusive) = Listed({"Exclusive"}) /\ Members(blockedShared) = Listed(Sharing)
      /\ WaitersSized
  BY DEF WaitersKept, WaitersListed
<1>2. /\ wants' = wants /\ exclusiveWaiters' = exclusiveWaiters /\ sharedWaiters' = sharedWaiters
      /\ event' = event /\ blockedExclusive' = blockedExclusive
  BY DEF ReleaseSemaphore, waiting
<1>3. /\ Cardinality(Going) \in Nat /\ Cardinality(Going) + Len(blockedShared) <= sharedWaiters
      /\ sharedWaiters \in Nat /\ credit \in Nat /\ blockedShared \in Seq(Threads)
      /\ Len(blockedShared) \in Nat /\ DOMAIN blockedShared = 1 .. Len(blockedShared)
      /\ pc \in [Threads -> {"Run", "Go", "Blocked", "Woken"}]
  BY <1>1, SharersCounted DEF WaitTypes
<1> DEFINE n == IF sharedWaiters < Len(blockedShared) THEN sharedWaiters ELSE Len(blockedShared)
<1>4. n = Len(blockedShared)
  <2>1. \A c, l, s \in Nat : c + l <= s => (IF s < l THEN s ELSE l) = l
    OBVIOUS
  <2> QED
    BY <1>3, <2>1, Zenon
<1>5. /\ pc' = [t \in Threads |-> IF t \in {blockedShared[i] : i \in 1 .. n} THEN "Woken" ELSE pc[t]]
      /\ blockedShared' = SubSeq(blockedShared, n + 1, Len(blockedShared))
      /\ credit' = credit + (sharedWaiters - n)
  BY DEF ReleaseSemaphore
<1>6. {blockedShared[i] : i \in 1 .. n} = Listed(Sharing)
  BY <1>1, <1>3, <1>4 DEF Members
<1>7. \A t \in Threads : pc'[t] = IF t \in Listed(Sharing) THEN "Woken" ELSE pc[t]
  BY <1>5, <1>6
<1>8. pc' \in [Threads -> {"Run", "Go", "Blocked", "Woken"}]
  BY <1>3, <1>5
<1>9. blockedShared' = << >>
  <2>1. blockedShared \in Seq(Threads) /\ blockedShared' = SubSeq(blockedShared, Len(blockedShared) + 1, Len(blockedShared))
    BY <1>3, <1>4, <1>5
  <2> QED
    BY <2>1
<1>10. credit' \in Nat /\ Cardinality(Going) <= credit'
  <2>1. \A k, c, l, s \in Nat : c + l <= s => k + (s - l) \in Nat /\ c <= k + (s - l)
    OBVIOUS
  <2>2. credit' = credit + (sharedWaiters - Len(blockedShared))
    BY <1>4, <1>5
  <2> QED
    BY <1>3, <2>1, <2>2, Zenon
<1>11. Going' = Going
  BY <1>2, <1>7 DEF Going, Listed
<1>12. \A t \in Threads : pc'[t] = "Run" <=> pc[t] = "Run"
  BY <1>7 DEF Listed
<1>13. Listed({"Exclusive"})' = Listed({"Exclusive"}) /\ Listed(Sharing)' = {}
  BY <1>2, <1>7 DEF Listed, Sharing
<1>14. WaitTypes'
  BY <1>1, <1>2, <1>8, <1>9, <1>10 DEF WaitTypes
<1>15. WaitersListed'
  <2>1. NoDuplicates(<< >>)
    BY DEF NoDuplicates
  <2> QED
    BY <1>1, <1>2, <1>9, <1>13, <2>1, EmptyHasNone DEF WaitersListed
<1>16. WaitersSized'
  BY <1>1, <1>2, <1>9, <1>12, SameWaiters DEF WaitersSized
<1> QED
  BY <1>9, <1>10, <1>11, <1>12, <1>14, <1>15, <1>16 DEF WaitersKept

\* A thread that begins to wait is counted.
LEMMA WaitBegun ==
  ASSUME ResourceAssumption, WaitersKept, NEW t \in Threads, NEW kind \in Kinds, pc[t] = "Run",
         BeginToWait(t, kind)
  PROVE  WaitersKept'
<1>1. WaitTypes /\ WaitersListed /\ WaitersSized
  BY DEF WaitersKept
<1>2. /\ pc' = [pc EXCEPT ![t] = "Go"] /\ wants' = [wants EXCEPT ![t] = kind]
      /\ exclusiveWaiters' = IF kind = "Exclusive" THEN exclusiveWaiters + 1 ELSE exclusiveWaiters
      /\ sharedWaiters' = IF kind = "Exclusive" THEN sharedWaiters ELSE sharedWaiters + 1
      /\ UNCHANGED <<event, blockedExclusive, credit, blockedShared>>
  BY DEF BeginToWait, Goto, signals
<1>3. /\ pc' \in [Threads -> {"Run", "Go", "Blocked", "Woken"}] /\ wants' \in [Threads -> Kinds]
      /\ pc'[t] = "Go" /\ wants'[t] = kind
      /\ \A u \in Threads : u # t => pc'[u] = pc[u] /\ wants'[u] = wants[u]
  BY <1>1, <1>2 DEF WaitTypes
<1>4. WaitTypes'
  BY <1>1, <1>2, <1>3 DEF WaitTypes
<1>5. \A kinds : Listed(kinds)' = Listed(kinds)
  BY <1>3 DEF Listed
<1>6. WaitersListed'
  BY <1>1, <1>2, <1>5 DEF WaitersListed
<1>7. ASSUME NEW kinds
      PROVE  /\ t \notin Waiting(kinds)
             /\ Waiting(kinds)' = IF kind \in kinds THEN Waiting(kinds) \union {t} ELSE Waiting(kinds)
  BY <1>3 DEF Waiting
<1>8. ASSUME NEW kinds, NEW n, HasSize(Waiting(kinds), n)
      PROVE  HasSize(Waiting(kinds)', IF kind \in kinds THEN n + 1 ELSE n)
  <2>1. t \notin Waiting(kinds) => HasSize(Waiting(kinds) \union {t}, n + 1)
    BY <1>8, SizeChanges, Zenon
  <2> QED
    BY <1>7, <1>8, <2>1
<1>9. HasSize(Waiting({"Exclusive"})', exclusiveWaiters')
  BY <1>1, <1>2, <1>8 DEF WaitersSized
<1>10. HasSize(Waiting(Sharing)', sharedWaiters')
  <2>1. kind \in Sharing <=> kind # "Exclusive"
    BY DEF Kinds, Sharing
  <2> QED
    BY <1>1, <1>2, <1>8, <2>1 DEF WaitersSized
<1>11. WaitersSized'
  BY <1>1, <1>2, <1>9, <1>10 DEF WaitersSized
<1> QED
  BY <1>4, <1>6, <1>11 DEF WaitersKept

\* A thread comes to its wait, or finds the signal there.
LEMMA SignalAwaited ==
  ASSUME ResourceAssumption, WaitersKept, NEW t \in Threads, WaitForSignal(t)
  PROVE  WaitersKept'
<1>1. /\ WaitTypes /\ NoDuplicates(blockedExclusive) /\ NoDuplicates(blockedShared)
      /\ Members(blockedExclusive) = Listed({"Exclusive"}) /\ Members(blockedShared) = Listed(Sharing)
      /\ WaitersSized
  BY DEF WaitersKept, WaitersListed
<1>2. /\ pc[t] = "Go" /\ wants' = wants
      /\ exclusiveWaiters' = exclusiveWaiters /\ sharedWaiters' = sharedWaiters
  BY DEF WaitForSignal, waiting
<1>3. PICK where \in {"Blocked", "Woken"} : pc' = [pc EXCEPT ![t] = where]
  BY DEF WaitForSignal, Goto
<1>4. /\ pc' \in [Threads -> {"Run", "Go", "Blocked", "Woken"}] /\ pc'[t] = where
      /\ \A u \in Threads : u # t => pc'[u] = pc[u]
  BY <1>1, <1>3 DEF WaitTypes
<1>5. \A kinds : Waiting(kinds)' = Waiting(kinds)
  <2>1. \A u \in Threads : pc'[u] = "Run" <=> pc[u] = "Run"
    BY <1>2, <1>4
  <2> QED
    BY <1>2, <2>1, SameWaiters
<1>6. wants[t] # "Exclusive" <=> wants[t] \in Sharing
  BY <1>1 DEF WaitTypes, Kinds, Sharing
<1>7. ASSUME NEW kinds
      PROVE  /\ t \notin Listed(kinds)
             /\ Listed(kinds)' = IF where = "Blocked" /\ wants[t] \in kinds
                                   THEN Listed(kinds) \union {t} ELSE Listed(kinds)
  BY <1>2, <1>4 DEF Listed
<1>8. CASE wants[t] = "Exclusive"
  <2>1. credit' = credit /\ blockedShared' = blockedShared
    BY <1>8 DEF WaitForSignal
  <2>2. Listed(Sharing)' = Listed(Sharing)
    BY <1>6, <1>7, <1>8
  <2>3. CASE event
    <3>1. event' = FALSE /\ blockedExclusive' = blockedExclusive /\ pc' = [pc EXCEPT ![t] = "Woken"]
      BY <1>8, <2>3 DEF WaitForSignal, Goto
    <3>2. pc'[t] = "Woken"
      BY <1>1, <3>1 DEF WaitTypes
    <3>3. Listed({"Exclusive"})' = Listed({"Exclusive"})
      BY <1>4, <1>7, <3>2
    <3>4. WaitTypes'
      BY <1>1, <1>2, <1>4, <2>1, <3>1 DEF WaitTypes
    <3>5. WaitersListed'
      BY <1>1, <2>1, <2>2, <3>1, <3>3 DEF WaitersListed
    <3>6. WaitersSized'
      BY <1>1, <1>2, <1>5, <2>1, <3>1 DEF WaitersSized
    <3> QED
      BY <3>4, <3>5, <3>6 DEF WaitersKept
  <2>4. CASE ~event
    <3>1. /\ event' = event /\ blockedExclusive' = Append(blockedExclusive, t)
          /\ pc' = [pc EXCEPT ![t] = "Blocked"]
      BY <1>8, <2>4 DEF WaitForSignal, Goto
    <3>2. pc'[t] = "Blocked"
      BY <1>1, <3>1 DEF WaitTypes
    <3>3. t \notin Listed({"Exclusive"}) /\ Listed({"Exclusive"})' = Listed({"Exclusive"}) \union {t}
      BY <1>4, <1>7, <1>8, <3>2
    <3>4. /\ blockedExclusive' \in Seq(Threads) /\ NoDuplicates(blockedExclusive')
          /\ Members(blockedExclusive') = Members(blockedExclusive) \union {t}
      BY <1>1, <3>1, <3>3, AppendAdds DEF WaitTypes
    <3>5. WaitTypes'
      BY <1>1, <1>2, <1>4, <2>1, <3>1, <3>4 DEF WaitTypes
    <3>6. WaitersListed'
      BY <1>1, <2>1, <2>2, <3>3, <3>4 DEF WaitersListed
    <3>7. WaitersSized'
      BY <1>1, <1>2, <1>5, <2>1, <2>4, <3>1 DEF WaitersSized
    <3> QED
      BY <3>5, <3>6, <3>7 DEF WaitersKept
  <2> QED
    BY <2>3, <2>4
<1>9. CASE wants[t] # "Exclusive"
  <2>1. event' = event /\ blockedExclusive' = blockedExclusive
    BY <1>9 DEF WaitForSignal
  <2>2. Listed({"Exclusive"})' = Listed({"Exclusive"})
    BY <1>7, <1>9
  <2>3. CASE credit > 0
    <3>1. credit' = credit - 1 /\ blockedShared' = blockedShared /\ pc' = [pc EXCEPT ![t] = "Woken"]
      BY <1>9, <2>3 DEF WaitForSignal, Goto
    <3>2. pc'[t] = "Woken"
      BY <1>1, <3>1 DEF WaitTypes
    <3>3. Listed(Sharing)' = Listed(Sharing)
      BY <1>4, <1>7, <3>2
    <3>4. WaitTypes'
      BY <1>1, <1>2, <1>4, <2>1, <2>3, <3>1 DEF WaitTypes
    <3>5. WaitersListed'
      BY <1>1, <2>1, <2>2, <3>1, <3>3 DEF WaitersListed
    <3>6. WaitersSized'
      BY <1>1, <1>2, <1>5, <2>1, <2>3, <3>1 DEF WaitersSized
    <3> QED
      BY <3>4, <3>5, <3>6 DEF WaitersKept
  <2>4. CASE ~(credit > 0)
    <3>1. /\ credit' = credit /\ blockedShared' = Append(blockedShared, t)
          /\ pc' = [pc EXCEPT ![t] = "Blocked"]
      BY <1>9, <2>4 DEF WaitForSignal, Goto
    <3>2. pc'[t] = "Blocked"
      BY <1>1, <3>1 DEF WaitTypes
    <3>3. t \notin Listed(Sharing) /\ Listed(Sharing)' = Listed(Sharing) \union {t}
      BY <1>4, <1>6, <1>7, <1>9, <3>2
    <3>4. /\ blockedShared' \in Seq(Threads) /\ NoDuplicates(blockedShared')
          /\ Members(blockedShared') = Members(blockedShared) \union {t}
      BY <1>1, <3>1, <3>3, AppendAdds DEF WaitTypes
    <3>5. WaitTypes'
      BY <1>1, <1>2, <1>4, <2>1, <3>1, <3>4 DEF WaitTypes
    <3>6. WaitersListed'
      BY <1>1, <2>1, <2>2, <3>3, <3>4 DEF WaitersListed
    <3>7. WaitersSized'
      BY <1>1, <1>2, <1>5, <2>1, <2>4, <3>1 DEF WaitersSized
    <3> QED
      BY <3>5, <3>6, <3>7 DEF WaitersKept
  <2> QED
    BY <2>3, <2>4
<1> QED
  BY <1>8, <1>9

\* A woken thread has what it waited for, or goes back to wait.
LEMMA WaitEnded ==
  ASSUME ResourceAssumption, WaitersKept, NEW t \in Threads, AfterWait(t)
  PROVE  WaitersKept'
<1>1. WaitTypes /\ WaitersListed /\ WaitersSized
  BY DEF WaitersKept
<1>2. /\ pc[t] = "Woken" /\ wants' = wants
      /\ UNCHANGED <<event, blockedExclusive, credit, blockedShared>>
  BY DEF AfterWait, signals
<1>3. PICK where \in {"Run", "Go"} : pc' = [pc EXCEPT ![t] = where]
  BY DEF AfterWait, Goto
<1>4. /\ pc' \in [Threads -> {"Run", "Go", "Blocked", "Woken"}] /\ pc'[t] = where
      /\ \A u \in Threads : u # t => pc'[u] = pc[u]
  BY <1>1, <1>3 DEF WaitTypes
<1>5. \A kinds : Listed(kinds)' = Listed(kinds)
  BY <1>2, <1>4 DEF Listed
<1>6. WaitersListed'
  BY <1>1, <1>2, <1>5 DEF WaitersListed
<1>7. CASE StillFree(wants[t])
  <2>1. pc' = [pc EXCEPT ![t] = "Run"]
    BY <1>7 DEF AfterWait, Goto
  <2>2. pc'[t] = "Run"
    BY <1>1, <2>1 DEF WaitTypes
  <2>3. ASSUME NEW kinds
        PROVE  /\ wants[t] \in kinds => t \in Waiting(kinds)
               /\ Waiting(kinds)' = IF wants[t] \in kinds THEN Waiting(kinds) \ {t} ELSE Waiting(kinds)
    BY <1>2, <1>4, <2>2 DEF Waiting
  <2>4. ASSUME NEW kinds, NEW n, HasSize(Waiting(kinds), n)
        PROVE  IF wants[t] \in kinds THEN n - 1 \in Nat /\ HasSize(Waiting(kinds)', n - 1)
                                     ELSE HasSize(Waiting(kinds)', n)
    <3>1. /\ n \in Nat
          /\ t \in Waiting(kinds) => n >= 1 /\ HasSize(Waiting(kinds) \ {t}, n - 1)
      BY <2>4, SizeChanges, Zenon
    <3> QED
      BY <2>3, <2>4, <3>1
  <2>5. wants[t] \in Sharing <=> wants[t] # "Exclusive"
    BY <1>1 DEF WaitTypes, Kinds, Sharing
  <2>6. /\ exclusiveWaiters' = IF wants[t] = "Exclusive" THEN exclusiveWaiters - 1 ELSE exclusiveWaiters
        /\ sharedWaiters' = IF wants[t] = "Exclusive" THEN sharedWaiters ELSE sharedWaiters - 1
    BY <1>7 DEF AfterWait
  <2>7. HasSize(Waiting({"Exclusive"})', exclusiveWaiters') /\ exclusiveWaiters' \in Nat
    BY <1>1, <2>4, <2>6 DEF WaitersSized, WaitTypes
  <2>8. HasSize(Waiting(Sharing)', sharedWaiters') /\ sharedWaiters' \in Nat
    BY <1>1, <2>4, <2>5, <2>6 DEF WaitersSized, WaitTypes
  <2>9. WaitersSized' /\ WaitTypes'
    BY <1>1, <1>2, <1>4, <2>7, <2>8 DEF WaitersSized, WaitTypes
  <2> QED
    BY <1>6, <2>9 DEF WaitersKept
<1>8. CASE ~StillFree(wants[t])
  <2>1. /\ pc' = [pc EXCEPT ![t] = "Go"]
        /\ exclusiveWaiters' = exclusiveWaiters /\ sharedWaiters' = sharedWaiters
    BY <1>8 DEF AfterWait, Goto, waiting
  <2>2. \A u \in Threads : pc'[u] = "Run" <=> pc[u] = "Run"
    BY <1>1, <1>2, <2>1 DEF WaitTypes
  <2>3. WaitersSized' /\ WaitTypes'
    BY <1>1, <1>2, <1>4, <2>1, <2>2, SameWaiters DEF WaitersSized, WaitTypes
  <2> QED
    BY <1>6, <2>3 DEF WaitersKept
<1> QED
  BY <1>7, <1>8
-------------------------------------------------------------------------------
(* The invariant. *)

\* A thread waits for one more acquisition than it may have without waiting.
WaitersHaveRoom ==
  \A t \in Threads : pc[t] # "Run" => wants[t] # "Starve" /\ holds[t] < MaxHolds

\* While the resource is free a signal is there for an exclusive waiter, or one is awake;
\* and while shared owners may come none is blocked and all find the semaphore released.
SignalOnItsWay ==
  /\ active = 0 /\ exclusiveWaiters > 0
       => event \/ \E t \in Threads : pc[t] = "Woken" /\ wants[t] = "Exclusive"
  /\ ~HeldOff => blockedShared = << >> /\ Cardinality(Going) <= credit

IInv == OwnersRecorded /\ WaitersKept /\ WaitersHaveRoom /\ SignalOnItsWay

LEMMA InitIInv == ResourceAssumption /\ Init => IInv
<1> SUFFICES ASSUME ResourceAssumption, Init PROVE IInv
  OBVIOUS
<1>1. /\ exclusive = FALSE /\ active = 0 /\ owner0 = Free /\ owner1 = Free /\ table = << >>
      /\ exclusiveWaiters = 0 /\ sharedWaiters = 0
      /\ event = FALSE /\ blockedExclusive = << >> /\ credit = 0 /\ blockedShared = << >>
      /\ pc = [t \in Threads |-> "Run"] /\ wants = [t \in Threads |-> "Shared"]
      /\ holds = [o \in Owners |-> 0] /\ MaxHolds \in Nat
  BY DEF Init, ExInitializeResourceLite, ResourceAssumption
<1>2. OwnersRecorded
  <2>1. Free \in Entries
    BY EntryTypes
  <2>2. OwnerTypes
    <3>1. holds \in [Owners -> 0 .. MaxHolds]
      BY <1>1
    <3>2. << >> \in Seq(Entries) /\ FALSE \in BOOLEAN /\ 0 \in Nat
      OBVIOUS
    <3>3. /\ exclusive \in BOOLEAN /\ active \in Nat /\ owner0 \in Entries
          /\ owner1 \in Entries /\ table \in Seq(Entries)
      BY <1>1, <2>1, <3>2, Zenon
    <3> QED
      BY <3>1, <3>3 DEF OwnerTypes
  <2> QED
    BY <1>1, <2>2
    DEF OwnersRecorded, EntriesFormed, ExclusiveRecorded, SharedRecorded
<1>3. \A t \in Threads : pc[t] = "Run"
  BY <1>1
<1>4. WaitersKept
  <2>1. WaitTypes
    <3>1. /\ pc \in [Threads -> {"Run", "Go", "Blocked", "Woken"}] /\ wants \in [Threads -> Kinds]
      BY <1>1 DEF Kinds
    <3>2. << >> \in Seq(Threads) /\ FALSE \in BOOLEAN /\ 0 \in Nat
      OBVIOUS
    <3>3. /\ exclusiveWaiters \in Nat /\ sharedWaiters \in Nat /\ event \in BOOLEAN /\ credit \in Nat
          /\ blockedExclusive \in Seq(Threads) /\ blockedShared \in Seq(Threads)
      BY <1>1, <3>2, Zenon
    <3> QED
      BY <3>1, <3>3 DEF WaitTypes
  <2>2. \A kinds : Listed(kinds) = {} /\ Waiting(kinds) = {}
    BY <1>3 DEF Listed, Waiting
  <2>3. NoDuplicates(<< >>)
    BY DEF NoDuplicates
  <2>4. WaitersListed
    BY <1>1, <2>2, <2>3, EmptyHasNone DEF WaitersListed
  <2>5. WaitersSized
    BY <1>1, <2>2, SizeOfNothing DEF WaitersSized
  <2> QED
    BY <2>1, <2>4, <2>5 DEF WaitersKept
<1>5. WaitersHaveRoom
  BY <1>3 DEF WaitersHaveRoom
<1>6. SignalOnItsWay
  <2>1. Going = {}
    BY <1>3 DEF Going
  <2>2. Cardinality(Going) = 0
    BY <2>1, FS_EmptySet
  <2> QED
    BY <1>1, <2>2 DEF SignalOnItsWay
<1> QED
  BY <1>2, <1>4, <1>5, <1>6 DEF IInv

\* What leaves the owners alone, and what leaves the waiters alone.
LEMMA OwnersUntouched ==
  ASSUME OwnersRecorded, UNCHANGED <<exclusive, active, entries, holds>>
  PROVE  OwnersRecorded'
<1>1. UNCHANGED <<exclusive, active, owner0, owner1, table, holds>>
  BY DEF entries
<1>2. OwnerTypes' /\ EntriesFormed'
  BY <1>1 DEF OwnersRecorded, OwnerTypes, EntriesFormed
<1>3. \A o, n : Alone(o, n)' <=> Alone(o, n)
  BY <1>1 DEF Alone
<1>4. ExclusiveRecorded'
  BY <1>1 DEF OwnersRecorded, ExclusiveRecorded, Alone
<1>5. SharedRecorded'
  BY <1>1 DEF OwnersRecorded, SharedRecorded, Alone, Used, Tokens, HasSize
<1> QED
  BY <1>2, <1>4, <1>5 DEF OwnersRecorded

LEMMA WaitersUntouched ==
  ASSUME WaitersKept, UNCHANGED <<waiting, signals, pc, wants>>
  PROVE  WaitersKept' /\ Going' = Going
BY DEF WaitersKept, WaitTypes, WaitersListed, WaitersSized, Listed, Waiting, Going, HasSize,
       waiting, signals

\* Who takes the resource counts, and does not make an exclusive owner a shared one.
LEMMA TakenCounts ==
  ASSUME ResourceAssumption, OwnersRecorded, NEW t \in Threads, NEW kind \in Kinds, Take(t, kind)
  PROVE  /\ active' # 0 /\ holds' = [holds EXCEPT ![t] = @ + 1]
         /\ exclusive => exclusive'
         /\ kind # "Exclusive" => exclusive' = exclusive
<1>1. active \in Nat /\ (exclusive => active = 1)
  BY DEF OwnersRecorded, OwnerTypes, ExclusiveRecorded
<1>2. CASE OwnsExclusive(t)
  BY <1>1, <1>2 DEF Take, TakeAgain, Granted, OwnsExclusive
<1>3. ASSUME TakeShared(t) PROVE active' # 0
  BY <1>1, <1>3 DEF TakeShared, EiAddSharedOwner, AddToTable
<1>4. CASE ~OwnsExclusive(t) /\ TakeExclusive(t) /\ kind = "Exclusive"
  BY <1>4 DEF TakeExclusive, Granted
<1>5. CASE ~OwnsExclusive(t) /\ TakeShared(t) /\ kind # "Exclusive"
  BY <1>3, <1>5 DEF TakeShared, Granted
<1>6. CASE ~OwnsExclusive(t) /\ TakeStarving(t) /\ kind # "Exclusive"
  <2>1. CASE active # 0
    BY <1>3, <1>6, <2>1 DEF TakeStarving, TakeShared, Granted
  <2>2. CASE active = 0
    BY <1>6, <2>2 DEF TakeStarving, Granted
  <2> QED
    BY <2>1, <2>2
<1> QED
  BY <1>2, <1>4, <1>5, <1>6 DEF Take, Kinds

\* Acquisition, with or without a wait.
LEMMA AcquireKeeps ==
  ASSUME ResourceAssumption, Careful, IInv, NEW t \in Threads, NEW kind \in Kinds, NEW free \in BOOLEAN,
         Acquire(t, kind, free),
         kind = "Exclusive" => free = (active = 0),
         kind = "Shared" => free = (active = 0 \/ ~HeldOff),
         kind = "Starve" => /\ free = (~exclusive)
                            /\ OwnsExclusive(t) \/ (~exclusive /\ (active = 0 => table = << >>))
  PROVE  IInv'
<1>1. /\ OwnersRecorded /\ WaitersKept /\ WaitersHaveRoom /\ SignalOnItsWay
      /\ pc[t] = "Run" /\ holds[t] < MaxHolds
      /\ exclusive => active = 1
      /\ holds \in [Owners -> 0 .. MaxHolds] /\ Threads \subseteq Owners
  BY DEF IInv, Acquire, MayAcquire, OwnersRecorded, ExclusiveRecorded, OwnerTypes, Owners
<1>2. CASE OwnsExclusive(t) \/ free
  <2>1. Take(t, kind) /\ UNCHANGED <<waiting, signals, pc, wants>>
    BY <1>2 DEF Acquire
  <2>2. /\ OwnsExclusive(t) \/ ~exclusive
        /\ kind = "Exclusive" => OwnsExclusive(t) \/ active = 0
        /\ kind = "Starve" => OwnsExclusive(t) \/ (active = 0 => table = << >>)
    BY <1>1, <1>2 DEF HeldOff, Kinds
  <2>3. OwnersRecorded'
    BY <1>1, <2>1, <2>2, Taken
  <2>4. WaitersKept' /\ Going' = Going
    BY <1>1, <2>1, WaitersUntouched
  <2>5. /\ active' # 0 /\ holds' = [holds EXCEPT ![t] = @ + 1]
        /\ exclusive => exclusive'
    BY <1>1, <2>1, TakenCounts
  <2>6. WaitersHaveRoom'
    <3>1. \A u \in Threads : u # t => holds'[u] = holds[u]
      BY <1>1, <2>5
    <3> QED
      BY <1>1, <2>1, <3>1 DEF WaitersHaveRoom
  <2>7. SignalOnItsWay'
    <3>1. HeldOff => HeldOff'
      BY <2>1, <2>5 DEF HeldOff, waiting
    <3> QED
      BY <1>1, <2>1, <2>4, <2>5, <3>1 DEF SignalOnItsWay, signals
  <2> QED
    BY <2>3, <2>4, <2>6, <2>7 DEF IInv
<1>3. CASE ~(OwnsExclusive(t) \/ free)
  <2>1. BeginToWait(t, kind) /\ kind # "Starve" /\ active # 0 /\ (kind = "Shared" => HeldOff)
    BY <1>3 DEF Acquire, Kinds
  <2>2. UNCHANGED <<exclusive, active, entries, signals, holds>>
    BY <2>1 DEF BeginToWait
  <2>3. OwnersRecorded'
    BY <1>1, <2>2, OwnersUntouched
  <2>4. WaitersKept'
    BY <1>1, <2>1, WaitBegun
  <2>5. WaitersHaveRoom'
    <3>1. pc' = [pc EXCEPT ![t] = "Go"] /\ wants' = [wants EXCEPT ![t] = kind] /\ holds' = holds
      BY <2>1 DEF BeginToWait, Goto
    <3>2. wants \in [Threads -> Kinds] /\ pc \in [Threads -> {"Run", "Go", "Blocked", "Woken"}]
      BY <1>1 DEF WaitersKept, WaitTypes
    <3> QED
      BY <1>1, <2>1, <3>1, <3>2 DEF WaitersHaveRoom
  <2>6. SignalOnItsWay'
    <3>1. exclusiveWaiters \in Nat
      BY <1>1 DEF WaitersKept, WaitTypes
    <3>2. HeldOff'
      BY <2>1, <2>2, <3>1 DEF HeldOff, BeginToWait, Kinds
    <3> QED
      BY <2>1, <2>2, <3>2 DEF SignalOnItsWay
  <2> QED
    BY <2>3, <2>4, <2>5, <2>6 DEF IInv
<1> QED
  BY <1>2, <1>3

\* The wait.
LEMMA AwaitKeeps ==
  ASSUME ResourceAssumption, IInv, NEW t \in Threads, WaitForSignal(t)
  PROVE  IInv'
<1>1. /\ OwnersRecorded /\ WaitersKept /\ WaitersHaveRoom /\ SignalOnItsWay
      /\ pc[t] = "Go" /\ wants' = wants /\ holds' = holds
      /\ UNCHANGED <<exclusive, active, entries, holds>>
      /\ exclusiveWaiters' = exclusiveWaiters
      /\ pc \in [Threads -> {"Run", "Go", "Blocked", "Woken"}] /\ wants \in [Threads -> Kinds]
      /\ credit \in Nat /\ event \in BOOLEAN
  BY DEF IInv, WaitForSignal, WaitersKept, WaitTypes, waiting
<1>2. PICK where \in {"Blocked", "Woken"} : pc' = [pc EXCEPT ![t] = where]
  BY DEF WaitForSignal, Goto
<1>3. pc'[t] = where /\ \A u \in Threads : u # t => pc'[u] = pc[u]
  BY <1>1, <1>2
<1>4. OwnersRecorded'
  BY <1>1, OwnersUntouched
<1>5. WaitersKept'
  BY <1>1, SignalAwaited
<1>6. WaitersHaveRoom'
  BY <1>1, <1>3 DEF WaitersHaveRoom
<1>7. ASSUME active = 0 /\ exclusiveWaiters > 0
      PROVE  event' \/ \E u \in Threads : pc'[u] = "Woken" /\ wants'[u] = "Exclusive"
  <2>1. event \/ \E u \in Threads : pc[u] = "Woken" /\ wants[u] = "Exclusive"
    BY <1>1, <1>7 DEF SignalOnItsWay
  <2>2. CASE event /\ wants[t] = "Exclusive"
    <3>1. pc' = [pc EXCEPT ![t] = "Woken"]
      BY <2>2 DEF WaitForSignal, Goto
    <3> QED
      BY <1>1, <2>2, <3>1
  <2>3. CASE event /\ wants[t] # "Exclusive"
    BY <2>3 DEF WaitForSignal
  <2>4. CASE \E u \in Threads : pc[u] = "Woken" /\ wants[u] = "Exclusive"
    BY <1>1, <1>3, <2>4
  <2> QED
    BY <2>1, <2>2, <2>3, <2>4
<1>8. ASSUME ~HeldOff
      PROVE  blockedShared' = << >> /\ Cardinality(Going') <= credit'
  <2>1. blockedShared = << >> /\ Cardinality(Going) <= credit
    BY <1>1, <1>8 DEF SignalOnItsWay
  <2>2. CASE wants[t] = "Exclusive"
    <3>1. credit' = credit /\ blockedShared' = blockedShared
      BY <2>2 DEF WaitForSignal
    <3>2. Going' = Going
      BY <1>1, <1>3, <2>2 DEF Going, Sharing
    <3> QED
      BY <2>1, <3>1, <3>2
  <2>3. CASE wants[t] # "Exclusive"
    <3>1. t \in Going
      BY <1>1, <2>3 DEF Going, Sharing, Kinds
    <3>2. Going' = Going \ {t}
      BY <1>1, <1>3 DEF Going
    <3>3. HasSize(Going, Cardinality(Going))
      BY <1>1, SharersCounted DEF HasSize
    <3>4. Cardinality(Going) >= 1 /\ HasSize(Going \ {t}, Cardinality(Going) - 1) /\ Cardinality(Going) \in Nat
      BY <3>1, <3>3, SizeChanges, Zenon
    <3>5. credit > 0
      BY <1>1, <2>1, <3>4
    <3>6. credit' = credit - 1 /\ blockedShared' = blockedShared
      BY <2>3, <3>5 DEF WaitForSignal
    <3>7. Cardinality(Going') = Cardinality(Going) - 1
      BY <3>2, <3>4 DEF HasSize
    <3> QED
      BY <1>1, <2>1, <3>4, <3>6, <3>7
  <2> QED
    BY <2>2, <2>3
<1>9. SignalOnItsWay'
  BY <1>1, <1>7, <1>8 DEF SignalOnItsWay, HeldOff
<1> QED
  BY <1>4, <1>5, <1>6, <1>9 DEF IInv

\* After the wait.
LEMMA AfterWaitKeeps ==
  ASSUME ResourceAssumption, IInv, NEW t \in Threads, AfterWait(t)
  PROVE  IInv'
<1>1. /\ OwnersRecorded /\ WaitersKept /\ WaitersHaveRoom /\ SignalOnItsWay
      /\ pc[t] = "Woken" /\ wants' = wants
      /\ wants[t] \in {"Exclusive", "Shared"} /\ holds[t] < MaxHolds
      /\ event' = event /\ credit' = credit /\ blockedShared' = blockedShared
      /\ pc \in [Threads -> {"Run", "Go", "Blocked", "Woken"}] /\ wants \in [Threads -> Kinds]
      /\ holds \in [Owners -> 0 .. MaxHolds] /\ Threads \subseteq Owners
  BY DEF IInv, AfterWait, WaitersKept, WaitTypes, WaitersHaveRoom, Kinds, signals,
         OwnersRecorded, OwnerTypes, Owners
<1>2. WaitersKept'
  BY <1>1, WaitEnded
<1>3. CASE StillFree(wants[t])
  <2>1. pc' = [pc EXCEPT ![t] = "Run"]
    BY <1>3 DEF AfterWait, Goto
  <2>2. pc'[t] = "Run" /\ \A u \in Threads : u # t => pc'[u] = pc[u]
    BY <1>1, <2>1
  <2>3. CASE wants[t] = "Exclusive"
    <3>1. active = 0 /\ TakeExclusive(t)
      BY <1>3, <2>3 DEF StillFree, AfterWait
    <3>2. OwnersRecorded'
      BY <1>1, <3>1, ExclusiveTaken
    <3>3. exclusive' /\ active' = 1 /\ holds' = [holds EXCEPT ![t] = @ + 1]
      BY <3>1 DEF TakeExclusive, Granted
    <3>4. WaitersHaveRoom'
      BY <1>1, <2>2, <3>3 DEF WaitersHaveRoom
    <3>5. SignalOnItsWay'
      BY <3>3 DEF SignalOnItsWay, HeldOff
    <3> QED
      BY <1>2, <3>2, <3>4, <3>5 DEF IInv
  <2>4. CASE wants[t] = "Shared"
    <3>1. ~HeldOff /\ TakeShared(t) /\ exclusiveWaiters' = exclusiveWaiters
      BY <1>3, <2>4 DEF StillFree, AfterWait
    <3>2. OwnersRecorded'
      BY <1>1, <3>1, SharedTaken DEF HeldOff
    <3>3. active' # 0 /\ holds' = [holds EXCEPT ![t] = @ + 1] /\ exclusive' = exclusive
      <4>1. Take(t, "Shared") /\ "Shared" \in Kinds
        BY <3>1 DEF Take, Kinds, HeldOff, OwnsExclusive
      <4> QED
        BY <1>1, <4>1, TakenCounts
    <3>4. WaitersHaveRoom'
      BY <1>1, <2>2, <3>3 DEF WaitersHaveRoom
    <3>5. Going' = Going
      BY <1>1, <2>2 DEF Going
    <3>6. SignalOnItsWay'
      BY <1>1, <3>1, <3>3, <3>5 DEF SignalOnItsWay, HeldOff
    <3> QED
      BY <1>2, <3>2, <3>4, <3>6 DEF IInv
  <2> QED
    BY <1>1, <2>3, <2>4
<1>4. CASE ~StillFree(wants[t])
  <2>1. /\ pc' = [pc EXCEPT ![t] = "Go"] /\ exclusiveWaiters' = exclusiveWaiters
        /\ UNCHANGED <<exclusive, active, entries, holds>>
    BY <1>4 DEF AfterWait, Goto, waiting
  <2>2. pc'[t] = "Go" /\ \A u \in Threads : u # t => pc'[u] = pc[u]
    BY <1>1, <2>1
  <2>3. OwnersRecorded'
    BY <1>1, <2>1, OwnersUntouched
  <2>4. WaitersHaveRoom'
    BY <1>1, <2>1, <2>2 DEF WaitersHaveRoom
  <2>5. SignalOnItsWay'
    <3>1. CASE wants[t] = "Exclusive"
      <4>1. active # 0 /\ active' # 0
        BY <1>4, <2>1, <3>1 DEF StillFree
      <4>2. Going' = Going
        BY <1>1, <2>2, <3>1 DEF Going, Sharing
      <4> QED
        BY <1>1, <2>1, <4>1, <4>2 DEF SignalOnItsWay, HeldOff
    <3>2. CASE wants[t] = "Shared"
      <4>1. HeldOff /\ HeldOff'
        BY <1>4, <2>1, <3>2 DEF StillFree, HeldOff
      <4>2. ASSUME NEW u \in Threads, pc[u] = "Woken", wants[u] = "Exclusive"
            PROVE  pc'[u] = "Woken" /\ wants'[u] = "Exclusive"
        BY <1>1, <2>2, <3>2, <4>2
      <4> QED
        BY <1>1, <2>1, <4>1, <4>2 DEF SignalOnItsWay
    <3> QED
      BY <1>1, <3>1, <3>2
  <2> QED
    BY <1>2, <2>3, <2>4, <2>5 DEF IInv
<1> QED
  BY <1>3, <1>4

\* What a release or a conversion does to the waiters: nothing, while somebody is left
\* or nobody waits; else the event is set or the semaphore released.
LEMMA Waked ==
  ASSUME ResourceAssumption, WaitersKept, SignalOnItsWay, UNCHANGED <<waiting, wants>>,
         \/ exclusiveWaiters > 0 /\ SetEvent
         \/ exclusiveWaiters = 0 /\ sharedWaiters > 0 /\ ReleaseSemaphore
         \/ exclusiveWaiters = 0 /\ sharedWaiters = 0 /\ NoSignal
  PROVE  /\ WaitersKept' /\ SignalOnItsWay'
         /\ \A t \in Threads : pc'[t] = "Run" <=> pc[t] = "Run"
<1>1. exclusiveWaiters' = exclusiveWaiters /\ wants' = wants /\ exclusiveWaiters \in Nat
  BY DEF waiting, WaitersKept, WaitTypes
<1>2. CASE exclusiveWaiters > 0 /\ SetEvent
  BY <1>1, <1>2, EventSet DEF SignalOnItsWay, HeldOff
<1>3. CASE exclusiveWaiters = 0 /\ ReleaseSemaphore
  BY <1>1, <1>3, SemaphoreReleased DEF SignalOnItsWay
<1>4. CASE exclusiveWaiters = 0 /\ sharedWaiters = 0 /\ NoSignal
  <2>1. UNCHANGED <<waiting, signals, pc, wants>>
    BY <1>4 DEF NoSignal
  <2>2. WaitersKept' /\ Going' = Going
    BY <2>1, WaitersUntouched
  <2>3. blockedShared = << >> /\ Cardinality(Going) = 0
    BY <1>4, NoSharers
  <2>4. credit \in Nat
    BY DEF WaitersKept, WaitTypes
  <2> QED
    BY <1>1, <1>4, <2>1, <2>2, <2>3, <2>4 DEF SignalOnItsWay, signals
<1> QED
  BY <1>2, <1>3, <1>4

LEMMA ReleaseKeeps ==
  ASSUME ResourceAssumption, IInv, NEW o \in Owners, ExReleaseResourceForThreadLite(o)
  PROVE  IInv'
<1>1. /\ OwnersRecorded /\ WaitersKept /\ WaitersHaveRoom /\ SignalOnItsWay
      /\ holds[o] > 0 /\ (o \in Threads => pc[o] = "Run")
      /\ holds' = [holds EXCEPT ![o] = @ - 1]
      /\ UNCHANGED <<waiting, wants>> /\ exclusiveWaiters' = exclusiveWaiters /\ wants' = wants
      /\ holds \in [Owners -> 0 .. MaxHolds] /\ Threads \subseteq Owners
  BY DEF IInv, ExReleaseResourceForThreadLite, OwnersRecorded, OwnerTypes, Owners, waiting
<1>2. OwnersRecorded'
  BY <1>1, ExclusiveReleased, SharedReleased DEF ExReleaseResourceForThreadLite
<1>3. ASSUME \A t \in Threads : pc'[t] = "Run" <=> pc[t] = "Run"
      PROVE  WaitersHaveRoom'
  BY <1>1, <1>3 DEF WaitersHaveRoom
<1>4. ASSUME NoSignal, exclusive' = exclusive, active' # 0 \/ active' = active \/ ~(exclusiveWaiters > 0)
      PROVE  WaitersKept' /\ SignalOnItsWay' /\ \A t \in Threads : pc'[t] = "Run" <=> pc[t] = "Run"
  <2>1. UNCHANGED <<waiting, signals, pc, wants>>
    BY <1>1, <1>4 DEF NoSignal
  <2>2. WaitersKept' /\ Going' = Going
    BY <1>1, <2>1, WaitersUntouched
  <2> QED
    BY <1>1, <1>4, <2>1, <2>2 DEF SignalOnItsWay, HeldOff, signals
<1>5. CASE ReleaseExclusive
  <2>1. CASE owner0.count > 1
    BY <1>2, <1>3, <1>4, <1>5, <2>1 DEF ReleaseExclusive, IInv
  <2>2. CASE ~(owner0.count > 1)
    <3>1. WakeNext
      BY <1>5, <2>2 DEF ReleaseExclusive
    <3>2. WaitersKept' /\ SignalOnItsWay' /\ \A t \in Threads : pc'[t] = "Run" <=> pc[t] = "Run"
      BY <1>1, <3>1, Waked DEF WakeNext
    <3> QED
      BY <1>2, <1>3, <3>2 DEF IInv
  <2> QED
    BY <2>1, <2>2
<1>6. CASE ReleaseShared(o)
  <2>1. WakeAfterShared /\ exclusive' = exclusive
    BY <1>6 DEF ReleaseShared
  <2>2. CASE active' = 0 /\ exclusiveWaiters > 0
    <3>1. SetEvent
      BY <2>1, <2>2 DEF WakeAfterShared
    <3>2. WaitersKept' /\ SignalOnItsWay' /\ \A t \in Threads : pc'[t] = "Run" <=> pc[t] = "Run"
      BY <1>1, <2>2, <3>1, Waked
    <3> QED
      BY <1>2, <1>3, <3>2 DEF IInv
  <2>3. CASE ~(active' = 0 /\ exclusiveWaiters > 0)
    <3>1. NoSignal
      BY <2>1, <2>3 DEF WakeAfterShared
    <3> QED
      BY <1>2, <1>3, <1>4, <2>1, <2>3, <3>1 DEF IInv
  <2> QED
    BY <2>2, <2>3
<1> QED
  BY <1>5, <1>6 DEF ExReleaseResourceForThreadLite

LEMMA ConvertKeeps ==
  ASSUME ResourceAssumption, Careful, IInv, NEW t \in Threads, ExConvertExclusiveToSharedLite(t)
  PROVE  IInv'
<1>1. /\ OwnersRecorded /\ WaitersKept /\ WaitersHaveRoom /\ SignalOnItsWay
      /\ UNCHANGED <<waiting, wants>> /\ holds' = holds /\ active' = active /\ active = 1
      /\ exclusiveWaiters' = exclusiveWaiters /\ sharedWaiters \in Nat /\ credit \in Nat
  BY DEF IInv, ExConvertExclusiveToSharedLite, OwnersRecorded, ExclusiveRecorded, OwnsExclusive,
         WaitersKept, WaitTypes, waiting
<1>2. OwnersRecorded'
  BY <1>1, Converted
<1>3. /\ WaitersKept' /\ \A u \in Threads : pc'[u] = "Run" <=> pc[u] = "Run"
      /\ blockedShared' = << >> /\ Cardinality(Going') <= credit'
  <2>1. CASE sharedWaiters > 0
    BY <1>1, <2>1, SemaphoreReleased DEF ExConvertExclusiveToSharedLite
  <2>2. CASE ~(sharedWaiters > 0)
    <3>1. UNCHANGED <<waiting, signals, pc, wants>> /\ sharedWaiters = 0
      BY <1>1, <2>2 DEF ExConvertExclusiveToSharedLite, NoSignal
    <3>2. WaitersKept' /\ Going' = Going
      BY <1>1, <3>1, WaitersUntouched
    <3>3. blockedShared = << >> /\ Cardinality(Going) = 0
      BY <1>1, <3>1, NoSharers
    <3> QED
      BY <1>1, <3>1, <3>2, <3>3 DEF signals
  <2> QED
    BY <2>1, <2>2
<1>4. WaitersHaveRoom' /\ SignalOnItsWay'
  BY <1>1, <1>3 DEF WaitersHaveRoom, SignalOnItsWay
<1> QED
  BY <1>2, <1>3, <1>4 DEF IInv

LEMMA HandOverKeeps ==
  ASSUME ResourceAssumption, Careful, IInv, NEW t \in Threads, NEW p \in Pointers,
         ExSetResourceOwnerPointer(t, p)
  PROVE  IInv'
<1>1. /\ OwnersRecorded /\ WaitersKept /\ WaitersHaveRoom /\ SignalOnItsWay
      /\ UNCHANGED <<waiting, signals, pc, wants>> /\ pc[t] = "Run"
      /\ exclusive' = exclusive /\ active' = active
      /\ holds' = [holds EXCEPT ![t] = 0, ![p] = holds[t]] /\ p \notin Threads
      /\ holds \in [Owners -> 0 .. MaxHolds] /\ Threads \subseteq Owners
  BY DEF IInv, ExSetResourceOwnerPointer, OwnersRecorded, OwnerTypes, Owners, ResourceAssumption
<1>2. OwnersRecorded'
  BY <1>1, HandedOver
<1>3. WaitersKept' /\ Going' = Going
  BY <1>1, WaitersUntouched
<1>4. WaitersHaveRoom'
  <2>1. \A u \in Threads : u # t => holds'[u] = holds[u]
    BY <1>1
  <2> QED
    BY <1>1, <2>1 DEF WaitersHaveRoom
<1>5. SignalOnItsWay'
  BY <1>1, <1>3 DEF SignalOnItsWay, HeldOff, signals, waiting
<1> QED
  BY <1>2, <1>3, <1>4, <1>5 DEF IInv

LEMMA NextIInv == ResourceAssumption /\ Careful /\ IInv /\ [Next]_vars => IInv'
<1> SUFFICES ASSUME ResourceAssumption, Careful, IInv, [Next]_vars PROVE IInv'
  OBVIOUS
<1>1. /\ "Exclusive" \in Kinds /\ "Shared" \in Kinds /\ "Starve" \in Kinds
      /\ exclusive \in BOOLEAN
  BY DEF Kinds, IInv, OwnersRecorded, OwnerTypes
<1>2. ASSUME NEW t \in Threads, ExAcquireResourceExclusiveLite(t) PROVE IInv'
  BY <1>1, <1>2, AcquireKeeps DEF ExAcquireResourceExclusiveLite
<1>3. ASSUME NEW t \in Threads, ExAcquireResourceSharedLite(t) PROVE IInv'
  BY <1>1, <1>3, AcquireKeeps DEF ExAcquireResourceSharedLite
<1>4. ASSUME NEW t \in Threads, ExAcquireSharedStarveExclusive(t) PROVE IInv'
  <2>1. OwnsExclusive(t) \/ (~exclusive /\ (active = 0 => table = << >>))
    BY <1>4 DEF ExAcquireSharedStarveExclusive, Careful, ResourceAssumption
  <2>2. Acquire(t, "Starve", ~exclusive)
    BY <1>4 DEF ExAcquireSharedStarveExclusive
  <2> QED
    BY <1>1, <2>1, <2>2, AcquireKeeps
<1>5. CASE UNCHANGED vars
  <2>1. /\ UNCHANGED <<exclusive, active, entries, holds>>
        /\ UNCHANGED <<waiting, signals, pc, wants>>
    BY <1>5 DEF vars
  <2>2. OwnersRecorded' /\ WaitersKept' /\ Going' = Going
    BY <2>1, OwnersUntouched, WaitersUntouched DEF IInv
  <2>3. WaitersHaveRoom' /\ SignalOnItsWay'
    BY <2>1, <2>2 DEF IInv, WaitersHaveRoom, SignalOnItsWay, HeldOff, waiting, signals
  <2> QED
    BY <2>2, <2>3 DEF IInv
<1>6. CASE Next
  BY <1>2, <1>3, <1>4, <1>6, AwaitKeeps, AfterWaitKeeps, ConvertKeeps, HandOverKeeps, ReleaseKeeps
  DEF Next
<1> QED
  BY <1>5, <1>6

\* What the invariant says is what the module promises.
LEMMA HandedOnFollows == ResourceAssumption /\ IInv => ResourcesHandedOn
<1> SUFFICES ASSUME ResourceAssumption, IInv PROVE ResourcesHandedOn
  OBVIOUS
<1>1. /\ OwnersRecorded /\ WaitersKept /\ WaitersHaveRoom /\ SignalOnItsWay
      /\ OwnerTypes /\ WaitTypes /\ WaitersListed /\ WaitersSized
  BY DEF IInv, OwnersRecorded, WaitersKept
<1>2. ASSUME NEW kinds, NEW n, HasSize(Waiting(kinds), n)
      PROVE  n = Cardinality(Waiting(kinds)) /\ n \in 0 .. Cardinality(Threads)
  <2>1. IsFiniteSet(Threads) /\ Waiting(kinds) \in SUBSET Threads
    BY DEF ResourceAssumption, Waiting
  <2>2. Cardinality(Waiting(kinds)) <= Cardinality(Threads)
    BY <2>1, FS_Subset, Zenon
  <2>3. Cardinality(Threads) \in Nat
    BY <2>1, FS_CardinalityType, Zenon
  <2>4. n \in Nat
    BY <1>2, SizeChanges, Zenon
  <2> QED
    BY <1>2, <2>2, <2>3, <2>4 DEF HasSize
<1>3. /\ exclusiveWaiters = Cardinality(Waiting({"Exclusive"}))
      /\ sharedWaiters = Cardinality(Waiting(Sharing))
      /\ exclusiveWaiters \in 0 .. Cardinality(Threads) /\ sharedWaiters \in 0 .. Cardinality(Threads)
  BY <1>1, <1>2 DEF WaitersSized
<1>4. TypeOK
  BY <1>1, <1>3 DEF TypeOK, OwnerTypes, WaitTypes
<1>5. ExclusiveIsAlone
  BY <1>1 DEF ExclusiveIsAlone, OwnersRecorded, ExclusiveRecorded, Alone
<1>6. FreeWhenReleased
  BY <1>1, CountOfNone
<1>7. WaitersCounted
  BY <1>1, <1>3 DEF WaitersCounted, WaitersSized, Sharing
<1>8. ASSUME blockedExclusive # << >>, active = 0
      PROVE  \E t \in Threads : pc[t] = "Woken" /\ wants[t] = "Exclusive"
  <2>1. Head(blockedExclusive) \in Members(blockedExclusive)
    BY <1>1, <1>8, HeadIsMember DEF WaitTypes
  <2>2. Waiting({"Exclusive"}) # {}
    BY <1>1, <2>1 DEF WaitersListed, Listed, Waiting
  <2>3. exclusiveWaiters > 0
    BY <1>1, <2>2, SizeOfNothing DEF WaitersSized, WaitTypes
  <2> QED
    BY <1>1, <1>8, <2>3 DEF SignalOnItsWay, WaitersSized
<1>9. NobodyStranded
  BY <1>1, <1>7, <1>8 DEF NobodyStranded, SignalOnItsWay
<1> QED
  BY <1>4, <1>5, <1>6, <1>9 DEF ResourcesHandedOn

\* For any threads and pointers, and any number of acquisitions: an exclusive owner is alone,
\* the resource is free when all have released it, the waiters are counted, and none is left
\* behind by a release or by whoever came before the one that was woken.
THEOREM HandedOn == ResourceAssumption /\ Careful => (Spec => []ResourcesHandedOn)
<1> SUFFICES ASSUME ResourceAssumption, Careful PROVE Spec => []ResourcesHandedOn
  OBVIOUS
<1>1. Init => IInv
  BY InitIInv
<1>2. IInv /\ [Next]_vars => IInv'
  BY NextIInv
<1>3. IInv => ResourcesHandedOn
  BY HandedOnFollows
<1> QED
  BY <1>1, <1>2, <1>3, PTL DEF Spec
===============================================================================
