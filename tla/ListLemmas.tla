------------------------------ MODULE ListLemmas ------------------------------
(***************************************************************************)
(* What the list operations of Lists, and those of Sequences that stand for  *)
(* list operations, do to the entries of a list without duplicates.           *)
(***************************************************************************)
EXTENDS Lists, SequenceTheorems, FiniteSetTheorems, WellFoundedInduction, TLAPS

\* RemoveEntryList takes exactly its entry out of the list.
LEMMA UnlinkRemoves ==
  ASSUME NEW S, NEW list \in Seq(S), NEW t, NoDuplicates(list)
  PROVE  /\ Unlink(list, t) \in Seq(S)
         /\ NoDuplicates(Unlink(list, t))
         /\ Members(Unlink(list, t)) = Members(list) \ {t}
<1>1. CASE t \notin Members(list)
  BY <1>1 DEF Unlink
<1>2. CASE t \in Members(list)
  <2> DEFINE at == CHOOSE i \in DOMAIN list : list[i] = t
             short == [i \in 1 .. Len(list) - 1 |-> IF i < at THEN list[i] ELSE list[i + 1]]
  <2>1. DOMAIN list = 1 .. Len(list) /\ Len(list) \in Nat
    OBVIOUS
  <2>2. at \in 1 .. Len(list) /\ list[at] = t
    BY <1>2, <2>1 DEF Members
  <2>3. Unlink(list, t) = short
    BY <1>2 DEF Unlink
  <2> HIDE DEF at
  <2>4. Len(list) - 1 \in Nat /\ DOMAIN short = 1 .. Len(list) - 1
    BY <2>1, <2>2
  <2>5. \A i \in 1 .. Len(list) - 1 : short[i] \in S
    BY <2>1, <2>2, <2>4
  <2>6. short \in Seq(S)
    BY <2>4, <2>5
  <2>7. NoDuplicates(short)
    BY <2>1, <2>2, <2>4 DEF NoDuplicates
  <2>8. Members(short) \subseteq Members(list) \ {t}
    BY <2>1, <2>2, <2>4 DEF NoDuplicates, Members
  <2>9. ASSUME NEW i \in DOMAIN list, list[i] # t PROVE list[i] \in Members(short)
    <3>1. CASE i < at
      <4>1. i \in DOMAIN short /\ short[i] = list[i]
        BY <2>1, <2>2, <2>4, <2>9, <3>1
      <4> QED
        BY <4>1 DEF Members
    <3>2. CASE i > at
      <4>1. i - 1 \in DOMAIN short /\ short[i - 1] = list[i]
        BY <2>1, <2>2, <2>4, <2>9, <3>2
      <4> QED
        BY <4>1 DEF Members
    <3> QED
      BY <2>1, <2>2, <2>9, <3>1, <3>2
  <2>10. Members(short) = Members(list) \ {t}
    BY <2>8, <2>9 DEF Members
  <2> HIDE DEF short
  <2> QED
    BY <2>3, <2>6, <2>7, <2>10
<1> QED
  BY <1>1, <1>2

\* InsertTailList adds its entry.
LEMMA AppendAdds ==
  ASSUME NEW S, NEW list \in Seq(S), NEW t \in S, NoDuplicates(list), t \notin Members(list)
  PROVE  /\ Append(list, t) \in Seq(S)
         /\ NoDuplicates(Append(list, t))
         /\ Members(Append(list, t)) = Members(list) \union {t}
<1>1. /\ Append(list, t) \in Seq(S)
      /\ Len(Append(list, t)) = Len(list) + 1 /\ Len(list) \in Nat
      /\ DOMAIN list = 1 .. Len(list)
      /\ DOMAIN Append(list, t) = 1 .. Len(list) + 1
      /\ \A i \in 1 .. Len(list) : Append(list, t)[i] = list[i]
      /\ Append(list, t)[Len(list) + 1] = t
  BY AppendProperties
<1>2. NoDuplicates(Append(list, t))
  BY <1>1 DEF NoDuplicates, Members
<1>3. Members(Append(list, t)) = Members(list) \union {t}
  <2>1. Members(Append(list, t)) \subseteq Members(list) \union {t}
    BY <1>1 DEF Members
  <2>2. \A i \in DOMAIN list : list[i] \in Members(Append(list, t))
    <3> TAKE i \in DOMAIN list
    <3>1. i \in DOMAIN Append(list, t) /\ Append(list, t)[i] = list[i]
      BY <1>1
    <3> QED
      BY <3>1 DEF Members
  <2>3. t \in Members(Append(list, t))
    <3>1. Len(list) + 1 \in DOMAIN Append(list, t)
      BY <1>1
    <3> QED
      BY <1>1, <3>1 DEF Members
  <2> QED
    BY <2>1, <2>2, <2>3 DEF Members
<1> QED
  BY <1>1, <1>2, <1>3

LEMMA EmptyHasNone == Members(<< >>) = {}
BY DEF Members

\* The first entry of a list that is not empty.
LEMMA HeadIsMember ==
  ASSUME NEW S, NEW list \in Seq(S), list # << >>
  PROVE  Head(list) \in S /\ Head(list) \in Members(list)
<1>1. Len(list) \in Nat \ {0} /\ DOMAIN list = 1 .. Len(list) /\ Head(list) = list[1]
  BY EmptySeq
<1> QED
  BY <1>1 DEF Members

\* RemoveHeadList takes exactly the first entry out of the list.
LEMMA TailDrops ==
  ASSUME NEW S, NEW list \in Seq(S), list # << >>, NoDuplicates(list)
  PROVE  /\ Tail(list) \in Seq(S)
         /\ NoDuplicates(Tail(list))
         /\ Members(Tail(list)) = Members(list) \ {Head(list)}
<1>1. /\ Len(list) \in Nat \ {0} /\ DOMAIN list = 1 .. Len(list) /\ Head(list) = list[1]
      /\ Tail(list) \in Seq(S) /\ Len(Tail(list)) = Len(list) - 1
      /\ DOMAIN Tail(list) = 1 .. Len(list) - 1
      /\ \A i \in 1 .. Len(list) - 1 : Tail(list)[i] = list[i + 1]
  BY HeadTailProperties, EmptySeq
<1>2. NoDuplicates(Tail(list))
  BY <1>1 DEF NoDuplicates
<1>3. Members(Tail(list)) \subseteq Members(list) \ {Head(list)}
  BY <1>1 DEF Members, NoDuplicates
<1>4. ASSUME NEW i \in DOMAIN list, list[i] # Head(list)
      PROVE  list[i] \in Members(Tail(list))
  <2>1. i - 1 \in DOMAIN Tail(list) /\ Tail(list)[i - 1] = list[i]
    BY <1>1, <1>4
  <2> QED
    BY <2>1 DEF Members
<1> QED
  BY <1>1, <1>2, <1>3, <1>4 DEF Members

\* RemoveTailList takes exactly the last entry out of the list.
LEMMA FrontDrops ==
  ASSUME NEW S, NEW list \in Seq(S), list # << >>, NoDuplicates(list)
  PROVE  LET front == SubSeq(list, 1, Len(list) - 1)
             last == list[Len(list)]
         IN  /\ front \in Seq(S) /\ NoDuplicates(front)
             /\ last \in S /\ last \in Members(list)
             /\ Members(front) = Members(list) \ {last}
<1> DEFINE front == SubSeq(list, 1, Len(list) - 1)
<1>1. /\ Len(list) \in Nat \ {0} /\ DOMAIN list = 1 .. Len(list)
      /\ \A i \in 1 .. Len(list) : list[i] \in S
  BY EmptySeq
<1>2. /\ front \in Seq(S) /\ Len(front) = Len(list) - 1 /\ DOMAIN front = 1 .. Len(list) - 1
      /\ \A i \in 1 .. Len(list) - 1 : front[i] = list[i]
  BY <1>1, SubSeqProperties, LenProperties
<1> HIDE DEF front
<1>3. NoDuplicates(front)
  BY <1>1, <1>2 DEF NoDuplicates
<1>4. Members(front) \subseteq Members(list) \ {list[Len(list)]}
  BY <1>1, <1>2 DEF Members, NoDuplicates
<1>5. ASSUME NEW i \in DOMAIN list, list[i] # list[Len(list)]
      PROVE  list[i] \in Members(front)
  <2>1. i \in DOMAIN front /\ front[i] = list[i]
    BY <1>1, <1>2, <1>5
  <2> QED
    BY <2>1 DEF Members
<1>6. list[Len(list)] \in S /\ list[Len(list)] \in Members(list)
  BY <1>1 DEF Members
<1> QED
  BY <1>2, <1>3, <1>4, <1>5, <1>6 DEF Members, front

\* What is left behind the first m of l entries.
LEMMA LengthOfRest ==
  ASSUME NEW l \in Nat, NEW m \in 0 .. l
  PROVE  (IF m + 1 <= l THEN l - (m + 1) + 1 ELSE 0) = l - m
OBVIOUS

\* A list that is split behind the first n entries.
LEMMA SplitDivides ==
  ASSUME NEW S, NEW list \in Seq(S), NoDuplicates(list), NEW n \in 0 .. Len(list)
  PROVE  LET before == SubSeq(list, 1, n)
             behind == SubSeq(list, n + 1, Len(list))
         IN  /\ before \in Seq(S) /\ Len(before) = n
             /\ behind \in Seq(S) /\ Len(behind) = Len(list) - n
             /\ \A i \in 1 .. n : before[i] = list[i]
             /\ \A i \in 1 .. Len(list) - n : behind[i] = list[n + i]
             /\ NoDuplicates(before) /\ NoDuplicates(behind)
             /\ Members(list) = Members(before) \union Members(behind)
             /\ Members(before) \cap Members(behind) = {}
<1> DEFINE before == SubSeq(list, 1, n)
           behind == SubSeq(list, n + 1, Len(list))
<1>1. Len(list) \in Nat /\ DOMAIN list = 1 .. Len(list) /\ \A i \in 1 .. Len(list) : list[i] \in S
  OBVIOUS
<1>2. /\ before \in Seq(S) /\ Len(before) = n /\ DOMAIN before = 1 .. n
      /\ \A i \in 1 .. n : before[i] = list[i]
  BY <1>1, SubSeqProperties, LenProperties
<1>3. /\ behind \in Seq(S) /\ Len(behind) = Len(list) - n
      /\ DOMAIN behind = 1 .. Len(list) - n
      /\ \A i \in 1 .. Len(list) - n : behind[i] = list[n + i]
  <2>1. n + 1 \in Int /\ Len(list) \in Int /\ \A i \in n + 1 .. Len(list) : list[i] \in S
    BY <1>1
  <2>2. /\ behind \in Seq(S)
        /\ Len(behind) = IF n + 1 <= Len(list) THEN Len(list) - (n + 1) + 1 ELSE 0
        /\ \A i \in 1 .. Len(list) - (n + 1) + 1 : behind[i] = list[(n + 1) + i - 1]
    BY <2>1, SubSeqProperties
  <2> HIDE DEF behind
  <2>3. Len(behind) = Len(list) - n
    <3>1. Len(behind) = IF n + 1 <= Len(list) THEN Len(list) - (n + 1) + 1 ELSE 0
      BY <2>2, Zenon
    <3>2. Len(list) \in Nat
      BY <1>1, Zenon
    <3> QED
      BY <3>1, <3>2, LengthOfRest, Zenon
  <2>4. DOMAIN behind = 1 .. Len(list) - n
    BY <2>2, <2>3, LenProperties
  <2>5. ASSUME NEW i \in 1 .. Len(list) - n PROVE behind[i] = list[n + i]
    <3>1. i \in 1 .. Len(list) - (n + 1) + 1 /\ (n + 1) + i - 1 = n + i
      BY <1>1
    <3> QED
      BY <2>2, <3>1
  <2> QED
    BY <2>2, <2>3, <2>4, <2>5
<1> HIDE DEF before, behind
<1>4. \A i \in DOMAIN before : /\ i \in Nat /\ i <= n
                                /\ i \in DOMAIN list /\ before[i] = list[i]
  BY <1>1, <1>2
<1>5. \A i \in DOMAIN behind : /\ i \in Nat /\ n + i > n
                                /\ n + i \in DOMAIN list /\ behind[i] = list[n + i]
  BY <1>1, <1>3
<1>6. NoDuplicates(before)
  BY <1>4 DEF NoDuplicates
<1>7. NoDuplicates(behind)
  <2> SUFFICES ASSUME NEW i \in DOMAIN behind, NEW j \in DOMAIN behind, behind[i] = behind[j]
               PROVE  i = j
    BY DEF NoDuplicates
  <2>1. n + i = n + j
    BY <1>5 DEF NoDuplicates
  <2> QED
    BY <1>5, <2>1
<1>8. Members(before) \cap Members(behind) = {}
  <2> SUFFICES ASSUME NEW i \in DOMAIN before, NEW j \in DOMAIN behind, before[i] = behind[j]
               PROVE  FALSE
    BY DEF Members
  <2>1. i = n + j
    BY <1>4, <1>5 DEF NoDuplicates
  <2> QED
    BY <1>4, <1>5, <2>1
<1>9. Members(before) \subseteq Members(list) /\ Members(behind) \subseteq Members(list)
  BY <1>4, <1>5 DEF Members
<1>10. ASSUME NEW i \in DOMAIN list
       PROVE  list[i] \in Members(before) \union Members(behind)
  <2>1. CASE i <= n
    BY <1>1, <1>2, <2>1 DEF Members
  <2>2. CASE i > n
    <3>1. i - n \in DOMAIN behind /\ n + (i - n) = i
      BY <1>1, <1>3, <2>2
    <3>2. behind[i - n] = list[i]
      BY <1>5, <3>1
    <3> QED
      BY <3>1, <3>2 DEF Members
  <2> QED
    BY <1>1, <2>1, <2>2
<1>11. Members(list) = Members(before) \union Members(behind)
  BY <1>9, <1>10 DEF Members
<1> QED
  BY <1>2, <1>3, <1>6, <1>7, <1>8, <1>11 DEF before, behind

\* Two lists without common entries, one behind the other.
LEMMA ConcatJoins ==
  ASSUME NEW S, NEW a \in Seq(S), NEW b \in Seq(S),
         NoDuplicates(a), NoDuplicates(b), Members(a) \cap Members(b) = {}
  PROVE  /\ a \o b \in Seq(S)
         /\ NoDuplicates(a \o b)
         /\ Members(a \o b) = Members(a) \union Members(b)
<1>1. /\ Len(a) \in Nat /\ DOMAIN a = 1 .. Len(a)
      /\ Len(b) \in Nat /\ DOMAIN b = 1 .. Len(b)
  OBVIOUS
<1>2. /\ a \o b \in Seq(S) /\ DOMAIN (a \o b) = 1 .. Len(a) + Len(b)
      /\ \A i \in 1 .. Len(a) + Len(b) :
           (a \o b)[i] = IF i <= Len(a) THEN a[i] ELSE b[i - Len(a)]
  BY <1>1, ConcatProperties, LenProperties
<1> DEFINE c == a \o b
<1> HIDE DEF c
<1>3. /\ DOMAIN c = 1 .. Len(a) + Len(b)
      /\ \A i \in DOMAIN c : c[i] = IF i <= Len(a) THEN a[i] ELSE b[i - Len(a)]
  BY <1>2 DEF c
<1>4. ASSUME NEW i \in DOMAIN c
      PROVE  \/ i \in DOMAIN a /\ c[i] = a[i] /\ c[i] \in Members(a) /\ i <= Len(a)
             \/ i > Len(a) /\ i - Len(a) \in DOMAIN b /\ c[i] = b[i - Len(a)] /\ c[i] \in Members(b)
  BY <1>1, <1>3 DEF Members
<1>5. NoDuplicates(c)
  <2> SUFFICES ASSUME NEW i \in DOMAIN c, NEW j \in DOMAIN c, c[i] = c[j] PROVE i = j
    BY DEF NoDuplicates
  <2>1. i \in Int /\ j \in Int
    BY <1>1, <1>3
  <2>2. CASE i <= Len(a)
    <3>1. i \in DOMAIN a /\ c[i] = a[i] /\ c[i] \in Members(a)
      BY <1>1, <1>4, <2>1, <2>2
    <3>2. j \in DOMAIN a /\ c[j] = a[j]
      BY <1>4, <3>1
    <3> QED
      BY <3>1, <3>2 DEF NoDuplicates
  <2>3. CASE i > Len(a)
    <3>1. i - Len(a) \in DOMAIN b /\ c[i] = b[i - Len(a)] /\ c[i] \in Members(b)
      BY <1>1, <1>4, <2>1, <2>3
    <3>2. j - Len(a) \in DOMAIN b /\ c[j] = b[j - Len(a)]
      BY <1>4, <3>1
    <3>3. i - Len(a) = j - Len(a)
      BY <3>1, <3>2 DEF NoDuplicates
    <3> QED
      BY <1>1, <2>1, <3>3
  <2> QED
    BY <1>1, <2>1, <2>2, <2>3
<1>6. Members(c) \subseteq Members(a) \union Members(b)
  BY <1>4 DEF Members
<1>7. ASSUME NEW i \in DOMAIN a PROVE a[i] \in Members(c)
  <2>1. i \in DOMAIN c /\ c[i] = a[i]
    BY <1>1, <1>3, <1>7
  <2> QED
    BY <2>1 DEF Members
<1>8. ASSUME NEW i \in DOMAIN b PROVE b[i] \in Members(c)
  <2>1. i + Len(a) \in DOMAIN c /\ c[i + Len(a)] = b[i]
    BY <1>1, <1>3, <1>8
  <2> QED
    BY <2>1 DEF Members
<1>9. Members(a) \union Members(b) \subseteq Members(c)
  <2> HIDE DEF c
  <2>1. Members(a) \subseteq Members(c)
    BY <1>7, Zenon DEF Members
  <2>2. Members(b) \subseteq Members(c)
    BY <1>8, Zenon DEF Members
  <2> QED
    BY <2>1, <2>2
<1>10. Members(c) = Members(a) \union Members(b)
  BY <1>6, <1>9
<1> QED
  BY <1>2, <1>5, <1>10 DEF c

\* InsertHeadList adds its entry.
LEMMA PrependAdds ==
  ASSUME NEW S, NEW list \in Seq(S), NEW t \in S, NoDuplicates(list), t \notin Members(list)
  PROVE  /\ <<t>> \o list \in Seq(S)
         /\ NoDuplicates(<<t>> \o list)
         /\ Members(<<t>> \o list) = Members(list) \union {t}
<1> DEFINE one == <<t>>
<1>1. one \in Seq(S) /\ DOMAIN one = {1} /\ one[1] = t
  OBVIOUS
<1> HIDE DEF one
<1>2. Members(one) = {t} /\ NoDuplicates(one)
  BY <1>1 DEF Members, NoDuplicates
<1>3. Members(one) \cap Members(list) = {}
  BY <1>2
<1>4. one \o list \in Seq(S) /\ NoDuplicates(one \o list)
      /\ Members(one \o list) = Members(one) \union Members(list)
  BY <1>1, <1>2, <1>3, ConcatJoins
<1> QED
  BY <1>2, <1>4 DEF one

\* Linking an entry behind the first n adds it.
LEMMA InsertAdds ==
  ASSUME NEW S, NEW list \in Seq(S), NEW t \in S, NoDuplicates(list), t \notin Members(list),
         NEW n \in 0 .. Len(list)
  PROVE  /\ InsertAfter(list, n, t) \in Seq(S)
         /\ NoDuplicates(InsertAfter(list, n, t))
         /\ Members(InsertAfter(list, n, t)) = Members(list) \union {t}
<1> DEFINE before == SubSeq(list, 1, n)
           behind == SubSeq(list, n + 1, Len(list))
<1>1. /\ before \in Seq(S) /\ behind \in Seq(S)
      /\ NoDuplicates(before) /\ NoDuplicates(behind)
      /\ Members(list) = Members(before) \union Members(behind)
      /\ Members(before) \cap Members(behind) = {}
  BY SplitDivides
<1> HIDE DEF before, behind
<1> DEFINE upto == Append(before, t)
<1>2. t \notin Members(before) /\ t \notin Members(behind)
  BY <1>1
<1>3. upto \in Seq(S) /\ NoDuplicates(upto) /\ Members(upto) = Members(before) \union {t}
  BY <1>1, <1>2, AppendAdds
<1>4. before \o <<t>> = upto
  BY <1>1, AppendIsConcat
<1> HIDE DEF upto
<1>5. Members(upto) \cap Members(behind) = {}
  BY <1>1, <1>2, <1>3
<1>6. /\ upto \o behind \in Seq(S) /\ NoDuplicates(upto \o behind)
      /\ Members(upto \o behind) = Members(upto) \union Members(behind)
  BY <1>1, <1>3, <1>5, ConcatJoins
<1>7. Members(upto \o behind) = Members(list) \union {t}
  BY <1>1, <1>3, <1>6
<1>8. InsertAfter(list, n, t) = upto \o behind
  BY <1>4 DEF InsertAfter, before, behind
<1> QED
  BY <1>6, <1>7, <1>8

\* Where the entries of new are, if it is list with t linked behind the first n.
IsInserted(new, list, n, t) ==
  /\ DOMAIN new = 1 .. Len(list) + 1 /\ Len(new) = Len(list) + 1
  /\ \A i \in 1 .. n : new[i] = list[i]
  /\ new[n + 1] = t
  /\ \A i \in n + 2 .. Len(list) + 1 : new[i] = list[i - 1]

LEMMA InsertPlaces ==
  ASSUME NEW S, NEW list \in Seq(S), NEW t \in S, NEW n \in 0 .. Len(list)
  PROVE  InsertAfter(list, n, t) \in Seq(S) /\ IsInserted(InsertAfter(list, n, t), list, n, t)
<1> DEFINE before == SubSeq(list, 1, n)
           behind == SubSeq(list, n + 1, Len(list))
           upto == before \o <<t>>
           new == upto \o behind
<1>1. Len(list) \in Nat /\ \A i \in 1 .. Len(list) : list[i] \in S
  OBVIOUS
<1>2. /\ before \in Seq(S) /\ Len(before) = n
      /\ \A i \in 1 .. n : before[i] = list[i]
  BY <1>1, SubSeqProperties, LenProperties
<1>3. /\ behind \in Seq(S) /\ Len(behind) = Len(list) - n
      /\ \A i \in 1 .. Len(list) - n : behind[i] = list[n + i]
  <2>1. n + 1 \in Int /\ Len(list) \in Int /\ \A i \in n + 1 .. Len(list) : list[i] \in S
    BY <1>1
  <2>2. /\ behind \in Seq(S)
        /\ Len(behind) = IF n + 1 <= Len(list) THEN Len(list) - (n + 1) + 1 ELSE 0
        /\ \A i \in 1 .. Len(list) - (n + 1) + 1 : behind[i] = list[(n + 1) + i - 1]
    BY <2>1, SubSeqProperties
  <2> HIDE DEF behind
  <2>3. Len(behind) = Len(list) - n
    BY <1>1, <2>2
  <2>4. ASSUME NEW i \in 1 .. Len(list) - n PROVE behind[i] = list[n + i]
    <3>1. i \in 1 .. Len(list) - (n + 1) + 1 /\ (n + 1) + i - 1 = n + i
      BY <1>1
    <3> QED
      BY <2>2, <3>1
  <2> QED
    BY <2>2, <2>3, <2>4
<1> HIDE DEF before, behind
<1>4. /\ upto \in Seq(S) /\ Len(upto) = n + 1 /\ upto[n + 1] = t
      /\ \A i \in 1 .. n : upto[i] = list[i]
  <2> DEFINE one == <<t>>
  <2>1. one \in Seq(S) /\ Len(one) = 1 /\ one[1] = t
    OBVIOUS
  <2> HIDE DEF one
  <2>2. /\ before \o one \in Seq(S) /\ Len(before \o one) = n + 1
        /\ \A i \in 1 .. n + 1 : (before \o one)[i] = IF i <= n THEN before[i] ELSE one[i - n]
    BY <1>1, <1>2, <2>1, ConcatProperties, SMTT(30)
  <2>3. (before \o one)[n + 1] = t
    BY <2>1, <2>2
  <2> QED
    BY <1>2, <2>2, <2>3 DEF one
<1> HIDE DEF upto
<1>5. /\ new \in Seq(S) /\ Len(new) = Len(list) + 1
      /\ \A i \in 1 .. Len(list) + 1 : new[i] = IF i <= n + 1 THEN upto[i] ELSE behind[i - (n + 1)]
  <2>1. /\ new \in Seq(S) /\ Len(new) = Len(upto) + Len(behind)
        /\ \A i \in 1 .. Len(upto) + Len(behind) :
             new[i] = IF i <= Len(upto) THEN upto[i] ELSE behind[i - Len(upto)]
    BY <1>3, <1>4, ConcatProperties
  <2>2. Len(upto) + Len(behind) = Len(list) + 1
    BY <1>1, <1>3, <1>4
  <2> QED
    BY <1>4, <2>1, <2>2
<1> HIDE DEF new
<1>6. InsertAfter(list, n, t) = new
  BY DEF InsertAfter, new, upto, before, behind
<1>7. DOMAIN new = 1 .. Len(list) + 1
  BY <1>5, LenProperties
<1>8. \A i \in 1 .. n : new[i] = list[i]
  BY <1>1, <1>4, <1>5
<1>9. new[n + 1] = t
  BY <1>1, <1>4, <1>5
<1>10. ASSUME NEW i \in n + 2 .. Len(list) + 1 PROVE new[i] = list[i - 1]
  <2>1. /\ i \in 1 .. Len(list) + 1 /\ ~(i <= n + 1)
        /\ i - (n + 1) \in 1 .. Len(list) - n /\ n + (i - (n + 1)) = i - 1
    BY <1>1
  <2> QED
    BY <1>3, <1>5, <2>1
<1> QED
  BY <1>5, <1>6, <1>7, <1>8, <1>9, <1>10 DEF IsInserted

\* A list is no longer than the set its entries are from.
LEMMA ListFits ==
  ASSUME NEW S, IsFiniteSet(S), NEW list \in Seq(S), NoDuplicates(list)
  PROVE  Len(list) <= Cardinality(S)
<1>1. PICK n \in Nat : Len(list) = n /\ list \in [1 .. n -> S]
  OBVIOUS
<1>2. IsFiniteSet(1 .. n) /\ Cardinality(1 .. n) = n
  BY FS_Interval
<1>3. list \in Injection(1 .. n, S)
  BY <1>1 DEF NoDuplicates, Injection, IsInjective
<1>4. Cardinality(1 .. n) <= Cardinality(S)
  BY <1>2, <1>3, FS_Injection
<1> QED
  BY <1>1, <1>2, <1>4

\* How many entries at the front of a list have a property counts them.
LEMMA PrefixCount ==
  ASSUME NEW len \in Nat, NEW P \in SUBSET (1 .. len), \A i \in P : 1 .. i \subseteq P
  PROVE  Cardinality(P) \in 0 .. len /\ P = 1 .. Cardinality(P)
<1> DEFINE n == Cardinality(P)
<1>1. IsFiniteSet(1 .. len) /\ Cardinality(1 .. len) = len
  BY FS_Interval
<1>2. IsFiniteSet(P) /\ n <= len /\ n \in Nat
  <2>1. IsFiniteSet(P) /\ Cardinality(P) <= Cardinality(1 .. len)
    BY <1>1, FS_Subset, Zenon
  <2>2. Cardinality(P) \in Nat
    BY <2>1, FS_CardinalityType, Zenon
  <2> QED
    BY <1>1, <2>1, <2>2
<1>3. ASSUME NEW i \in P PROVE i \in 1 .. n
  <2>1. i \in Nat \ {0} /\ 1 .. i \in SUBSET P
    OBVIOUS
  <2>2. Cardinality(1 .. i) = i
    BY <2>1, FS_Interval
  <2>3. Cardinality(1 .. i) <= n
    BY <1>2, <2>1, FS_Subset
  <2> QED
    BY <1>2, <2>1, <2>2, <2>3
<1>4. IsFiniteSet(1 .. n) /\ Cardinality(1 .. n) = n
  BY <1>2, FS_Interval
<1>5. P \in SUBSET (1 .. n)
  BY <1>3
<1>6. 1 .. n = P
  BY <1>4, <1>5, FS_Subset
<1> QED
  BY <1>2, <1>6

\* A set of numbers that is not empty has a least one.
LEMMA LeastIsThere ==
  ASSUME NEW S \in SUBSET Nat, S # {}
  PROVE  \E i \in S : \A j \in S : i <= j
<1> DEFINE R == OpToRel(<, Nat)
<1>1. IsWellFoundedOn(R, Nat)
  BY NatLessThanWellFounded
<1>2. ASSUME NEW i \in Nat, NEW j \in Nat, <<j, i>> \notin R PROVE i <= j
  BY <1>2 DEF OpToRel
<1> HIDE DEF R
<1>3. PICK i \in S : \A j \in S : ~(<<j, i>> \in R)
  BY <1>1, WFMin, Zenon
<1> QED
  BY <1>2, <1>3
-------------------------------------------------------------------------------
(* Lists in order. *)

\* The keys of the entries do not fall along the list.
SortedBy(list, key) == \A i, j \in DOMAIN list : i < j => key[list[i]] <= key[list[j]]

LEMMA UnlinkKeepsOrder ==
  ASSUME NEW S, NEW list \in Seq(S), NEW key, NEW t, SortedBy(list, key)
  PROVE  SortedBy(Unlink(list, t), key)
<1>1. CASE t \notin Members(list)
  BY <1>1 DEF Unlink
<1>2. CASE t \in Members(list)
  <2> DEFINE at == CHOOSE i \in DOMAIN list : list[i] = t
             short == [i \in 1 .. Len(list) - 1 |-> IF i < at THEN list[i] ELSE list[i + 1]]
  <2>1. DOMAIN list = 1 .. Len(list) /\ Len(list) \in Nat
    OBVIOUS
  <2>2. at \in 1 .. Len(list)
    BY <1>2, <2>1 DEF Members
  <2>3. Unlink(list, t) = short
    BY <1>2 DEF Unlink
  <2> HIDE DEF at
  <2>4. DOMAIN short = 1 .. Len(list) - 1
    OBVIOUS
  <2> SUFFICES ASSUME NEW i \in 1 .. Len(list) - 1, NEW j \in 1 .. Len(list) - 1, i < j
               PROVE  key[short[i]] <= key[short[j]]
    BY <2>3, <2>4 DEF SortedBy
  <2>5. /\ i \in DOMAIN list /\ i + 1 \in DOMAIN list /\ j \in DOMAIN list /\ j + 1 \in DOMAIN list
        /\ i < j + 1 /\ i + 1 < j + 1 /\ (j < at => i < at)
    <3>1. i \in Int /\ j \in Int /\ at \in Int
      BY <2>1, <2>2
    <3>2. /\ i \in 1 .. Len(list) /\ i + 1 \in 1 .. Len(list)
          /\ j \in 1 .. Len(list) /\ j + 1 \in 1 .. Len(list)
      BY <2>1
    <3> QED
      BY <2>1, <3>1, <3>2
  <2>6. /\ short[i] = IF i < at THEN list[i] ELSE list[i + 1]
        /\ short[j] = IF j < at THEN list[j] ELSE list[j + 1]
    OBVIOUS
  <2> HIDE DEF short
  <2> QED
    BY <2>5, <2>6 DEF SortedBy
<1> QED
  BY <1>1, <1>2

\* Both parts of a list that is split are in order.
LEMMA SplitKeepsOrder ==
  ASSUME NEW S, NEW list \in Seq(S), NEW key, SortedBy(list, key), NEW n \in 0 .. Len(list)
  PROVE  SortedBy(SubSeq(list, 1, n), key) /\ SortedBy(SubSeq(list, n + 1, Len(list)), key)
<1>1. Len(list) \in Nat /\ DOMAIN list = 1 .. Len(list)
  OBVIOUS
<1>2. ASSUME NEW i \in DOMAIN SubSeq(list, 1, n)
      PROVE  i \in 1 .. n /\ i \in DOMAIN list /\ SubSeq(list, 1, n)[i] = list[i]
  BY <1>1, <1>2, SubSeqProperties, LenProperties
<1>3. ASSUME NEW i \in DOMAIN SubSeq(list, n + 1, Len(list))
      PROVE  i \in Nat /\ n + i \in DOMAIN list /\ SubSeq(list, n + 1, Len(list))[i] = list[n + i]
  <2> DEFINE behind == SubSeq(list, n + 1, Len(list))
  <2>1. /\ behind \in Seq(S)
        /\ Len(behind) = IF n + 1 <= Len(list) THEN Len(list) - (n + 1) + 1 ELSE 0
        /\ \A k \in 1 .. Len(list) - (n + 1) + 1 : behind[k] = list[(n + 1) + k - 1]
    <3>1. n + 1 \in Int /\ Len(list) \in Int /\ \A k \in n + 1 .. Len(list) : list[k] \in S
      BY <1>1
    <3> QED
      BY <3>1, SubSeqProperties
  <2>2. i \in 1 .. Len(behind)
    BY <1>3, <2>1, LenProperties
  <2> HIDE DEF behind
  <2>3. Len(behind) = Len(list) - n
    <3>1. Len(behind) = IF n + 1 <= Len(list) THEN Len(list) - (n + 1) + 1 ELSE 0
      BY <2>1, Zenon
    <3>2. Len(list) \in Nat
      BY <1>1, Zenon
    <3> QED
      BY <3>1, <3>2, LengthOfRest, Zenon
  <2>4. i \in 1 .. Len(list) - n
    BY <2>2, <2>3
  <2>5. i \in 1 .. Len(list) - (n + 1) + 1 /\ (n + 1) + i - 1 = n + i /\ n + i \in 1 .. Len(list)
    BY <1>1, <2>4
  <2> QED
    BY <1>1, <2>1, <2>5 DEF behind
<1>4. SortedBy(SubSeq(list, 1, n), key)
  BY <1>2 DEF SortedBy
<1>5. SortedBy(SubSeq(list, n + 1, Len(list)), key)
  <2> SUFFICES ASSUME NEW i \in DOMAIN SubSeq(list, n + 1, Len(list)),
                      NEW j \in DOMAIN SubSeq(list, n + 1, Len(list)), i < j
               PROVE  key[SubSeq(list, n + 1, Len(list))[i]] <= key[SubSeq(list, n + 1, Len(list))[j]]
    BY DEF SortedBy
  <2>1. n + i < n + j
    BY <1>3
  <2> QED
    BY <1>3, <2>1 DEF SortedBy
<1> QED
  BY <1>4, <1>5

\* An entry linked behind keys up to its own, and before those from its own on.
LEMMA InsertKeepsOrder ==
  ASSUME NEW S, NEW list \in Seq(S), NEW key \in [S -> Int], SortedBy(list, key),
         NEW t \in S, t \notin Members(list), NEW d \in Int, NEW n \in 0 .. Len(list),
         \A i \in 1 .. n : key[list[i]] <= d,
         n < Len(list) => d <= key[list[n + 1]]
  PROVE  SortedBy(InsertAfter(list, n, t), [key EXCEPT ![t] = d])
<1>1. Len(list) \in Nat /\ DOMAIN list = 1 .. Len(list)
  OBVIOUS
<1> DEFINE new == InsertAfter(list, n, t)
<1> HIDE DEF new
<1>2. /\ DOMAIN new = 1 .. Len(list) + 1
      /\ \A i \in 1 .. n : new[i] = list[i]
      /\ new[n + 1] = t
      /\ \A i \in n + 2 .. Len(list) + 1 : new[i] = list[i - 1]
  <2>1. IsInserted(new, list, n, t)
    BY InsertPlaces, Zenon DEF new
  <2> QED
    BY <2>1 DEF IsInserted
<1> DEFINE k == [key EXCEPT ![t] = d]
<1> HIDE DEF k
<1>3. ASSUME NEW i \in DOMAIN list
      PROVE  list[i] \in S /\ k[list[i]] = key[list[i]] /\ key[list[i]] \in Int
  BY DEF Members, k
<1>4. k[t] = d
  BY DEF k
<1>5. ASSUME NEW i \in n + 1 .. Len(list) PROVE d <= key[list[i]]
  <2>1. n + 1 \in DOMAIN list /\ i \in DOMAIN list /\ (n + 1 < i \/ i = n + 1)
    BY <1>1
  <2>2. key[list[n + 1]] <= key[list[i]]
    BY <1>3, <2>1 DEF SortedBy
  <2> QED
    BY <1>1, <1>3, <2>1, <2>2
<1>6. ASSUME NEW i \in DOMAIN new, NEW j \in DOMAIN new, i < j
      PROVE  k[new[i]] <= k[new[j]]
  <2>1. i \in 1 .. Len(list) + 1 /\ j \in 1 .. Len(list) + 1
    BY <1>2
  <2>2. CASE j <= n
    <3>1. i \in 1 .. n /\ j \in 1 .. n /\ i \in DOMAIN list /\ j \in DOMAIN list
      BY <1>1, <1>6, <2>1, <2>2
    <3> QED
      BY <1>2, <1>3, <1>6, <3>1 DEF SortedBy
  <2>3. CASE j = n + 1
    <3>1. i \in 1 .. n /\ i \in DOMAIN list
      BY <1>1, <1>6, <2>1, <2>3
    <3> QED
      BY <1>2, <1>3, <1>4, <2>3, <3>1
  <2>4. CASE j > n + 1
    <3>1. j \in n + 2 .. Len(list) + 1 /\ j - 1 \in DOMAIN list /\ j - 1 \in n + 1 .. Len(list)
      BY <1>1, <2>1, <2>4
    <3>2. k[new[j]] = key[list[j - 1]]
      BY <1>2, <1>3, <3>1
    <3>3. CASE i <= n
      <4>1. i \in 1 .. n /\ i \in DOMAIN list /\ i < j - 1
        BY <1>1, <2>1, <2>4, <3>3
      <4> QED
        BY <1>2, <1>3, <3>1, <3>2, <4>1 DEF SortedBy
    <3>4. CASE i = n + 1
      BY <1>2, <1>4, <1>5, <3>1, <3>2, <3>4
    <3>5. CASE i > n + 1
      <4>1. i \in n + 2 .. Len(list) + 1 /\ i - 1 \in DOMAIN list /\ i - 1 < j - 1
        BY <1>1, <1>6, <2>1, <3>5
      <4> QED
        BY <1>2, <1>3, <3>1, <3>2, <4>1, SMTT(30) DEF SortedBy
    <3> QED
      BY <2>1, <3>3, <3>4, <3>5
  <2> QED
    BY <2>1, <2>2, <2>3, <2>4
<1> QED
  BY <1>2, <1>6 DEF SortedBy, k, new
===============================================================================
