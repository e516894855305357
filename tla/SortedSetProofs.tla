-------------------------- MODULE SortedSetProofs --------------------------
(***************************************************************************)
(* For any finite set of members and any integer scores: the two           *)
(* containers of a sorted set agree and its list is sorted.                *)
(***************************************************************************)
EXTENDS SortedSet, SequenceTheorems, FiniteSetTheorems, WellFoundedInduction, TLAPS

\* A leaf that names no prover is one for the SMT solver.
USE SMTT(60)

(* Linking an element at index i of a list, index by index.                *)
LEMMA InsertAtProperties ==
  ASSUME NEW S, NEW l \in Seq(S), NEW i \in 1 .. Len(l) + 1, NEW e \in S
  PROVE  /\ InsertAt(l, i, e) \in Seq(S)
         /\ Len(InsertAt(l, i, e)) = Len(l) + 1
         /\ \A k \in 1 .. Len(l) + 1 :
              InsertAt(l, i, e)[k] = IF k < i THEN l[k] ELSE IF k = i THEN e ELSE l[k - 1]
<1>1. Len(l) \in Nat /\ i \in Int
  BY LenProperties
<1>2. /\ SubSeq(l, 1, i - 1) \in Seq(S)
      /\ Len(SubSeq(l, 1, i - 1)) = i - 1
      /\ \A k \in 1 .. i - 1 : SubSeq(l, 1, i - 1)[k] = l[k]
  <2>1. \A k \in 1 .. i - 1 : l[k] \in S
    BY <1>1, ElementOfSeq
  <2>. QED  BY <1>1, <2>1, SubSeqProperties, Z3T(60)
<1>3. /\ SubSeq(l, i, Len(l)) \in Seq(S)
      /\ Len(SubSeq(l, i, Len(l))) = Len(l) - i + 1
      /\ \A k \in 1 .. Len(l) - i + 1 : SubSeq(l, i, Len(l))[k] = l[i + k - 1]
  <2>1. \A k \in i .. Len(l) : l[k] \in S
    BY <1>1, ElementOfSeq
  <2>. QED  BY <1>1, <2>1, SubSeqProperties, Z3T(60)
<1>4. <<e>> \in Seq(S) /\ Len(<<e>>) = 1 /\ <<e>>[1] = e
  OBVIOUS
<1>. DEFINE p == SubSeq(l, 1, i - 1) \o <<e>>
<1>5. /\ p \in Seq(S)
      /\ Len(p) = i
      /\ \A k \in 1 .. i : p[k] = IF k < i THEN l[k] ELSE e
  BY <1>1, <1>2, <1>4, ConcatProperties, Z3T(60)
<1>6. InsertAt(l, i, e) = p \o SubSeq(l, i, Len(l))
  BY DEF InsertAt
<1>. HIDE DEF p
<1>. QED  BY <1>1, <1>3, <1>5, <1>6, ConcatProperties, Z3T(60)

(* Unlinking the element at index i of a list, index by index.             *)
LEMMA RemoveAtProperties ==
  ASSUME NEW S, NEW l \in Seq(S), NEW i \in 1 .. Len(l)
  PROVE  /\ RemoveAt(l, i) \in Seq(S)
         /\ Len(RemoveAt(l, i)) = Len(l) - 1
         /\ \A k \in 1 .. Len(l) - 1 :
              RemoveAt(l, i)[k] = IF k < i THEN l[k] ELSE l[k + 1]
<1>. DEFINE p == SubSeq(l, 1, i - 1)
            q == SubSeq(l, i + 1, Len(l))
<1>1. Len(l) \in Nat /\ i \in Int
  BY LenProperties
<1>2. p \in Seq(S) /\ Len(p) = i - 1 /\ \A k \in 1 .. i - 1 : p[k] = l[k]
  <2>1. \A k \in 1 .. i - 1 : l[k] \in S
    BY <1>1, ElementOfSeq
  <2>. QED  BY <1>1, <2>1, SubSeqProperties, Z3T(60)
<1>3. q \in Seq(S) /\ Len(q) = Len(l) - i /\ \A k \in 1 .. Len(l) - i : q[k] = l[i + k]
  <2>1. \A k \in i + 1 .. Len(l) : l[k] \in S
    BY <1>1, ElementOfSeq
  <2>. QED  BY <1>1, <2>1, SubSeqProperties, Z3T(60)
<1>4. RemoveAt(l, i) = p \o q
  BY DEF RemoveAt
<1>. HIDE DEF p, q
<1>5. /\ p \o q \in Seq(S)
      /\ Len(p \o q) = Len(p) + Len(q)
      /\ \A k \in 1 .. Len(p) + Len(q) : (p \o q)[k] = IF k <= Len(p) THEN p[k] ELSE q[k - Len(p)]
  BY <1>2, <1>3, ConcatProperties, ZenonT(60)
<1>6. ASSUME NEW k \in 1 .. Len(l) - 1
      PROVE  (p \o q)[k] = IF k < i THEN l[k] ELSE l[k + 1]
  <2>1. CASE k < i
    BY <1>1, <1>2, <1>3, <1>5, <2>1
  <2>2. CASE ~(k < i)
    <3>. DEFINE j == k - (i - 1)
    <3>1. j \in 1 .. Len(l) - i /\ i + j = k + 1
      BY <1>1, <2>2
    <3>2. (p \o q)[k] = q[j]
      BY <1>1, <1>2, <1>3, <1>5, <2>2
    <3>. HIDE DEF j
    <3>. QED  BY <1>3, <2>2, <3>1, <3>2
  <2>. QED  BY <2>1, <2>2, ZenonT(60)
<1>7. Len(p) + Len(q) = Len(l) - 1
  BY <1>1, <1>2, <1>3
<1>. QED  BY <1>4, <1>5, <1>6, <1>7, ZenonT(60)

(* A non-empty set of naturals has a least element.                        *)
LEMMA LeastNatural ==
  ASSUME NEW T \in SUBSET Nat, T # {}
  PROVE  \E x \in T : \A y \in T : x <= y
<1>1. PICK x \in T : \A y \in T : ~ (<<y, x>> \in OpToRel(<, Nat))
  BY NatLessThanWellFounded, WFMin, ZenonT(60)
<1>2. \A y \in T : ~ (y < x)
  BY <1>1, ZenonT(60) DEF OpToRel
<1>. QED  BY <1>2

-----------------------------------------------------------------------------
(* The scan of insert_ordered always finds its place.                      *)
LEMMA FirstAboveProperties ==
  ASSUME NEW S, NEW l \in Seq(S), NEW sc, NEW s \in Int,
         \A i \in 1 .. Len(l) : sc[l[i]] \in Int
  PROVE  /\ FirstAbove(l, sc, s) \in 1 .. Len(l) + 1
         /\ \A j \in 1 .. FirstAbove(l, sc, s) - 1 : sc[l[j]] <= s
         /\ FirstAbove(l, sc, s) <= Len(l) => sc[l[FirstAbove(l, sc, s)]] > s
<1>. DEFINE P(i) == /\ \A j \in 1 .. i - 1 : sc[l[j]] <= s
                    /\ i <= Len(l) => sc[l[i]] > s
            Above == {i \in 1 .. Len(l) : sc[l[i]] > s}
<1>1. Len(l) \in Nat
  BY LenProperties
<1>2. \E i \in 1 .. Len(l) + 1 : P(i)
  <2>1. CASE Above = {}
    <3>1. P(Len(l) + 1)
      BY <1>1, <2>1
    <3>. QED  BY <1>1, <3>1
  <2>2. CASE Above # {}
    <3>1. Above \in SUBSET Nat
      BY <1>1
    <3>2. PICK x \in Above : \A y \in Above : x <= y
      <4>. HIDE DEF Above
      <4>. QED  BY <2>2, <3>1, LeastNatural
    <3>3. P(x)
      BY <1>1, <3>2
    <3>4. x \in 1 .. Len(l) + 1
      BY <1>1
    <3>. QED  BY <3>3, <3>4
  <2>. QED  BY <2>1, <2>2
<1>3. FirstAbove(l, sc, s) = CHOOSE i \in 1 .. Len(l) + 1 : P(i)
  BY DEF FirstAbove
<1>. HIDE DEF P
<1>4. FirstAbove(l, sc, s) \in 1 .. Len(l) + 1 /\ P(FirstAbove(l, sc, s))
  BY <1>2, <1>3
<1>. QED  BY <1>4 DEF P

-----------------------------------------------------------------------------
Distinct(l) == \A i, j \in 1 .. Len(l) : l[i] = l[j] => i = j

Sorted(l, sc) == \A i, j \in 1 .. Len(l) : i < j => sc[l[i]] <= sc[l[j]]

(* insert_ordered links the entry once and keeps the list sorted.          *)
LEMMA InsertOrderedProperties ==
  ASSUME NEW S, NEW l \in Seq(S), NEW sc, NEW e \in S,
         e \notin ToSet(l), Distinct(l), Sorted(l, sc),
         sc[e] \in Int, \A i \in 1 .. Len(l) : sc[l[i]] \in Int
  PROVE  /\ insert_ordered(l, sc, e) \in Seq(S)
         /\ ToSet(insert_ordered(l, sc, e)) = ToSet(l) \cup {e}
         /\ Distinct(insert_ordered(l, sc, e))
         /\ Sorted(insert_ordered(l, sc, e), sc)
<1>. DEFINE p == FirstAbove(l, sc, sc[e])
            r == InsertAt(l, p, e)
<1>1. Len(l) \in Nat /\ DOMAIN l = 1 .. Len(l)
  BY LenProperties
<1>2. /\ p \in 1 .. Len(l) + 1
      /\ \A j \in 1 .. p - 1 : sc[l[j]] <= sc[e]
      /\ p <= Len(l) => sc[l[p]] > sc[e]
  BY FirstAboveProperties
<1>3. \A j \in p .. Len(l) : sc[l[j]] > sc[e]
  BY <1>1, <1>2 DEF Sorted
<1>4. insert_ordered(l, sc, e) = r
  BY DEF insert_ordered
<1>. HIDE DEF p
<1>5. /\ r \in Seq(S) /\ Len(r) = Len(l) + 1
      /\ \A k \in 1 .. Len(l) + 1 :
           r[k] = IF k < p THEN l[k] ELSE IF k = p THEN e ELSE l[k - 1]
  BY <1>2, InsertAtProperties
<1>. HIDE DEF r
<1>6. DOMAIN r = 1 .. Len(l) + 1
  BY <1>5, LenProperties
<1>7. \A k \in 1 .. Len(l) : l[k] # e
  BY <1>1 DEF ToSet
<1>8. ToSet(r) = ToSet(l) \cup {e}
  <2>1. ASSUME NEW x \in ToSet(r)  PROVE x \in ToSet(l) \cup {e}
    <3>1. PICK k \in 1 .. Len(l) + 1 : x = r[k]
      BY <1>6 DEF ToSet
    <3>2. CASE k < p
      <4>1. k \in 1 .. Len(l) /\ x = l[k]
        BY <1>1, <1>2, <1>5, <3>1, <3>2
      <4>. QED  BY <1>1, <4>1 DEF ToSet
    <3>3. CASE k = p
      BY <1>2, <1>5, <3>1, <3>3
    <3>4. CASE k > p
      <4>1. k - 1 \in 1 .. Len(l) /\ x = l[k - 1]
        BY <1>1, <1>2, <1>5, <3>1, <3>4
      <4>. QED  BY <1>1, <4>1 DEF ToSet
    <3>. QED  BY <1>1, <1>2, <3>2, <3>3, <3>4
  <2>2. e \in ToSet(r)
    <3>1. p \in 1 .. Len(l) + 1 /\ r[p] = e
      BY <1>1, <1>2, <1>5
    <3>. QED  BY <1>6, <3>1 DEF ToSet
  <2>3. ASSUME NEW x \in ToSet(l)  PROVE x \in ToSet(r)
    <3>1. PICK k \in 1 .. Len(l) : x = l[k]
      BY <1>1 DEF ToSet
    <3>2. CASE k < p
      <4>1. k \in 1 .. Len(l) + 1 /\ x = r[k]
        BY <1>1, <1>2, <1>5, <3>1, <3>2
      <4>. QED  BY <1>6, <4>1 DEF ToSet
    <3>3. CASE k >= p
      <4>1. k + 1 \in 1 .. Len(l) + 1 /\ x = r[k + 1]
        BY <1>1, <1>2, <1>5, <3>1, <3>3
      <4>. QED  BY <1>6, <4>1 DEF ToSet
    <3>. QED  BY <1>1, <1>2, <3>2, <3>3
  <2>. QED  BY <2>1, <2>2, <2>3
<1>9. Distinct(r)
  BY <1>1, <1>2, <1>5, <1>7 DEF Distinct
<1>10. Sorted(r, sc)
  <2>. SUFFICES ASSUME NEW i \in 1 .. Len(l) + 1, NEW j \in 1 .. Len(l) + 1, i < j
                PROVE  sc[r[i]] <= sc[r[j]]
    BY <1>1, <1>5 DEF Sorted
  <2>1. CASE j < p
    BY <1>1, <1>2, <1>5, <2>1 DEF Sorted
  <2>5. CASE i > p
    <3>1. /\ i - 1 \in 1 .. Len(l) /\ r[i] = l[i - 1]
          /\ j - 1 \in 1 .. Len(l) /\ r[j] = l[j - 1] /\ i - 1 < j - 1
      BY <1>1, <1>2, <1>5, <2>5
    <3>. QED  BY <3>1 DEF Sorted
  <2>2. CASE i = p
    <3>1. r[i] = e /\ r[j] = l[j - 1] /\ j - 1 \in p .. Len(l) /\ j - 1 \in 1 .. Len(l)
      BY <1>1, <1>2, <1>5, <2>2
    <3>2. sc[l[j - 1]] > sc[e] /\ sc[l[j - 1]] \in Int
      BY <1>3, <3>1
    <3>. QED  BY <3>1, <3>2
  <2>3. CASE j = p
    <3>1. r[j] = e /\ r[i] = l[i] /\ i \in 1 .. p - 1
      BY <1>1, <1>2, <1>5, <2>3
    <3>. QED  BY <1>2, <3>1
  <2>4. CASE i < p /\ p < j
    <3>1. /\ i \in 1 .. p - 1 /\ r[i] = l[i]
          /\ j - 1 \in p .. Len(l) /\ r[j] = l[j - 1]
      BY <1>1, <1>2, <1>5, <2>4
    <3>2. sc[l[i]] <= sc[e] /\ sc[e] < sc[l[j - 1]]
      BY <1>1, <1>2, <1>3, <3>1
    <3>. QED  BY <1>1, <1>2, <3>1, <3>2
  <2>. QED  BY <1>1, <1>2, <2>1, <2>2, <2>3, <2>4, <2>5
<1>. QED  BY <1>4, <1>5, <1>8, <1>9, <1>10

(* Unlinking an entry takes it out of the list and nothing else.           *)
LEMMA UnlinkProperties ==
  ASSUME NEW S, NEW l \in Seq(S), NEW e, e \in ToSet(l), Distinct(l)
  PROVE  /\ Unlink(l, e) \in Seq(S)
         /\ ToSet(Unlink(l, e)) = ToSet(l) \ {e}
         /\ Distinct(Unlink(l, e))
         /\ \A sc : (\A i, j \in 1 .. Len(l) :
                       l[i] # e /\ l[j] # e /\ i < j => sc[l[i]] <= sc[l[j]])
                    => Sorted(Unlink(l, e), sc)
<1>. DEFINE p == CHOOSE i \in 1 .. Len(l) : l[i] = e
            r == Unlink(l, e)
<1>1. Len(l) \in Nat /\ DOMAIN l = 1 .. Len(l)
  BY LenProperties
<1>2. p \in 1 .. Len(l) /\ l[p] = e
  <2>1. \E i \in 1 .. Len(l) : l[i] = e
    BY <1>1 DEF ToSet
  <2>. QED  BY <2>1
<1>3. r = RemoveAt(l, p)
  BY DEF Unlink
<1>. HIDE DEF p, r
<1>4. /\ r \in Seq(S) /\ Len(r) = Len(l) - 1
      /\ \A k \in 1 .. Len(l) - 1 : r[k] = IF k < p THEN l[k] ELSE l[k + 1]
  BY <1>2, <1>3, RemoveAtProperties, ZenonT(60)
<1>5. DOMAIN r = 1 .. Len(l) - 1
  BY <1>4, LenProperties
<1>6. \A k \in 1 .. Len(l) : k # p => l[k] # e
  BY <1>2 DEF Distinct
<1>7. ToSet(r) = ToSet(l) \ {e}
  <2>1. ASSUME NEW x \in ToSet(r)  PROVE x \in ToSet(l) \ {e}
    <3>1. PICK k \in 1 .. Len(l) - 1 : x = r[k]
      BY <1>5 DEF ToSet
    <3>2. \E n \in 1 .. Len(l) : n # p /\ x = l[n]
      <4>1. CASE k < p
        BY <1>1, <1>2, <1>4, <3>1, <4>1
      <4>2. CASE k >= p
        <5>1. k + 1 \in 1 .. Len(l) /\ k + 1 # p /\ x = l[k + 1]
          BY <1>1, <1>2, <1>4, <3>1, <4>2
        <5>. QED  BY <5>1
      <4>. QED  BY <1>1, <1>2, <4>1, <4>2
    <3>. QED  BY <1>1, <1>6, <3>2 DEF ToSet
  <2>2. ASSUME NEW x \in ToSet(l) \ {e}  PROVE x \in ToSet(r)
    <3>1. PICK k \in 1 .. Len(l) : x = l[k] /\ k # p
      BY <1>1, <1>2 DEF ToSet
    <3>2. CASE k < p
      <4>1. k \in 1 .. Len(l) - 1 /\ x = r[k]
        BY <1>1, <1>2, <1>4, <3>1, <3>2
      <4>. QED  BY <1>5, <4>1 DEF ToSet
    <3>3. CASE k > p
      <4>1. k - 1 \in 1 .. Len(l) - 1 /\ x = r[k - 1]
        BY <1>1, <1>2, <1>4, <3>1, <3>3
      <4>. QED  BY <1>5, <4>1 DEF ToSet
    <3>. QED  BY <1>1, <1>2, <3>1, <3>2, <3>3
  <2>. QED  BY <2>1, <2>2
<1>8. Distinct(r)
  BY <1>1, <1>2, <1>4 DEF Distinct
<1>9. ASSUME NEW sc, \A i, j \in 1 .. Len(l) :
                       l[i] # e /\ l[j] # e /\ i < j => sc[l[i]] <= sc[l[j]]
      PROVE  Sorted(r, sc)
  <2>. SUFFICES ASSUME NEW i \in 1 .. Len(l) - 1, NEW j \in 1 .. Len(l) - 1, i < j
                PROVE  sc[r[i]] <= sc[r[j]]
    BY <1>1, <1>4 DEF Sorted
  <2>1. \E a, b \in 1 .. Len(l) : r[i] = l[a] /\ r[j] = l[b] /\ a < b /\ a # p /\ b # p
    <3>. DEFINE at(k) == IF k < p THEN k ELSE k + 1
    <3>1. /\ at(i) \in 1 .. Len(l) /\ at(j) \in 1 .. Len(l)
          /\ at(i) < at(j) /\ at(i) # p /\ at(j) # p
      BY <1>1, <1>2
    <3>2. r[i] = l[at(i)] /\ r[j] = l[at(j)]
      BY <1>1, <1>4
    <3>. QED  BY <3>1, <3>2
  <2>. QED  BY <1>6, <1>9, <2>1
<1>. QED  BY <1>4, <1>7, <1>8, <1>9 DEF r

-----------------------------------------------------------------------------
(* The inductive invariant.                                                *)
IInv == TypeOK /\ DictListAgree /\ ListSorted /\ FetchedStillLinked /\ ReplyCountsChange

LEMMA EmptyIsSeq == <<>> \in Seq(Members) /\ Len(<<>>) = 0 /\ ToSet(<<>>) = {}
  BY DEF ToSet

LEMMA InitIInv == Init => IInv
<1>. SUFFICES ASSUME Init PROVE IInv
  OBVIOUS
<1>1. TypeOK
  BY EmptyIsSeq, ZenonT(60) DEF Init, TypeOK, Idle, NoScores, Adding, Removing
<1>2. DictListAgree /\ ListSorted
  BY EmptyIsSeq DEF Init, DictListAgree, ListSorted, NoScores
<1>3. FetchedStillLinked /\ ReplyCountsChange
  BY DEF Init, FetchedStillLinked, ReplyCountsChange, Idle, Removing
<1>. QED  BY <1>1, <1>2, <1>3 DEF IInv

(* The state of the two containers alone.                                  *)
Linked(d, l, sc) ==
  /\ d \in SUBSET Members
  /\ l \in Seq(Members)
  /\ DOMAIN sc = d
  /\ \A m \in d : sc[m] \in Scores
  /\ ToSet(l) = d
  /\ Distinct(l)
  /\ Sorted(l, sc)

LEMMA IInvLinked ==
  TypeOK /\ DictListAgree /\ ListSorted <=>
     /\ Linked(dict, list, score)
     /\ found \in BOOLEAN
     /\ cmd \in [op : {"idle"} \cup Adding \cup Removing, todo : SUBSET Members,
               args : MemberScores \cup {NoScores}, n : Nat, size : Nat]
     /\ cmd.op \in Adding => cmd.args \in MemberScores /\ cmd.todo \subseteq DOMAIN cmd.args
  BY DEF TypeOK, DictListAgree, ListSorted, Linked, Distinct, Sorted

LEMMA LinkedScores ==
  ASSUME NEW d, NEW l, NEW sc, Linked(d, l, sc)
  PROVE  \A i \in 1 .. Len(l) : l[i] \in d /\ sc[l[i]] \in Int
<1>1. DOMAIN l = 1 .. Len(l)
  BY LenProperties DEF Linked
<1>2. \A i \in 1 .. Len(l) : l[i] \in d
  BY <1>1 DEF Linked, ToSet
<1>. QED  BY <1>2, SortedSetAssumption, ZenonT(60) DEF Linked

LEMMA InsertLinked ==
  ASSUME Linked(dict, list, score), NEW e \in Members, e \notin dict, NEW s \in Scores,
         insert(e, s)
  PROVE  Linked(dict', list', score') /\ dict' = dict \cup {e}
<1>1. /\ DOMAIN score' = dict \cup {e} /\ score'[e] = s
      /\ \A m \in dict : score'[m] = score[m]
  BY DEF insert, Linked
<1>2. \A i \in 1 .. Len(list) : list[i] \in dict /\ score'[list[i]] = score[list[i]] /\ score[list[i]] \in Int
  BY <1>1, LinkedScores
<1>3. Sorted(list, score')
  BY <1>2 DEF Linked, Sorted
<1>4. score'[e] \in Int
  BY <1>1, SortedSetAssumption
<1>5. /\ list' \in Seq(Members) /\ ToSet(list') = ToSet(list) \cup {e}
      /\ Distinct(list') /\ Sorted(list', score')
  <2>1. list' = insert_ordered(list, score', e)
    BY DEF insert
  <2>2. list \in Seq(Members) /\ e \notin ToSet(list) /\ Distinct(list)
    BY DEF Linked
  <2>. QED  BY <1>2, <1>3, <1>4, <2>1, <2>2, InsertOrderedProperties
<1>. QED  BY <1>1, <1>5, ZenonT(60) DEF Linked, insert

LEMMA UpdateLinked ==
  ASSUME Linked(dict, list, score), NEW e \in dict, NEW s \in Scores, update(e, s)
  PROVE  Linked(dict', list', score') /\ dict' = dict
<1>. DEFINE l == Unlink(list, e)
<1>1. /\ DOMAIN score' = dict /\ score'[e] = s
      /\ \A m \in dict : m # e => score'[m] = score[m]
  BY DEF update, Linked
<1>2. \A i \in 1 .. Len(list) : list[i] \in dict /\ (list[i] # e => score'[list[i]] = score[list[i]])
  BY <1>1, LinkedScores
<1>3. \A i, j \in 1 .. Len(list) : list[i] # e /\ list[j] # e /\ i < j
                                     => score'[list[i]] <= score'[list[j]]
  BY <1>2 DEF Linked, Sorted
<1>4. l \in Seq(Members) /\ ToSet(l) = dict \ {e} /\ Distinct(l) /\ Sorted(l, score')
  <2>1. list \in Seq(Members) /\ e \in ToSet(list) /\ Distinct(list) /\ ToSet(list) = dict
    BY DEF Linked
  <2>. QED  BY <1>3, <2>1, UnlinkProperties
<1>5. list' = insert_ordered(l, score', e) /\ dict' = dict
  BY DEF update
<1>. HIDE DEF l
<1>6. \A i \in 1 .. Len(l) : score'[l[i]] \in Int
  <2>1. DOMAIN l = 1 .. Len(l)
    BY <1>4, LenProperties
  <2>2. \A i \in 1 .. Len(l) : l[i] \in dict \ {e}
    BY <1>4, <2>1 DEF ToSet
  <2>. QED  BY <1>1, <2>2, SortedSetAssumption, ZenonT(60) DEF Linked
<1>7. e \in Members /\ score'[e] \in Int /\ e \notin ToSet(l)
  BY <1>1, <1>4, SortedSetAssumption DEF Linked
<1>8. /\ list' \in Seq(Members) /\ ToSet(list') = ToSet(l) \cup {e}
      /\ Distinct(list') /\ Sorted(list', score')
  BY <1>4, <1>5, <1>6, <1>7, InsertOrderedProperties
<1>. QED  BY <1>1, <1>4, <1>5, <1>8 DEF Linked

LEMMA EraseLinked ==
  ASSUME Linked(dict, list, score), NEW e \in dict, erase(e)
  PROVE  Linked(dict', list', score') /\ dict' = dict \ {e}
<1>1. /\ dict' = dict \ {e} /\ DOMAIN score' = dict \ {e}
      /\ \A m \in dict \ {e} : score'[m] = score[m]
  BY DEF erase, Linked, Restrict
<1>2. \A i \in 1 .. Len(list) : list[i] \in dict
  BY LinkedScores
<1>3. \A i, j \in 1 .. Len(list) : list[i] # e /\ list[j] # e /\ i < j
                                     => score'[list[i]] <= score'[list[j]]
  BY <1>1, <1>2 DEF Linked, Sorted
<1>4. list' = Unlink(list, e)
  BY DEF erase
<1>5. list \in Seq(Members) /\ e \in ToSet(list) /\ Distinct(list) /\ ToSet(list) = dict
  BY DEF Linked
<1>6. list' \in Seq(Members) /\ ToSet(list') = dict \ {e} /\ Distinct(list') /\ Sorted(list', score')
  BY <1>3, <1>4, <1>5, UnlinkProperties
<1>. QED  BY <1>1, <1>6 DEF Linked

-----------------------------------------------------------------------------
(* The range scans collect entries that are linked.                        *)
LEMMA FetchedAreLinked ==
  ASSUME Linked(dict, list, score), NEW a \in Int, NEW b \in Int
  PROVE  fetch_by_score(a, b) \subseteq dict /\ fetch_by_rank(a, b) \subseteq dict
<1>1. Len(list) \in Nat
  BY LenProperties DEF Linked
<1>2. \A i \in 1 .. Len(list) : list[i] \in dict /\ score[list[i]] \in Int
  BY LinkedScores
<1>3. fetch_by_score(a, b) \subseteq dict
  <2>. DEFINE p == FirstAbove(list, score, b)
  <2>1. p \in 1 .. Len(list) + 1
    BY <1>2, FirstAboveProperties DEF Linked
  <2>. HIDE DEF p
  <2>2. \A i \in 1 .. p - 1 : list[i] \in dict
    BY <1>1, <1>2, <2>1
  <2>. QED  BY <2>2 DEF fetch_by_score, p
<1>4. fetch_by_rank(a, b) \subseteq dict
  <2>1. \A r \in 0 .. Len(list) - 1 : list[r + 1] \in dict
    BY <1>1, <1>2
  <2>. QED  BY <2>1 DEF fetch_by_rank
<1>. QED  BY <1>3, <1>4

(* The range test and the early exit of fetch_by_score lose nothing, since *)
(* the list is sorted.                                                     *)
LEMMA FetchByScore ==
  ASSUME Linked(dict, list, score), NEW min \in Int, NEW max \in Int
  PROVE  fetch_by_score(min, max) = {m \in dict : min <= score[m] /\ score[m] <= max}
<1>. DEFINE p == FirstAbove(list, score, max)
            R == {m \in dict : min <= score[m] /\ score[m] <= max}
<1>1. Len(list) \in Nat /\ DOMAIN list = 1 .. Len(list)
  BY LenProperties DEF Linked
<1>2. \A i \in 1 .. Len(list) : list[i] \in dict /\ score[list[i]] \in Int
  BY LinkedScores
<1>3. /\ p \in 1 .. Len(list) + 1
      /\ \A j \in 1 .. p - 1 : score[list[j]] <= max
      /\ p <= Len(list) => score[list[p]] > max
  BY <1>2, FirstAboveProperties DEF Linked
<1>4. \A m \in dict : \E i \in 1 .. Len(list) : m = list[i]
  BY <1>1 DEF Linked, ToSet
<1>. HIDE DEF p
<1>5. ASSUME NEW i \in 1 .. Len(list), score[list[i]] <= max  PROVE i <= p - 1
  <2>1. CASE i = p
    BY <1>2, <1>3, <1>5, <2>1
  <2>2. CASE i > p
    <3>1. p \in 1 .. Len(list) /\ score[list[p]] > max
      BY <1>1, <1>3, <2>2
    <3>2. score[list[p]] <= score[list[i]]
      BY <2>2, <3>1 DEF Linked, Sorted
    <3>. QED  BY <1>2, <1>5, <3>1, <3>2
  <2>. QED  BY <1>1, <1>3, <2>1, <2>2
<1>6. CASE list = <<>>
  BY <1>1, <1>4, <1>6 DEF fetch_by_score
<1>7. CASE list # <<>> /\ score_out_of_range(min, max)
  <2>1. Len(list) \in 1 .. Len(list) /\ 1 \in 1 .. Len(list)
    BY <1>1, <1>7, EmptySeq DEF Linked
  <2>2. \A i \in 1 .. Len(list) : score[list[1]] <= score[list[i]] /\ score[list[i]] <= score[list[Len(list)]]
    BY <1>1, <1>2, <2>1 DEF Linked, Sorted
  <2>3. \A i \in 1 .. Len(list) : ~(min <= score[list[i]] /\ score[list[i]] <= max)
    BY <1>2, <1>7, <2>1, <2>2 DEF score_out_of_range
  <2>. QED  BY <1>4, <1>7, <2>3 DEF fetch_by_score
<1>8. CASE list # <<>> /\ ~score_out_of_range(min, max)
  <2>1. fetch_by_score(min, max) = {list[i] : i \in {k \in 1 .. p - 1 : score[list[k]] >= min}}
    BY <1>8 DEF fetch_by_score, p
  <2>2. \A i \in 1 .. p - 1 : i \in 1 .. Len(list)
    BY <1>1, <1>3
  <2>3. ASSUME NEW i \in 1 .. p - 1, score[list[i]] >= min  PROVE list[i] \in R
    BY <1>2, <1>3, <2>2, <2>3
  <2>4. ASSUME NEW m \in R
        PROVE  \E i \in 1 .. p - 1 : score[list[i]] >= min /\ m = list[i]
    <3>1. PICK i \in 1 .. Len(list) : m = list[i]
      BY <1>4
    <3>2. i \in 1 .. p - 1
      BY <1>1, <1>3, <1>5, <3>1
    <3>. QED  BY <1>2, <3>1, <3>2
  <2>. QED  BY <2>1, <2>3, <2>4
<1>. QED  BY <1>6, <1>7, <1>8

-----------------------------------------------------------------------------
Cmds == [op : {"idle"} \cup Adding \cup Removing, todo : SUBSET Members,
         args : MemberScores \cup {NoScores}, n : Nat, size : Nat]

CmdOK == /\ cmd \in Cmds
         /\ cmd.op \in Adding => cmd.args \in MemberScores /\ cmd.todo \subseteq DOMAIN cmd.args

LEMMA IInvParts ==
  IInv <=> /\ Linked(dict, list, score)
           /\ found \in BOOLEAN
           /\ CmdOK
           /\ FetchedStillLinked
           /\ ReplyCountsChange
  BY IInvLinked DEF IInv, CmdOK, Cmds

LEMMA IInvPartsNext ==
  ASSUME Linked(dict', list', score'), found' \in BOOLEAN, CmdOK',
         FetchedStillLinked', ReplyCountsChange'
  PROVE  IInv'
<1>1. TypeOK'
  BY DEF TypeOK, Linked, CmdOK, Cmds
<1>2. DictListAgree' /\ ListSorted'
  BY DEF DictListAgree, ListSorted, Linked, Distinct, Sorted
<1>. QED  BY <1>1, <1>2 DEF IInv

LEMMA SizeType ==
  ASSUME NEW d \in SUBSET Members
  PROVE  IsFiniteSet(d) /\ Cardinality(d) \in Nat
  BY SortedSetAssumption, FS_Subset, FS_CardinalityType

(* A command starts with the right count of what it has done: nothing.     *)
LEMMA BeginOK ==
  ASSUME IInv, Keep, found' \in BOOLEAN,
         NEW op \in Adding \cup Removing, NEW todo \in SUBSET Members, NEW args,
         op \in Adding => args \in MemberScores /\ todo \subseteq DOMAIN args,
         op \in Removing => args = NoScores,
         op = "erase_entries" => todo \subseteq dict,
         Begin(op, todo, args)
  PROVE  IInv'
<1>1. Cardinality(dict) \in Nat
  BY IInvParts, SizeType DEF Linked
<1>2. dict' = dict /\ list' = list /\ score' = score
  BY DEF Keep
<1>3. cmd' = [op |-> op, todo |-> todo, args |-> args, n |-> 0, size |-> Cardinality(dict)]
  BY DEF Begin
<1>4. Linked(dict', list', score')
  BY <1>2, IInvParts
<1>5. CmdOK'
  BY <1>1, <1>3 DEF CmdOK, Cmds, Adding, Removing
<1>6. FetchedStillLinked'
  BY <1>2, <1>3 DEF FetchedStillLinked
<1>7. ReplyCountsChange'
  BY <1>1, <1>2, <1>3 DEF ReplyCountsChange
<1>. QED  BY <1>4, <1>5, <1>6, <1>7, IInvPartsNext

(* What one turn of a loop does to the command record.                     *)
LEMMA TurnOK ==
  ASSUME CmdOK, NEW m \in cmd.todo, NEW k \in Nat, Turn(m, k)
  PROVE  /\ CmdOK'
         /\ cmd'.op = cmd.op /\ cmd'.todo = cmd.todo \ {m}
         /\ cmd'.n = cmd.n + k /\ cmd'.size = cmd.size
<1>1. cmd' = [cmd EXCEPT !.todo = cmd.todo \ {m}, !.n = cmd.n + k]
  BY DEF Turn
<1>2. cmd \in Cmds
  BY DEF CmdOK
<1>3. /\ cmd'.op = cmd.op /\ cmd'.todo = cmd.todo \ {m} /\ cmd'.args = cmd.args
      /\ cmd'.n = cmd.n + k /\ cmd'.size = cmd.size
  BY <1>1, <1>2 DEF Cmds
<1>4. cmd' \in Cmds
  <2>1. cmd.todo \ {m} \in SUBSET Members /\ cmd.n + k \in Nat
    BY <1>2 DEF Cmds
  <2>. QED  BY <1>1, <1>2, <2>1, ZenonT(60) DEF Cmds
<1>. QED  BY <1>3, <1>4 DEF CmdOK

LEMMA ArgsType ==
  ASSUME CmdOK, cmd.op \in Adding, NEW m \in cmd.todo
  PROVE  m \in Members /\ cmd.args[m] \in Scores
  BY DEF CmdOK, Cmds, MemberScores

LEMMA KeepLinked ==
  ASSUME Linked(dict, list, score), Keep
  PROVE  Linked(dict', list', score') /\ dict' = dict
  BY DEF Keep

(* What adding or taking away one entry does to the number of entries.     *)
LEMMA SizeChange ==
  ASSUME NEW d \in SUBSET Members, NEW m
  PROVE  /\ Cardinality(d) \in Nat
         /\ Cardinality(d \cup {m}) = IF m \in d THEN Cardinality(d) ELSE Cardinality(d) + 1
         /\ Cardinality(d \ {m}) = IF m \in d THEN Cardinality(d) - 1 ELSE Cardinality(d)
  BY SizeType, FS_AddElement, FS_RemoveElement

LEMMA NextIInv == IInv /\ [Next]_vars => IInv'
<1>. SUFFICES ASSUME IInv, [Next]_vars  PROVE IInv'
  OBVIOUS
<1>. USE DEF Adding, Removing
<1>0. /\ Linked(dict, list, score) /\ found \in BOOLEAN /\ CmdOK
      /\ FetchedStillLinked /\ ReplyCountsChange
  BY IInvParts
<1>c. /\ Cardinality(dict) \in Nat
      /\ \A m : Cardinality(dict \cup {m}) = IF m \in dict THEN Cardinality(dict) ELSE Cardinality(dict) + 1
      /\ \A m : Cardinality(dict \ {m}) = IF m \in dict THEN Cardinality(dict) - 1 ELSE Cardinality(dict)
  BY <1>0, SizeChange, ZenonT(60) DEF Linked
<1>1. ASSUME NEW op \in Adding, NEW args \in MemberScores, zadds(op, args)
      PROVE  IInv'
  <2>1. DOMAIN args \in SUBSET Members
    BY DEF MemberScores
  <2>. QED  BY <1>1, <2>1, BeginOK DEF zadds
<1>2. ASSUME NEW m \in Members, NEW d \in Scores, zincrby(m, d)
      PROVE  IInv'
  <2>1. CASE m \in dict
    <3>1. Linked(dict', list', score') /\ dict' = dict
      BY <1>0, <1>2, <2>1, UpdateLinked DEF zincrby
    <3>. QED  BY <1>0, <1>2, <3>1, IInvPartsNext
              DEF zincrby, CmdOK, FetchedStillLinked, ReplyCountsChange
  <2>2. CASE m \notin dict
    <3>1. Linked(dict', list', score')
      BY <1>0, <1>2, <2>2, InsertLinked DEF zincrby
    <3>2. found' = TRUE /\ cmd' = cmd /\ cmd.op = "idle"
      BY <1>2 DEF zincrby
    <3>. QED  BY <1>0, <3>1, <3>2, IInvPartsNext
              DEF CmdOK, FetchedStillLinked, ReplyCountsChange
  <2>. QED  BY <2>1, <2>2
<1>3. ASSUME NEW ms \in SUBSET Members \ {{}}, zrem(ms)
      PROVE  IInv'
  BY <1>0, <1>3, BeginOK DEF zrem
<1>4. ASSUME NEW min \in Scores, NEW max \in Scores, zremrangebyscore(min, max)
      PROVE  IInv'
  <2>1. fetch_by_score(min, max) \subseteq dict /\ dict \in SUBSET Members
    BY <1>0, FetchedAreLinked, SortedSetAssumption DEF Linked
  <2>. QED  BY <1>0, <1>4, <2>1, BeginOK DEF zremrangebyscore
<1>5. ASSUME NEW b \in Ranks, NEW e \in Ranks, zremrangebyrank(b, e)
      PROVE  IInv'
  <2>1. fetch_by_rank(b, e) \subseteq dict /\ dict \in SUBSET Members
    BY <1>0, FetchedAreLinked, SortedSetAssumption DEF Linked
  <2>. QED  BY <1>0, <1>5, <2>1, BeginOK DEF zremrangebyrank
<1>6. ASSUME NEW m \in cmd.todo, insert_if_not_exists(m)
      PROVE  IInv'
  <2>0. cmd.op = "nx" /\ m \in Members /\ cmd.args[m] \in Scores /\ found' = found
    BY <1>0, <1>6, ArgsType DEF insert_if_not_exists
  <2>n. cmd.n \in Nat /\ cmd.size \in Nat
    BY <1>0 DEF CmdOK, Cmds
  <2>1. CASE m \notin dict /\ insert(m, cmd.args[m]) /\ Turn(m, 1)
    <3>1. Linked(dict', list', score') /\ dict' = dict \cup {m}
      BY <1>0, <2>0, <2>1, InsertLinked
    <3>2. CmdOK' /\ cmd'.op = "nx" /\ cmd'.n = cmd.n + 1 /\ cmd'.size = cmd.size
      BY <1>0, <2>0, <2>1, TurnOK
    <3>3. ReplyCountsChange' /\ FetchedStillLinked'
      BY <1>0, <1>c, <2>0, <2>n, <2>1, <3>1, <3>2 DEF ReplyCountsChange, FetchedStillLinked
    <3>. QED  BY <1>0, <2>0, <3>1, <3>2, <3>3, IInvPartsNext
  <2>2. CASE m \in dict /\ Keep /\ Turn(m, 0)
    <3>1. Linked(dict', list', score') /\ dict' = dict
      BY <1>0, <2>2, KeepLinked
    <3>2. CmdOK' /\ cmd'.op = "nx" /\ cmd'.n = cmd.n /\ cmd'.size = cmd.size
      BY <1>0, <2>0, <2>n, <2>2, TurnOK
    <3>3. ReplyCountsChange' /\ FetchedStillLinked'
      BY <1>0, <2>0, <3>1, <3>2 DEF ReplyCountsChange, FetchedStillLinked
    <3>. QED  BY <1>0, <2>0, <3>1, <3>2, <3>3, IInvPartsNext
  <2>. QED  BY <1>6, <2>1, <2>2 DEF insert_if_not_exists
<1>7. ASSUME NEW m \in cmd.todo, update_if_only_exists(m)
      PROVE  IInv'
  <2>0. cmd.op = "xx" /\ m \in Members /\ cmd.args[m] \in Scores /\ found' = found
    BY <1>0, <1>7, ArgsType DEF update_if_only_exists
  <2>1. Linked(dict', list', score') /\ dict' = dict
    BY <1>0, <1>7, <2>0, UpdateLinked, KeepLinked DEF update_if_only_exists
  <2>2. CmdOK' /\ cmd'.op = "xx" /\ cmd'.size = cmd.size
    BY <1>0, <1>7, <2>0, TurnOK DEF update_if_only_exists
  <2>3. ReplyCountsChange' /\ FetchedStillLinked'
    BY <1>0, <2>0, <2>1, <2>2 DEF ReplyCountsChange, FetchedStillLinked
  <2>. QED  BY <1>0, <2>0, <2>1, <2>2, <2>3, IInvPartsNext
<1>8. ASSUME NEW m \in cmd.todo, insert_or_update(m)
      PROVE  IInv'
  <2>0. cmd.op = "ch" /\ m \in Members /\ cmd.args[m] \in Scores /\ found' = found
    BY <1>0, <1>8, ArgsType DEF insert_or_update
  <2>n. cmd.n \in Nat /\ cmd.size \in Nat
    BY <1>0 DEF CmdOK, Cmds
  <2>1. Linked(dict', list', score') /\ (dict' = dict \/ dict' = dict \cup {m})
    BY <1>0, <1>8, <2>0, UpdateLinked, InsertLinked DEF insert_or_update
  <2>2. CmdOK' /\ cmd'.op = "ch" /\ cmd'.n = cmd.n + 1 /\ cmd'.size = cmd.size
    BY <1>0, <1>8, <2>0, TurnOK DEF insert_or_update
  <2>3. ReplyCountsChange' /\ FetchedStillLinked'
    BY <1>0, <1>c, <2>0, <2>n, <2>1, <2>2 DEF ReplyCountsChange, FetchedStillLinked
  <2>. QED  BY <1>0, <2>0, <2>1, <2>2, <2>3, IInvPartsNext
<1>9. ASSUME NEW m \in cmd.todo, erase_keys(m) \/ erase_entries(m)
      PROVE  IInv'
  <2>0. /\ cmd.op \in Removing /\ found' = found
        /\ cmd.n \in Nat /\ cmd.size \in Nat /\ cmd.todo \subseteq Members
    BY <1>0, <1>9 DEF erase_keys, erase_entries, CmdOK, Cmds
  <2>1. CASE m \in dict /\ erase(m) /\ Turn(m, 1)
    <3>1. Linked(dict', list', score') /\ dict' = dict \ {m}
      BY <1>0, <2>1, EraseLinked
    <3>2. /\ CmdOK' /\ cmd'.op = cmd.op /\ cmd'.todo = cmd.todo \ {m}
          /\ cmd'.n = cmd.n + 1 /\ cmd'.size = cmd.size
      BY <1>0, <2>1, TurnOK
    <3>3. ReplyCountsChange'
      BY <1>0, <1>c, <2>0, <2>1, <3>1, <3>2 DEF ReplyCountsChange
    <3>4. FetchedStillLinked'
      BY <1>0, <3>1, <3>2 DEF FetchedStillLinked
    <3>. QED  BY <1>0, <2>0, <3>1, <3>2, <3>3, <3>4, IInvPartsNext
  <2>2. CASE cmd.op = "erase_keys" /\ Keep /\ Turn(m, 0)
    <3>1. Linked(dict', list', score') /\ dict' = dict
      BY <1>0, <2>2, KeepLinked
    <3>2. CmdOK' /\ cmd'.op = "erase_keys" /\ cmd'.n = cmd.n /\ cmd'.size = cmd.size
      BY <1>0, <2>0, <2>2, TurnOK
    <3>3. ReplyCountsChange' /\ FetchedStillLinked'
      BY <1>0, <2>0, <2>2, <3>1, <3>2 DEF ReplyCountsChange, FetchedStillLinked
    <3>. QED  BY <1>0, <2>0, <3>1, <3>2, <3>3, IInvPartsNext
  <2>. QED  BY <1>0, <1>9, <2>1, <2>2 DEF erase_keys, erase_entries, FetchedStillLinked
<1>10. ASSUME Done  PROVE IInv'
  <2>1. Linked(dict', list', score')
    BY <1>0, <1>10, KeepLinked DEF Done
  <2>2. cmd' = Idle /\ found' \in BOOLEAN
    BY <1>0, <1>10 DEF Done
  <2>3. CmdOK' /\ ReplyCountsChange' /\ FetchedStillLinked'
    BY <2>2 DEF Idle, CmdOK, Cmds, ReplyCountsChange, FetchedStillLinked
  <2>. QED  BY <2>1, <2>2, <2>3, IInvPartsNext
<1>11. ASSUME UNCHANGED vars  PROVE IInv'
  BY <1>0, <1>11, IInvPartsNext
     DEF vars, CmdOK, ReplyCountsChange, FetchedStillLinked
<1>. QED  BY <1>1, <1>2, <1>3, <1>4, <1>5, <1>6, <1>7, <1>8, <1>9, <1>10, <1>11 DEF Next

(* Through any sequence of sorted-set commands, whatever the members and   *)
(* scores: every entry is linked exactly once in _list and in _dict, and   *)
(* _list is in score order.                                                *)
THEOREM SortedSetInvariant == Spec => [](TypeOK /\ DictListAgree /\ ListSorted)
<1>1. IInv => TypeOK /\ DictListAgree /\ ListSorted
  BY DEF IInv
<1>. QED  BY <1>1, InitIInv, NextIInv, PTL DEF Spec

(* erase(entries) never follows a pointer to an entry that is gone, and    *)
(* what ZADD and the removing commands reply is what they did.             *)
THEOREM SortedSetCommands == Spec => [](FetchedStillLinked /\ ReplyCountsChange)
<1>1. IInv => FetchedStillLinked /\ ReplyCountsChange
  BY DEF IInv
<1>. QED  BY <1>1, InitIInv, NextIInv, PTL DEF Spec

(* fetch_by_score is exact in every reachable state, although it relies on *)
(* the list being sorted to stop early.                                    *)
THEOREM FetchByScoreIsExact == Spec => []FetchByScoreExact
<1>1. IInv => FetchByScoreExact
  BY IInvParts, FetchByScore, SortedSetAssumption DEF FetchByScoreExact
<1>. QED  BY <1>1, InitIInv, NextIInv, PTL DEF Spec
=============================================================================
