---------------------------- MODULE FibersProofs ----------------------------
(***************************************************************************)
(* Proofs about two utilities whose fibers wait for one another: the region *)
(* groups, for any tree of groups and any limits, and the loading cache,    *)
(* for any keys, getters, periods and sizes.                                *)
(***************************************************************************)
EXTENDS RegionGroup, LoadingCache, FiniteSetTheorems, WellFoundedInduction, TLAPS

\* A leaf that names no prover is one for the SMT solver.
USE SMTT(60)

-----------------------------------------------------------------------------
(* Induction over numbers, and what the helpers of these modules compute. *)

(* A set of natural numbers has a least one: induction over data that the  *)
(* provers can follow.                                                     *)
LEMMA LeastNumber ==
  ASSUME NEW T \in SUBSET Nat, T # {}
  PROVE  \E x \in T : \A y \in T : x <= y
<1> DEFINE R == OpToRel(<, Nat)
<1>1. IsWellFoundedOn(R, Nat)
  BY NatLessThanWellFounded, ZenonT(60)
<1>2. \A x, y \in Nat : y < x => <<y, x>> \in R
  <2>1. R = {ss \in Nat \X Nat : ss[1] < ss[2]}
    BY ZenonT(60) DEF OpToRel
  <2> HIDE DEF R
  <2> QED BY <2>1
<1> HIDE DEF R
<1>3. PICK x \in T : \A y \in T : ~ (<<y, x>> \in R)
  BY <1>1, WFMin, ZenonT(60)
<1>4. \A y \in T : x <= y
  <2>1. \A y \in T : x \in Nat /\ y \in Nat /\ ~(y < x)
    BY <1>2, <1>3, ZenonT(60)
  <2> QED BY <2>1
<1> QED
  BY <1>4

(* An element taken out of a sequence: those after it move up.             *)
LEMMA RemoveAtProperties ==
  ASSUME NEW S, NEW q \in Seq(S), NEW i \in 1 .. Len(q)
  PROVE  /\ RemoveAt(q, i) \in Seq(S) /\ DOMAIN RemoveAt(q, i) = 1 .. Len(q) - 1
         /\ Len(RemoveAt(q, i)) = Len(q) - 1
         /\ \A j \in 1 .. Len(q) - 1 : RemoveAt(q, i)[j] = q[IF j < i THEN j ELSE j + 1]
<1> DEFINE l == Len(q)
           a == SubSeq(q, 1, i - 1)
           b == SubSeq(q, i + 1, l)
           c == a \o b
<1>1. l \in Nat /\ i \in 1 .. l /\ \A j \in 1 .. l : q[j] \in S
  OBVIOUS
<1> HIDE DEF l
<1>2. a \in Seq(S) /\ Len(a) = i - 1 /\ \A j \in 1 .. i - 1 : a[j] = q[j]
  <2>1. \A j \in 1 .. i - 1 : q[j] \in S
    BY <1>1
  <2>2. /\ a \in Seq(S) /\ Len(a) = IF 1 <= i - 1 THEN (i - 1) - 1 + 1 ELSE 0
        /\ \A j \in 1 .. (i - 1) - 1 + 1 : a[j] = q[1 + j - 1]
    <3>1. 1 \in Int /\ i - 1 \in Int
      BY <1>1
    <3> QED BY <2>1, <3>1
  <2> HIDE DEF a
  <2> QED BY <1>1, <2>2
<1>3. b \in Seq(S) /\ Len(b) = l - i /\ \A j \in 1 .. l - i : b[j] = q[j + i]
  <2>1. \A j \in i + 1 .. l : q[j] \in S
    BY <1>1
  <2>2. /\ b \in Seq(S) /\ Len(b) = IF i + 1 <= l THEN l - (i + 1) + 1 ELSE 0
        /\ \A j \in 1 .. l - (i + 1) + 1 : b[j] = q[(i + 1) + j - 1]
    <3>1. i + 1 \in Int /\ l \in Int
      BY <1>1
    <3> QED BY <2>1, <3>1
  <2> HIDE DEF b
  <2>3. \A j \in 1 .. l - i : j \in 1 .. l - (i + 1) + 1 /\ (i + 1) + j - 1 = j + i
    BY <1>1
  <2>4. \A j \in 1 .. l - i : b[j] = q[j + i]
    BY <2>2, <2>3
  <2> QED BY <1>1, <2>2, <2>4
<1> HIDE DEF a, b
<1>4. /\ c \in Seq(S) /\ Len(c) = Len(a) + Len(b)
      /\ \A j \in 1 .. Len(a) + Len(b) : c[j] = IF j <= Len(a) THEN a[j] ELSE b[j - Len(a)]
  <2>1. a \in Seq(S) /\ b \in Seq(S)
    BY <1>2, <1>3
  <2>2. c \in Seq(S) /\ Len(c) = Len(a) + Len(b)
    BY ONLY <2>1, SMTT(60)
  <2> QED BY ONLY <2>1, <2>2, SMTT(60)
<1> HIDE DEF c
<1>5. Len(c) = l - 1 /\ DOMAIN c = 1 .. l - 1 /\ Len(a) + Len(b) = l - 1
  <2>1. i \in Int /\ l \in Int /\ Len(a) = i - 1 /\ Len(b) = l - i /\ Len(c) = Len(a) + Len(b)
    BY <1>1, <1>2, <1>3, <1>4
  <2>2. Len(c) = l - 1 /\ Len(a) + Len(b) = l - 1
    BY <2>1
  <2>3. DOMAIN c = 1 .. Len(c)
    BY <1>4
  <2> QED BY <2>2, <2>3
<1>6. ASSUME NEW j \in 1 .. l - 1 PROVE c[j] = q[IF j < i THEN j ELSE j + 1]
  <2>1. /\ j \in Int /\ i \in Int /\ l \in Int /\ 1 <= j /\ j <= l - 1 /\ 1 <= i /\ i <= l /\ Len(a) = i - 1
        /\ c[j] = IF j <= Len(a) THEN a[j] ELSE b[j - Len(a)]
    <3>1. j \in 1 .. Len(a) + Len(b)
      BY <1>5, ZenonT(60)
    <3>2. c[j] = IF j <= Len(a) THEN a[j] ELSE b[j - Len(a)]
      BY <1>4, <3>1, ZenonT(60)
    <3> QED BY <1>1, <1>2, <3>2
  <2>2. CASE j < i
    <3>1. j <= i - 1 /\ j \in 1 .. i - 1
      BY <2>1, <2>2
    <3> QED BY <1>2, <2>1, <2>2, <3>1
  <2>3. CASE ~(j < i)
    <3>1. j - (i - 1) \in 1 .. l - i /\ (j - (i - 1)) + i = j + 1 /\ ~(j <= i - 1)
      BY <2>1, <2>3
    <3> QED BY <1>3, <2>1, <2>3, <3>1
  <2> QED BY <2>2, <2>3
<1>7. c = RemoveAt(q, i)
  BY DEF RemoveAt, a, b, c, l
<1> QED
  BY <1>4, <1>5, <1>6, <1>7 DEF l

-----------------------------------------------------------------------------
(* The region groups. *)

(* The groups around a group: the recursion along Parent ends.             *)
LEMMA EnclosingRecursion ==
  Enclosing = [g \in Groups |-> IF Parent[g] = None THEN <<g>> ELSE <<g>> \o Enclosing[Parent[g]]]
<1>1. PICK depth \in [Groups -> 0 .. Cardinality(Groups)] :
         \A g \in Groups : Parent[g] # None => depth[Parent[g]] < depth[g]
  BY GroupAssumption
<1>2. Cardinality(Groups) \in Nat
  BY GroupAssumption, FS_CardinalityType
<1> DEFINE Lower(n) == {g \in Groups : depth[g] < n}
           Good(n, f) == f = [g \in Lower(n) |-> IF Parent[g] = None THEN <<g>> ELSE <<g>> \o f[Parent[g]]]
           Bad == {n \in Nat : ~ \E f : Good(n, f)}
<1>3. \E f : Good(0, f)
  <2>1. Lower(0) = {}
    BY <1>1, <1>2
  <2> DEFINE z == [g \in {} |-> <<>>]
  <2>2. Good(0, z)
    <3>1. z = [g \in {} |-> IF Parent[g] = None THEN <<g>> ELSE <<g>> \o z[Parent[g]]]
      OBVIOUS
    <3> QED BY <2>1, <3>1
  <2> QED BY <2>2, ZenonT(60)
<1>4. ASSUME NEW n \in Nat, NEW f, Good(n, f) PROVE \E h : Good(n + 1, h)
  <2> DEFINE h == [g \in Lower(n + 1) |-> IF Parent[g] = None THEN <<g>> ELSE <<g>> \o f[Parent[g]]]
  <2>1. \A g \in Lower(n) : g \in Lower(n + 1) /\ h[g] = f[g]
    <3>1. \A g \in Lower(n) : g \in Lower(n + 1)
      BY <1>1, <1>2
    <3>2. \A g \in Lower(n) : f[g] = IF Parent[g] = None THEN <<g>> ELSE <<g>> \o f[Parent[g]]
      BY <1>4, ZenonT(60)
    <3> QED BY <3>1, <3>2, ZenonT(60)
  <2>2. \A g \in Lower(n + 1) : Parent[g] # None => Parent[g] \in Lower(n)
    BY <1>1, <1>2, GroupAssumption
  <2>3. h = [g \in Lower(n + 1) |-> IF Parent[g] = None THEN <<g>> ELSE <<g>> \o h[Parent[g]]]
    <3>1. \A g \in Lower(n + 1) : (IF Parent[g] = None THEN <<g>> ELSE <<g>> \o f[Parent[g]])
                                = (IF Parent[g] = None THEN <<g>> ELSE <<g>> \o h[Parent[g]])
      BY <2>1, <2>2, ZenonT(60)
    <3> QED BY <3>1, ZenonT(60)
  <2> QED BY <2>3, ZenonT(60)
<1>5. Bad = {}
  <2>1. SUFFICES ASSUME Bad # {} PROVE FALSE
    BY ZenonT(60)
  <2>2. PICK n \in Bad : \A m \in Bad : n <= m
    <3>1. Bad \in SUBSET Nat
      OBVIOUS
    <3> HIDE DEF Bad
    <3> QED BY <2>1, <3>1, LeastNumber
  <2>3. n \in Nat /\ ~ \E f : Good(n, f)
    BY <2>2, ZenonT(60)
  <2>4. n # 0
    BY <1>3, <2>3, ZenonT(60)
  <2>5. n - 1 \in Nat /\ n - 1 \notin Bad /\ (n - 1) + 1 = n
    <3> HIDE DEF Bad
    <3> QED BY <2>2, <2>3, <2>4
  <2>6. \E f : Good(n - 1, f)
    <3> HIDE DEF Good
    <3> QED BY <2>5
  <2> HIDE DEF Good, Bad
  <2> QED BY <1>4, <2>3, <2>5, <2>6
<1>6. Lower(Cardinality(Groups) + 1) = Groups
  BY <1>1, <1>2
<1>7. \E f : f = [g \in Groups |-> IF Parent[g] = None THEN <<g>> ELSE <<g>> \o f[Parent[g]]]
  <2>1. \E f : Good(Cardinality(Groups) + 1, f)
    <3> HIDE DEF Good
    <3> QED BY <1>2, <1>5
  <2> HIDE DEF Lower
  <2> QED BY <2>1, <1>6
<1> QED
  BY <1>7, ZenonT(60) DEF Enclosing

LEMMA EnclosingSequences == Enclosing \in [Groups -> Seq(Groups)]
<1>1. PICK depth \in [Groups -> 0 .. Cardinality(Groups)] :
         \A g \in Groups : Parent[g] # None => depth[Parent[g]] < depth[g]
  BY GroupAssumption
<1>2. Cardinality(Groups) \in Nat
  BY GroupAssumption, FS_CardinalityType
<1> DEFINE Bad == {n \in Nat : \E g \in Groups : depth[g] = n /\ Enclosing[g] \notin Seq(Groups)}
<1>3. \A g \in Groups : Enclosing[g] = IF Parent[g] = None THEN <<g>> ELSE <<g>> \o Enclosing[Parent[g]]
  BY EnclosingRecursion, ZenonT(60)
<1>4. Bad = {}
  <2>1. SUFFICES ASSUME Bad # {} PROVE FALSE
    OBVIOUS
  <2>2. PICK n \in Bad : \A m \in Bad : n <= m
    <3>1. Bad \in SUBSET Nat
      OBVIOUS
    <3> HIDE DEF Bad
    <3> QED BY <2>1, <3>1, LeastNumber
  <2>3. PICK g \in Groups : depth[g] = n /\ Enclosing[g] \notin Seq(Groups)
    BY <2>2
  <2>4. Parent[g] # None
    <3>1. <<g>> \in Seq(Groups)
      OBVIOUS
    <3> QED BY <1>3, <2>3, <3>1, ZenonT(60)
  <2>5. Parent[g] \in Groups /\ depth[Parent[g]] < n /\ depth[Parent[g]] \in Nat /\ n \in Nat
    BY <1>1, <1>2, <2>3, <2>4, GroupAssumption
  <2>6. Enclosing[Parent[g]] \in Seq(Groups)
    <3>1. depth[Parent[g]] \notin Bad
      <4> HIDE DEF Bad
      <4> QED BY <2>2, <2>5
    <3> QED BY <2>5, <3>1
  <2>7. <<g>> \o Enclosing[Parent[g]] \in Seq(Groups)
    BY <2>6
  <2> QED BY <1>3, <2>3, <2>4, <2>7, ZenonT(60)
<1>5. \A g \in Groups : depth[g] \in Nat
  BY <1>1, <1>2
<1>6. \A g \in Groups : Enclosing[g] \in Seq(Groups)
  BY <1>4, <1>5
<1> QED
  BY <1>6, EnclosingRecursion

LEMMA InnermostFirst ==
  ASSUME NEW g \in Groups
  PROVE  g \in Above[g]
<1>1. Enclosing[g] = IF Parent[g] = None THEN <<g>> ELSE <<g>> \o Enclosing[Parent[g]]
  BY EnclosingRecursion, ZenonT(60)
<1>2. Enclosing[g] \in Seq(Groups) /\ Enclosing[g][1] = g /\ Len(Enclosing[g]) >= 1
  <2>1. CASE Parent[g] = None
    BY <1>1, <2>1
  <2>2. CASE Parent[g] # None
    <3>1. Parent[g] \in Groups
      BY <2>2, GroupAssumption
    <3>2. Enclosing[Parent[g]] \in Seq(Groups)
      BY <3>1, EnclosingSequences
    <3> QED BY <1>1, <2>2, <3>2
  <2> QED BY <2>1, <2>2
<1>3. 1 \in DOMAIN Enclosing[g]
  BY <1>2
<1>4. g \in Range(Enclosing[g])
  BY <1>2, <1>3 DEF Range
<1> QED
  BY <1>4 DEF Above

(* The requests that wait in a group are in the order of their numbers,    *)
(* and all of them are later than the one that ran last.                   *)
Waits(q, last, n) ==
    /\ q \in Seq(Nat) /\ last \in Nat /\ n \in Nat /\ last <= n
    /\ \A i \in DOMAIN q : last < q[i] /\ q[i] <= n
    /\ \A i, j \in DOMAIN q : i < j => q[i] < q[j]

InTurn ==
    /\ DOMAIN queue = Groups /\ DOMAIN ran = Groups /\ DOMAIN issued = Groups
    /\ \A g \in Groups : Waits(queue[g], ran[g], issued[g])

LEMMA WaitsAppend ==
  ASSUME NEW q, NEW last, NEW n, Waits(q, last, n)
  PROVE  Waits(Append(q, n + 1), last, n + 1)
<1>1. Append(q, n + 1) \in Seq(Nat) /\ DOMAIN Append(q, n + 1) = 1 .. Len(q) + 1 /\ DOMAIN q = 1 .. Len(q) /\ Len(q) \in Nat
  BY DEF Waits
<1>2. Append(q, n + 1)[Len(q) + 1] = n + 1 /\ \A i \in 1 .. Len(q) : Append(q, n + 1)[i] = q[i]
  BY DEF Waits
<1>3. \A i \in 1 .. Len(q) : q[i] \in Nat
  BY DEF Waits
<1> QED
  BY <1>1, <1>2, <1>3 DEF Waits

(* The same, as facts about the numbers at the places 1 .. l. *)
LEMMA WaitsAt ==
  ASSUME NEW q, NEW last, NEW n, Waits(q, last, n)
  PROVE  /\ q \in Seq(Nat) /\ Len(q) \in Nat /\ DOMAIN q = 1 .. Len(q)
         /\ last \in Nat /\ n \in Nat /\ last <= n
         /\ \A i \in 1 .. Len(q) : q[i] \in Nat /\ last < q[i] /\ q[i] <= n
         /\ \A i, j \in 1 .. Len(q) : i < j => q[i] < q[j]
<1>1. q \in Seq(Nat) /\ Len(q) \in Nat /\ DOMAIN q = 1 .. Len(q) /\ \A i \in 1 .. Len(q) : q[i] \in Nat
  BY DEF Waits
<1>2. /\ last \in Nat /\ n \in Nat /\ last <= n
      /\ \A i \in DOMAIN q : last < q[i] /\ q[i] <= n
      /\ \A i, j \in DOMAIN q : i < j => q[i] < q[j]
  BY ZenonT(60) DEF Waits
<1> QED
  BY <1>1, <1>2, ZenonT(60)

LEMMA WaitsTail ==
  ASSUME NEW q, NEW last, NEW n, Waits(q, last, n), q # <<>>
  PROVE  Waits(Tail(q), Head(q), n) /\ Head(q) > last /\ \A i \in DOMAIN q : q[i] >= Head(q)
<1> DEFINE l == Len(q)
           t == Tail(q)
<1>1. q \in Seq(Nat) /\ l \in Nat /\ l >= 1 /\ Head(q) = q[1] /\ DOMAIN q = 1 .. l
  BY WaitsAt
<1>2. t \in Seq(Nat) /\ DOMAIN t = 1 .. l - 1 /\ \A i \in 1 .. l - 1 : t[i] = q[i + 1]
  BY <1>1
<1>3. /\ last \in Nat /\ n \in Nat
      /\ \A i \in 1 .. l : q[i] \in Nat /\ last < q[i] /\ q[i] <= n
      /\ \A i, j \in 1 .. l : i < j => q[i] < q[j]
  BY WaitsAt, ZenonT(60)
<1> HIDE DEF l, t
<1>4. q[1] \in Nat /\ last < q[1] /\ q[1] <= n /\ \A i \in 1 .. l : i = 1 \/ q[1] < q[i]
  BY <1>1, <1>3
<1>5. \A i \in DOMAIN t : i + 1 \in 1 .. l /\ t[i] = q[i + 1] /\ q[1] < q[i + 1] /\ q[i + 1] <= n
  BY <1>1, <1>2, <1>3
<1>6. ASSUME NEW i \in DOMAIN t, NEW j \in DOMAIN t, i < j PROVE t[i] < t[j]
  <2>1. i + 1 < j + 1
    BY <1>1, <1>2, <1>6
  <2> QED BY <1>3, <1>5, <2>1
<1>7. Waits(t, q[1], n)
  BY <1>2, <1>3, <1>4, <1>5, <1>6, ZenonT(60) DEF Waits
<1> QED
  BY <1>1, <1>3, <1>4, <1>7 DEF t

LEMMA WaitsRemove ==
  ASSUME NEW q, NEW last, NEW n, Waits(q, last, n), NEW i \in DOMAIN q
  PROVE  Waits(RemoveAt(q, i), last, n)
<1> DEFINE l == Len(q)
           c == RemoveAt(q, i)
           p(j) == IF j < i THEN j ELSE j + 1
<1>1. /\ q \in Seq(Nat) /\ l \in Nat /\ i \in 1 .. l
      /\ last \in Nat /\ n \in Nat /\ last <= n
      /\ \A j \in 1 .. l : q[j] \in Nat /\ last < q[j] /\ q[j] <= n
      /\ \A j, k \in 1 .. l : j < k => q[j] < q[k]
  BY WaitsAt, ZenonT(60)
<1>2. c \in Seq(Nat) /\ DOMAIN c = 1 .. l - 1 /\ \A j \in 1 .. l - 1 : c[j] = q[p(j)]
  <2>1. q \in Seq(Nat) /\ i \in 1 .. Len(q)
    BY <1>1
  <2> HIDE DEF p
  <2>2. c \in Seq(Nat) /\ DOMAIN c = 1 .. Len(q) - 1
    BY <2>1, RemoveAtProperties
  <2>3. ASSUME NEW j \in 1 .. Len(q) - 1 PROVE c[j] = q[p(j)]
    BY <2>1, RemoveAtProperties, ZenonT(60) DEF p
  <2> HIDE DEF c
  <2> QED BY <2>2, <2>3
<1> HIDE DEF l, c
<1>3. ASSUME NEW j \in DOMAIN c PROVE c[j] = q[p(j)] /\ p(j) \in 1 .. l /\ j \in Int
  <2>1. j \in 1 .. l - 1 /\ c[j] = q[p(j)]
    BY <1>2, ZenonT(60)
  <2>2. j \in Int /\ i \in Int /\ l \in Int /\ 1 <= j /\ j <= l - 1
    BY <1>1, <2>1
  <2> QED BY <2>1, <2>2
<1>4. ASSUME NEW j \in DOMAIN c, NEW k \in DOMAIN c, j < k PROVE p(j) < p(k)
  <2>1. j \in Int /\ k \in Int /\ i \in Int
    BY <1>1, <1>3
  <2> QED BY <1>4, <2>1
<1> HIDE DEF p
<1>5. \A j \in DOMAIN c : last < c[j] /\ c[j] <= n
  BY <1>1, <1>3, ZenonT(60)
<1>6. \A j, k \in DOMAIN c : j < k => c[j] < c[k]
  BY <1>1, <1>3, <1>4, ZenonT(60)
<1>7. Waits(c, last, n)
  BY <1>1, <1>2, <1>5, <1>6, ZenonT(60) DEF Waits
<1> QED
  BY <1>7 DEF c

LEMMA InTurnInit == GroupInit => InTurn
<1>1. Waits(<<>>, 0, 0)
  BY DEF Waits
<1> QED
  BY <1>1 DEF GroupInit, InTurn

(* What a step does that leaves the requests alone: regions, the releaser  *)
(* that goes to sleep, shutdown.                                           *)
LEMMA RequestsAlone == InTurn /\ UNCHANGED <<queue, issued, ran>> => InTurn' /\ \A g \in Groups : ran'[g] = ran[g]
  BY DEF InTurn

LEMMA RunsKeep ==
  ASSUME InTurn, [GroupNext]_groupVars
  PROVE  /\ InTurn'
         /\ \A g \in Groups : ran'[g] # ran[g] =>
               /\ execution_permitted(g) /\ ran'[g] > ran[g]
               /\ \A i \in DOMAIN queue[g] : queue[g][i] >= ran'[g]
<1> DEFINE Turn == \A g \in Groups : ran'[g] # ran[g] =>
               /\ execution_permitted(g) /\ ran'[g] > ran[g]
               /\ \A i \in DOMAIN queue[g] : queue[g][i] >= ran'[g]
<1> SUFFICES InTurn' /\ Turn
  OBVIOUS
<1>1. ASSUME UNCHANGED <<queue, issued, ran>> PROVE InTurn' /\ Turn
  BY <1>1, RequestsAlone
<1>2. ASSUME NEW r \in Regions,
             \/ \E g \in Sites[r] : AddRegion(r, g)
             \/ DelRegion(r) \/ new_segment(r) \/ free_segment(r) \/ AllocLarge(r) \/ FreeLarge(r)
      PROVE  UNCHANGED <<queue, issued, ran>>
  BY <1>2, ZenonT(60) DEF AddRegion, DelRegion, new_segment, free_segment, AllocLarge, FreeLarge, Requests
<1>3. ASSUME NEW g \in Groups, run_when_memory_available(g) PROVE InTurn' /\ Turn
  <2>1. issued' = [issued EXCEPT ![g] = issued[g] + 1] /\ Waits(queue[g], ran[g], issued[g])
    BY <1>3 DEF run_when_memory_available, InTurn
  <2>2. CASE /\ \A h \in Above[g] : queue[h] = <<>> /\ ~pressure[h]
             /\ Allocate(g, issued[g] + 1)
             /\ UNCHANGED <<queue, stopping>>
    <3>1. queue[g] = <<>> /\ execution_permitted(g) /\ ran' = [ran EXCEPT ![g] = issued[g] + 1] /\ queue' = queue
      BY <2>2, InnermostFirst DEF Allocate, execution_permitted
    <3>2. Waits(<<>>, issued[g] + 1, issued[g] + 1) /\ issued[g] + 1 > ran[g]
      BY <2>1 DEF Waits
    <3>3. InTurn'
      BY <2>1, <3>1, <3>2 DEF InTurn
    <3>4. Turn
      BY <3>1, <3>2 DEF InTurn
    <3> QED BY <3>3, <3>4
  <2>3. CASE /\ queue' = [queue EXCEPT ![g] = Append(@, issued[g] + 1)]
             /\ UNCHANGED <<memoryVars, ran, releaser, stopping>>
    <3>1. Waits(Append(queue[g], issued[g] + 1), ran[g], issued[g] + 1)
      BY <2>1, WaitsAppend
    <3> QED BY <2>1, <2>3, <3>1 DEF InTurn
  <2> QED BY <1>3, <2>2, <2>3 DEF run_when_memory_available
<1>4. ASSUME NEW g \in Groups, Release(g) PROVE InTurn' /\ Turn
  <2>1. CASE /\ queue[g] # <<>> /\ execution_permitted(g)
             /\ queue' = [queue EXCEPT ![g] = Tail(@)]
             /\ Allocate(g, Head(queue[g]))
             /\ UNCHANGED <<issued, stopping>>
    <3>1. ran' = [ran EXCEPT ![g] = Head(queue[g])]
      BY <2>1 DEF Allocate
    <3>2. /\ Waits(Tail(queue[g]), Head(queue[g]), issued[g]) /\ Head(queue[g]) > ran[g]
          /\ \A i \in DOMAIN queue[g] : queue[g][i] >= Head(queue[g])
      BY <2>1, WaitsTail DEF InTurn
    <3>3. InTurn'
      BY <2>1, <3>1, <3>2 DEF InTurn
    <3>4. Turn
      BY <2>1, <3>1, <3>2 DEF InTurn
    <3> QED BY <3>3, <3>4
  <2>2. CASE UNCHANGED <<memoryVars, Requests>>
    BY <1>1, <2>2 DEF Requests
  <2> QED BY <1>4, <2>1, <2>2 DEF Release
<1>5. ASSUME NEW g \in Groups, shutdown(g) PROVE UNCHANGED <<queue, issued, ran>>
  BY <1>5 DEF shutdown
<1>6. ASSUME NEW g \in Groups, NEW i \in 1..MaxRequests[g], on_request_expiry(g, i) PROVE InTurn' /\ Turn
  <2>1. /\ i \in DOMAIN queue[g] /\ UNCHANGED <<issued, ran>>
        /\ queue' = [queue EXCEPT ![g] = RemoveAt(queue[g], i)]
    BY <1>6 DEF on_request_expiry, RemoveAt
  <2>2. Waits(RemoveAt(queue[g], i), ran[g], issued[g])
    BY <2>1, WaitsRemove DEF InTurn
  <2> QED BY <2>1, <2>2 DEF InTurn
<1>7. CASE UNCHANGED groupVars
  BY <1>1, <1>7 DEF groupVars
<1> HIDE DEF Turn
<1>8. ASSUME NEW g \in Groups,
             \/ run_when_memory_available(g) \/ Release(g) \/ shutdown(g)
             \/ \E i \in 1..MaxRequests[g] : on_request_expiry(g, i)
      PROVE  InTurn' /\ Turn
  BY <1>1, <1>3, <1>4, <1>5, <1>6, <1>8
<1>9. CASE GroupNext
  BY <1>1, <1>2, <1>8, <1>9, ZenonT(60) DEF GroupNext
<1> QED
  BY <1>7, <1>9

(* The requests that wait in a group are in the order in which they came,  *)
(* and all came after the last one that ran (run_when_memory_available     *)
(* queues behind what waits; on_request_expiry takes one out of the        *)
(* middle).                                                                *)
THEOREM RequestsInTurn == GroupSpec => []InTurn
<1>1. InTurn /\ [GroupNext]_groupVars => InTurn'
  BY RunsKeep
<1> QED BY <1>1, InTurnInit, PTL DEF GroupSpec

(* A request runs only while no enclosing group blocks it and after every  *)
(* request that came to its group before it has run or expired             *)
(* (run_when_memory_available, do_release_requests).                       *)
THEOREM RunInTurn == GroupSpec => RunsInTurn
<1> DEFINE A == \A g \in Groups : ran'[g] # ran[g] =>
          execution_permitted(g) /\ ran'[g] > ran[g]
            /\ \A i \in DOMAIN queue[g] : queue[g][i] >= ran'[g]
<1>1. InTurn /\ [GroupNext]_groupVars => [A]_groupVars
  BY RunsKeep
<1> HIDE DEF A
<1>2. GroupSpec => [][A]_groupVars
  BY <1>1, RequestsInTurn, PTL DEF GroupSpec
<1> QED BY <1>2 DEF RunsInTurn, A

-----------------------------------------------------------------------------
(* The loading cache. *)

LEMMA OnceCounts ==
  ASSUME NEW S, NEW s \in Seq(S), IsInjective(s)
  PROVE  Cardinality(Range(s)) = Len(s)
<1>1. DOMAIN s = 1 .. Len(s) /\ Len(s) \in Nat /\ s \in [1 .. Len(s) -> Range(s)]
  BY DEF Range
<1>2. \A y \in Range(s) : \E i \in 1 .. Len(s) : s[i] = y
  BY <1>1 DEF Range
<1>3. \A i, j \in 1 .. Len(s) : s[i] = s[j] => i = j
  BY <1>1 DEF IsInjective
<1>4. s \in Bijection(1 .. Len(s), Range(s))
  BY <1>1, <1>2, <1>3 DEF Bijection, Injection, Surjection, IsInjective
<1>5. ExistsBijection(1 .. Len(s), Range(s))
  BY <1>4, ZenonT(60) DEF ExistsBijection
<1>6. IsFiniteSet(1 .. Len(s)) /\ Cardinality(1 .. Len(s)) = Len(s)
  BY <1>1, FS_Interval
<1> QED
  BY <1>5, <1>6, FS_Bijection

LEMMA OnceRemoved ==
  ASSUME NEW S, NEW s \in Seq(S), IsInjective(s), NEW i \in 1 .. Len(s)
  PROVE  /\ RemoveAt(s, i) \in Seq(S) /\ IsInjective(RemoveAt(s, i))
         /\ Range(RemoveAt(s, i)) = Range(s) \ {s[i]}
<1> DEFINE c == RemoveAt(s, i)
           l == Len(s)
           p(j) == IF j < i THEN j ELSE j + 1
<1>1. /\ l \in Nat /\ DOMAIN s = 1 .. l /\ i \in 1 .. l
      /\ \A j, k \in 1 .. l : s[j] = s[k] => j = k
  BY DEF IsInjective
<1>2. c \in Seq(S) /\ DOMAIN c = 1 .. l - 1 /\ \A j \in 1 .. l - 1 : c[j] = s[p(j)]
  BY RemoveAtProperties, ZenonT(60)
<1> HIDE DEF c, l
<1>3. \A j \in 1 .. l - 1 : p(j) \in 1 .. l /\ p(j) # i
  BY <1>1
<1>4. \A j, k \in 1 .. l - 1 : p(j) = p(k) => j = k
  BY <1>1
<1>5. \A j \in 1 .. l : j # i => \E k \in 1 .. l - 1 : p(k) = j
  <2> TAKE j \in 1 .. l
  <2>1. CASE j < i
    <3>1. j \in 1 .. l - 1 /\ p(j) = j
      BY <1>1, <2>1
    <3> QED BY <3>1
  <2>2. CASE j > i
    <3>1. j - 1 \in 1 .. l - 1 /\ p(j - 1) = j
      BY <1>1, <2>2
    <3> QED BY <3>1
  <2> QED BY <1>1, <2>1, <2>2
<1> HIDE DEF p
<1>6. IsInjective(c)
  BY <1>1, <1>2, <1>3, <1>4 DEF IsInjective
<1>7. Range(c) = Range(s) \ {s[i]}
  <2>1. \A y \in Range(c) : y \in Range(s) /\ y # s[i]
    BY <1>1, <1>2, <1>3 DEF Range
  <2>2. \A y \in Range(s) : y # s[i] => y \in Range(c)
    <3> SUFFICES ASSUME NEW j \in 1 .. l, s[j] # s[i] PROVE s[j] \in Range(c)
      BY <1>1 DEF Range
    <3>1. PICK k \in 1 .. l - 1 : p(k) = j
      BY <1>5
    <3> QED BY <1>2, <3>1 DEF Range
  <2> QED BY <2>1, <2>2
<1> QED
  BY <1>2, <1>6, <1>7 DEF c

LEMMA Touched ==
  ASSUME NEW S, NEW s \in Seq(S), IsInjective(s), NEW k \in S
  PROVE  Touch(s, k) \in Seq(S) /\ IsInjective(Touch(s, k)) /\ Range(Touch(s, k)) = Range(s) \cup {k}
<1> DEFINE u == Unlink(s, k)
<1>1. u \in Seq(S) /\ IsInjective(u) /\ Range(u) = Range(s) \ {k}
  <2>1. CASE k \in Range(s)
    <3> DEFINE i == CHOOSE i \in DOMAIN s : s[i] = k
    <3>1. i \in 1 .. Len(s) /\ s[i] = k
      <4>1. \E j \in DOMAIN s : s[j] = k
        BY <2>1 DEF Range
      <4>2. i \in DOMAIN s /\ s[i] = k
        BY <4>1, ZenonT(60)
      <4> HIDE DEF i
      <4> QED BY <4>2
    <3>2. u = RemoveAt(s, i)
      BY <2>1 DEF Unlink
    <3> HIDE DEF i, u
    <3> QED BY <3>1, <3>2, OnceRemoved
  <2>2. CASE k \notin Range(s)
    BY <2>2 DEF Unlink
  <2> QED BY <2>1, <2>2
<1> HIDE DEF u
<1> DEFINE t == <<k>> \o u
<1>2. /\ t \in Seq(S) /\ Len(u) \in Nat /\ DOMAIN t = 1 .. Len(u) + 1 /\ t[1] = k
      /\ \A i \in 1 .. Len(u) : t[i + 1] = u[i]
  BY <1>1
<1> HIDE DEF t
<1>3. DOMAIN u = 1 .. Len(u) /\ \A i \in 1 .. Len(u) : u[i] # k /\ u[i] \in Range(u)
  <2>1. DOMAIN u = 1 .. Len(u)
    BY <1>1
  <2>2. \A i \in 1 .. Len(u) : u[i] \in Range(u)
    BY <2>1 DEF Range
  <2> QED BY <1>1, <2>1, <2>2
<1>4. \A i \in DOMAIN t : i = 1 \/ (i - 1 \in 1 .. Len(u) /\ t[i] = u[i - 1] /\ i \in Int)
  BY <1>2
<1>5. IsInjective(t)
  <2> SUFFICES ASSUME NEW i \in DOMAIN t, NEW j \in DOMAIN t, t[i] = t[j] PROVE i = j
    BY DEF IsInjective
  <2>1. CASE i = 1 \/ j = 1
    BY <1>2, <1>3, <1>4, <2>1
  <2>2. CASE i # 1 /\ j # 1
    <3>1. i - 1 = j - 1
      BY <1>1, <1>3, <1>4, <2>2 DEF IsInjective
    <3> QED BY <1>4, <2>2, <3>1
  <2> QED BY <2>1, <2>2
<1>6. Range(t) = Range(s) \cup {k}
  <2>1. \A y \in Range(t) : y = k \/ y \in Range(u)
    BY <1>2, <1>3, <1>4 DEF Range
  <2>2. k \in Range(t)
    <3>1. 1 \in DOMAIN t
      BY <1>2
    <3> QED BY <1>2, <3>1 DEF Range
  <2>3. \A y \in Range(u) : y \in Range(t)
    <3> SUFFICES ASSUME NEW i \in 1 .. Len(u) PROVE u[i] \in Range(t)
      BY <1>3 DEF Range
    <3>1. i + 1 \in DOMAIN t
      BY <1>2
    <3> QED BY <1>2, <3>1, ZenonT(60) DEF Range
  <2> QED BY <1>1, <2>1, <2>2, <2>3
<1> QED
  BY <1>2, <1>5, <1>6 DEF Touch, t, u

(* The list without what has expired: the recursion along the list, and    *)
(* what it computes.                                                       *)
LEMMA KeptRecursion ==
  ASSUME NEW S, NEW list \in Seq(S), NEW X
  PROVE  Kept(list, X) = [i \in 0 .. Len(list) |->
            IF i = 0 THEN <<>>
            ELSE IF list[i] \in X THEN Kept(list, X)[i - 1] ELSE Append(Kept(list, X)[i - 1], list[i])]
<1> DEFINE step(f, i) == IF i = 0 THEN <<>> ELSE IF list[i] \in X THEN f[i - 1] ELSE Append(f[i - 1], list[i])
           Good(n, f) == f = [i \in 0 .. n |-> step(f, i)]
           Bad == {n \in Nat : ~ \E f : Good(n, f)}
<1>1. \E f : Good(0, f)
  <2> DEFINE z == [i \in 0 .. 0 |-> <<>>]
  <2>1. \A i \in 0 .. 0 : step(z, i) = <<>>
    OBVIOUS
  <2> HIDE DEF step
  <2>2. Good(0, z)
    BY <2>1, ZenonT(60)
  <2> QED BY <2>2
<1>2. ASSUME NEW n \in Nat, NEW f, Good(n, f) PROVE \E h : Good(n + 1, h)
  <2> DEFINE h == [i \in 0 .. n + 1 |-> step(f, i)]
  <2>1. \A i \in 0 .. n : h[i] = f[i]
    <3>1. \A i \in 0 .. n : f[i] = step(f, i) /\ i \in 0 .. n + 1
      <4> HIDE DEF step
      <4> QED BY <1>2
    <3> HIDE DEF step
    <3> QED BY <3>1
  <2>2. \A i \in 0 .. n + 1 : step(h, i) = step(f, i)
    <3> HIDE DEF h
    <3>1. \A i \in 0 .. n + 1 : i = 0 \/ i - 1 \in 0 .. n
      OBVIOUS
    <3> QED BY <2>1, <3>1
  <2> HIDE DEF step
  <2>3. Good(n + 1, h)
    BY <2>2, ZenonT(60)
  <2> QED BY <2>3, ZenonT(60)
<1> HIDE DEF Good
<1>3. Bad = {}
  <2>1. SUFFICES ASSUME Bad # {} PROVE FALSE
    OBVIOUS
  <2>2. PICK n \in Bad : \A m \in Bad : n <= m
    <3>1. Bad \in SUBSET Nat
      OBVIOUS
    <3> HIDE DEF Bad
    <3> QED BY <2>1, <3>1, LeastNumber
  <2>3. n \in Nat /\ ~ \E f : Good(n, f)
    BY <2>2
  <2>4. n # 0
    BY <1>1, <2>3
  <2>5. n - 1 \in Nat /\ n - 1 \notin Bad /\ (n - 1) + 1 = n
    <3> HIDE DEF Bad
    <3> QED BY <2>2, <2>3, <2>4
  <2>6. \E f : Good(n - 1, f)
    BY <2>5
  <2> HIDE DEF Bad
  <2> QED BY <1>2, <2>3, <2>5, <2>6
<1>4. \E f : Good(Len(list), f)
  BY <1>3
<1>5. \E f : f = [i \in 0 .. Len(list) |-> step(f, i)]
  BY <1>4, ZenonT(60) DEF Good
<1> QED
  BY <1>5, ZenonT(60) DEF Kept

LEMMA KeptProperties ==
  ASSUME NEW S, NEW list \in Seq(S), IsInjective(list), NEW X
  PROVE  LET left == Kept(list, X)[Len(list)]
         IN  left \in Seq(S) /\ IsInjective(left) /\ Range(left) = Range(list) \ X
<1> DEFINE l == Len(list)
           kept == Kept(list, X)
           Right(i) == /\ kept[i] \in Seq(S) /\ IsInjective(kept[i])
                       /\ Range(kept[i]) = {list[j] : j \in 1 .. i} \ X
           Bad == {i \in 0 .. l : ~ Right(i)}
<1>1. l \in Nat /\ DOMAIN list = 1 .. l /\ \A i \in 1 .. l : list[i] \in S
  OBVIOUS
<1>2. /\ kept[0] = <<>>
      /\ \A i \in 1 .. l : kept[i] = IF list[i] \in X THEN kept[i - 1] ELSE Append(kept[i - 1], list[i])
  <2> DEFINE e(i) == IF i = 0 THEN <<>> ELSE IF list[i] \in X THEN kept[i - 1] ELSE Append(kept[i - 1], list[i])
  <2>1. kept = [i \in 0 .. l |-> e(i)]
    BY KeptRecursion, ZenonT(60)
  <2>2. \A i \in 0 .. l : kept[i] = e(i)
    <3> HIDE DEF e, kept
    <3> QED BY <2>1
  <2>3. e(0) = <<>> /\ \A i \in 1 .. l : e(i) = IF list[i] \in X THEN kept[i - 1] ELSE Append(kept[i - 1], list[i])
    <3> HIDE DEF kept
    <3> QED BY <1>1
  <2>4. 0 \in 0 .. l /\ \A i \in 1 .. l : i \in 0 .. l
    BY <1>1
  <2> HIDE DEF e, kept
  <2> QED BY <2>2, <2>3, <2>4, ZenonT(60)
<1> HIDE DEF kept, l
<1>3. Right(0)
  BY <1>2 DEF Range, IsInjective
<1>4. ASSUME NEW i \in 1 .. l, Right(i - 1) PROVE Right(i)
  <2> DEFINE k == kept[i - 1]
  <2>1. {list[j] : j \in 1 .. i} = {list[j] : j \in 1 .. i - 1} \cup {list[i]}
    <3>1. 1 .. i = (1 .. i - 1) \cup {i}
      BY <1>1
    <3> QED BY <3>1
  <2>2. CASE list[i] \in X
    BY <1>2, <1>4, <2>1, <2>2
  <2>3. CASE list[i] \notin X
    <3> DEFINE t == Append(k, list[i])
    <3>1. k \in Seq(S) /\ Len(k) \in Nat /\ DOMAIN k = 1 .. Len(k) /\ kept[i] = t /\ list[i] \in S
      <4>1. k \in Seq(S) /\ list[i] \in S
        BY <1>1, <1>4
      <4>2. kept[i] = t
        BY <1>2, <2>3, ZenonT(60)
      <4> HIDE DEF k, t
      <4> QED BY <4>1, <4>2
    <3>2. /\ t \in Seq(S) /\ DOMAIN t = 1 .. Len(k) + 1 /\ t[Len(k) + 1] = list[i]
          /\ \A j \in 1 .. Len(k) : t[j] = k[j]
      BY <3>1
    <3>3. list[i] \notin Range(k)
      <4>1. \A j \in 1 .. i - 1 : list[j] # list[i]
        <5>1. \A j \in 1 .. i - 1 : j \in DOMAIN list /\ i \in DOMAIN list /\ j # i
          BY <1>1
        <5> QED BY <5>1 DEF IsInjective
      <4> QED BY <1>4, <4>1
    <3>4. \A j \in 1 .. Len(k) : k[j] # list[i] /\ k[j] \in Range(k)
      BY <3>1, <3>3 DEF Range
    <3> HIDE DEF t, k
    <3>5. \A j \in DOMAIN t : j = Len(k) + 1 \/ j \in 1 .. Len(k)
      BY <3>1, <3>2
    <3>6. IsInjective(k) /\ Range(k) = {list[j] : j \in 1 .. i - 1} \ X
      BY <1>4 DEF k
    <3>7. IsInjective(t)
      <4> SUFFICES ASSUME NEW a \in DOMAIN t, NEW b \in DOMAIN t, t[a] = t[b] PROVE a = b
        BY DEF IsInjective
      <4>1. CASE a \in 1 .. Len(k) /\ b \in 1 .. Len(k)
        BY <3>1, <3>2, <3>6, <4>1 DEF IsInjective
      <4>2. CASE ~(a \in 1 .. Len(k) /\ b \in 1 .. Len(k))
        BY <3>2, <3>4, <3>5, <4>2
      <4> QED BY <4>1, <4>2
    <3>8. Range(t) = Range(k) \cup {list[i]}
      <4>1. \A y \in Range(t) : y \in Range(k) \cup {list[i]}
        BY <3>2, <3>4, <3>5 DEF Range
      <4>2. \A j \in 1 .. Len(k) : j \in DOMAIN t
        BY <3>1, <3>2
      <4>3. \A y \in Range(k) : y \in Range(t)
        BY <3>1, <3>2, <4>2 DEF Range
      <4>4. Len(k) + 1 \in DOMAIN t
        BY <3>1, <3>2
      <4>5. list[i] \in Range(t)
        BY <3>2, <4>4 DEF Range
      <4> QED BY <4>1, <4>3, <4>5
    <3>9. Range(t) = {list[j] : j \in 1 .. i} \ X
      BY <2>1, <2>3, <3>6, <3>8
    <3> QED BY <3>1, <3>2, <3>7, <3>9
  <2> QED BY <2>2, <2>3
<1> HIDE DEF Right
<1>5. Bad = {}
  <2>1. SUFFICES ASSUME Bad # {} PROVE FALSE
    OBVIOUS
  <2>2. PICK n \in Bad : \A m \in Bad : n <= m
    <3>1. Bad \in SUBSET Nat
      BY <1>1
    <3> HIDE DEF Bad
    <3> QED BY <2>1, <3>1, LeastNumber
  <2>3. n \in 0 .. l /\ ~Right(n)
    BY <2>2
  <2>4. n # 0
    BY <1>3, <2>3
  <2>5. n \in 1 .. l /\ n - 1 \in 0 .. l /\ ~(n <= n - 1)
    BY <1>1, <2>3, <2>4
  <2>6. n - 1 \notin Bad
    <3> HIDE DEF Bad
    <3> QED BY <2>2, <2>5
  <2>7. Right(n - 1)
    BY <2>5, <2>6
  <2> QED BY <1>4, <2>3, <2>5, <2>7
<1>6. Right(l)
  <2>1. l \in 0 .. l
    BY <1>1
  <2> QED BY <1>5, <2>1
<1>7. Range(list) = {list[j] : j \in 1 .. l}
  BY <1>1 DEF Range
<1> QED
  BY <1>6, <1>7 DEF Right, kept, l

LEMMA Shrunk ==
  ASSUME NEW S, NEW s \in Seq(S), IsInjective(s), NEW n \in 0 .. Len(s)
  PROVE  LET t == SubSeq(s, 1, Len(s) - n)
         IN  /\ t \in Seq(S) /\ IsInjective(t)
             /\ Range(t) = Range(s) \ {s[i] : i \in {j \in DOMAIN s : j > Len(s) - n}}
<1> DEFINE m == Len(s) - n
           t == SubSeq(s, 1, m)
           cut == {s[i] : i \in {j \in DOMAIN s : j > m}}
<1>1. m \in 0 .. Len(s) /\ DOMAIN s = 1 .. Len(s) /\ Len(s) \in Nat
  OBVIOUS
<1>2. t \in Seq(S) /\ DOMAIN t = 1 .. m /\ \A i \in 1 .. m : t[i] = s[i]
  OBVIOUS
<1> HIDE DEF t, m
<1>3. \A i \in 1 .. m : i \in DOMAIN s /\ ~(i > m)
  BY <1>1
<1>4. IsInjective(t)
  BY <1>2, <1>3 DEF IsInjective
<1>5. \A i \in DOMAIN s : i \in 1 .. m \/ i > m
  BY <1>1
<1>6. Range(t) = Range(s) \ cut
  <2>1. \A y \in Range(t) : y \in Range(s) /\ y \notin cut
    <3> SUFFICES ASSUME NEW i \in 1 .. m PROVE s[i] \in Range(s) /\ s[i] \notin cut
      BY <1>2 DEF Range
    <3> QED BY <1>3 DEF IsInjective, Range
  <2>2. \A y \in Range(s) : y \notin cut => y \in Range(t)
    BY <1>2, <1>5 DEF Range
  <2> QED BY <2>1, <2>2
<1> QED
  BY <1>2, <1>4, <1>6 DEF t, m

-----------------------------------------------------------------------------
(* The invariant of the loading cache. *)
Val == {<<>>} \cup {<<v>> : v \in Nat}
Item == [id : Nat, value : Val, loaded : Nat, lastRead : Nat]
Valued(s) == {k \in DOMAIN s : s[k].value # <<>>}

CacheTypes ==
    /\ now \in Nat /\ start \in Nat /\ start <= now /\ made \in Nat
    /\ DOMAIN set \subseteq Keys /\ set \in [DOMAIN set -> Item]
    /\ lru \in Seq(Keys) /\ IsInjective(lru)
    /\ DOMAIN getter = Getters /\ \A g \in Getters : getter[g].key \in Keys

(* The list holds the entries with a value, and the timer, when it is      *)
(* armed, was set for one period after its last run, with no reload left.  *)
Linked == Range(lru) = Valued(set)
Armed ==
    /\ timer # <<>> => reloads = {}
    /\ (timer # <<>> /\ status = "up") => timer = <<start + Refresh>>
Held == \A r \in reloads : r.key \in Valued(set) /\ set[r.key].id = r.id
Recent == status = "up" => \A k \in Valued(set) : start - set[k].loaded <= Expiry /\ set[k].loaded <= now

CacheInv == CacheTypes /\ Linked /\ Armed /\ Held /\ Recent

LEMMA LoadingCacheStart == LoadingCacheInit => CacheInv
<1> SUFFICES ASSUME LoadingCacheInit PROVE CacheInv
  OBVIOUS
<1>1. Idle.key \in Keys
  BY LoadingCacheAssumption DEF Idle
<1>2. CacheTypes
  BY <1>1 DEF LoadingCacheInit, CacheTypes, IsInjective
<1>3. Linked
  BY DEF LoadingCacheInit, Linked, Valued, Range
<1>4. Armed /\ Held /\ Recent
  BY LoadingCacheAssumption DEF LoadingCacheInit, Armed, Held, Recent, Valued
<1> QED
  BY <1>2, <1>3, <1>4 DEF CacheInv

LEMMA Entered ==
  ASSUME CacheInv, NEW k \in Keys
  PROVE  LET s == find_or_create(k)
         IN  /\ DOMAIN s = DOMAIN set \cup {k} /\ s \in [DOMAIN s -> Item]
             /\ Valued(s) = Valued(set)
             /\ \A j \in DOMAIN set : s[j] = set[j]
<1> DEFINE s == find_or_create(k)
           new == [id |-> made + 1, value |-> <<>>, loaded |-> now, lastRead |-> now]
<1>1. CASE k \in DOMAIN set
  BY <1>1, ZenonT(60) DEF find_or_create, CacheInv, CacheTypes
<1>2. CASE k \notin DOMAIN set
  <2>1. new \in Item /\ new.value = <<>>
    BY DEF Item, Val, CacheInv, CacheTypes
  <2> HIDE DEF new
  <2>2. s = [j \in DOMAIN set \cup {k} |-> IF j = k THEN new ELSE set[j]]
    BY <1>2 DEF find_or_create, With, new
  <2> HIDE DEF s
  <2> QED BY <1>2, <2>1, <2>2 DEF Valued, CacheInv, CacheTypes, s
<1> QED
  BY <1>1, <1>2

(* A getter is served: the entry has a value, is read, and comes to the    *)
(* front of the list.                                                      *)
LEMMA ServedKeeps ==
  ASSUME CacheInv, NEW k \in Keys, NEW g \in Getters, NEW s,
         k \in DOMAIN s, s \in [DOMAIN s -> Item], DOMAIN s \subseteq Keys,
         Valued(s) = Valued(set) \cup {k},
         \A j \in Valued(set) : s[j].id = set[j].id,
         status = "up" => \A j \in Valued(s) : start - s[j].loaded <= Expiry /\ s[j].loaded <= now,
         Served(g, s, k), made' \in Nat,
         UNCHANGED <<now, reloads, timer, start, status>>
  PROVE  CacheInv'
<1>1. set' = [s EXCEPT ![k].lastRead = now] /\ lru' = Touch(lru, k) /\ getter' = [getter EXCEPT ![g] = Idle]
  BY DEF Served, Read
<1>2. /\ DOMAIN set' = DOMAIN s /\ set' \in [DOMAIN s -> Item]
      /\ \A j \in DOMAIN s : /\ set'[j].id = s[j].id /\ set'[j].value = s[j].value
                             /\ set'[j].loaded = s[j].loaded
  BY <1>1, ZenonT(60) DEF Item, CacheInv, CacheTypes
<1>3. Valued(set)' = Valued(set) \cup {k}
  BY <1>2 DEF Valued
<1>4. lru' \in Seq(Keys) /\ IsInjective(lru') /\ Range(lru') = Range(lru) \cup {k}
  BY <1>1, Touched DEF CacheInv, CacheTypes
<1>5. DOMAIN getter' = Getters /\ \A h \in Getters : getter'[h].key \in Keys
  <2>1. Idle.key \in Keys
    BY LoadingCacheAssumption DEF Idle
  <2> QED BY <1>1, <2>1 DEF CacheInv, CacheTypes
<1>6. CacheTypes'
  BY <1>2, <1>4, <1>5 DEF CacheInv, CacheTypes
<1>7. Linked'
  BY <1>3, <1>4 DEF CacheInv, Linked
<1>8. Armed'
  BY DEF CacheInv, Armed
<1>9. \A j \in Valued(s) : j \in DOMAIN s
  BY DEF Valued
<1>10. Held'
  BY <1>2, <1>3, <1>9 DEF CacheInv, Held
<1>11. Recent'
  BY <1>2, <1>3, <1>9 DEF Recent
<1> QED
  BY <1>6, <1>7, <1>8, <1>10, <1>11 DEF CacheInv

(* An entry without a value is made, or nothing changes in the set.        *)
LEMMA EnteredKeeps ==
  ASSUME CacheInv, NEW k \in Keys, set' = find_or_create(k), made' \in Nat,
         DOMAIN getter' = Getters, \A h \in Getters : getter'[h].key \in Keys,
         UNCHANGED <<now, lru, reloads, timer, start, status>>
  PROVE  CacheInv'
<1>1. /\ DOMAIN set' = DOMAIN set \cup {k} /\ set' \in [DOMAIN set' -> Item]
      /\ Valued(set)' = Valued(set) /\ \A j \in Valued(set) : set'[j] = set[j]
  BY Entered, ZenonT(60) DEF Valued
<1>2. CacheTypes'
  BY <1>1 DEF CacheInv, CacheTypes
<1>3. Linked' /\ Armed'
  BY <1>1 DEF CacheInv, Linked, Armed
<1>4. Held' /\ Recent'
  BY <1>1 DEF CacheInv, Held, Recent
<1> QED
  BY <1>2, <1>3, <1>4 DEF CacheInv

LEMMA CreatedType ==
  ASSUME CacheInv, NEW k, Created(k)
  PROVE  made' \in Nat
  BY DEF CacheInv, CacheTypes, Created

LEMMA GetKeeps ==
  ASSUME CacheInv, NEW g \in Getters, NEW k \in Keys, get(g, k)
  PROVE  CacheInv'
<1> DEFINE s == find_or_create(k)
<1>1. made' \in Nat /\ UNCHANGED <<now, reloads, timer, start, status>>
  BY CreatedType DEF get
<1>2. /\ DOMAIN s = DOMAIN set \cup {k} /\ s \in [DOMAIN s -> Item]
      /\ Valued(s) = Valued(set) /\ \A j \in DOMAIN set : s[j] = set[j]
  BY Entered
<1>3. CASE s[k].value # <<>>
  <2>1. Served(g, s, k)
    BY <1>3 DEF get
  <2>2. k \in Valued(s) /\ DOMAIN s \subseteq Keys
    BY <1>2, <1>3 DEF Valued, CacheInv, CacheTypes
  <2>3. \A j \in Valued(set) : s[j] = set[j]
    BY <1>2 DEF Valued
  <2> HIDE DEF s
  <2>4. status = "up" => \A j \in Valued(s) : start - s[j].loaded <= Expiry /\ s[j].loaded <= now
    BY <1>2, <2>3 DEF CacheInv, Recent
  <2>5. Valued(s) = Valued(set) \cup {k}
    BY <1>2, <2>2
  <2>6. k \in DOMAIN s /\ \A j \in Valued(set) : s[j].id = set[j].id
    BY <1>2, <2>3
  <2> QED BY <1>1, <1>2, <2>1, <2>2, <2>4, <2>5, <2>6, ServedKeeps
<1>4. CASE s[k].value = <<>>
  <2>1. set' = s /\ lru' = lru /\ \E ph, m : getter' = [getter EXCEPT ![g] = [phase |-> ph, key |-> k, mutex |-> m]]
    <3> DEFINE m == IF k \in DOMAIN mutexMap THEN mutexMap[k] ELSE Cardinality(DOMAIN queues) + 1
               q == IF m \in DOMAIN queues THEN queues[m] ELSE <<>>
               ph == IF q = <<>> THEN "loading" ELSE "queued"
    <3>1. getter' = [getter EXCEPT ![g] = [phase |-> ph, key |-> k, mutex |-> m]] /\ set' = s /\ lru' = lru
      BY <1>4, ZenonT(60) DEF get
    <3> HIDE DEF m, q, ph, s
    <3> QED BY <3>1, ZenonT(60)
  <2>2. DOMAIN getter' = Getters /\ \A h \in Getters : getter'[h].key \in Keys
    BY <2>1 DEF CacheInv, CacheTypes
  <2> QED BY <1>1, <2>1, <2>2, EnteredKeeps
<1> QED
  BY <1>3, <1>4

LEMMA SlowLoadKeeps ==
  ASSUME CacheInv, NEW g \in Getters, slow_load(g)
  PROVE  CacheInv'
<1> DEFINE k == getter[g].key
           s == find_or_create(k)
<1>1. made' \in Nat /\ UNCHANGED <<now, reloads, timer, start, status>>
  BY CreatedType DEF slow_load
<1>2. k \in Keys
  BY DEF CacheInv, CacheTypes
<1>3. /\ DOMAIN s = DOMAIN set \cup {k} /\ s \in [DOMAIN s -> Item]
      /\ Valued(s) = Valued(set) /\ \A j \in DOMAIN set : s[j] = set[j]
  BY <1>2, Entered, ZenonT(60)
<1>4. CASE s[k].value # <<>>
  <2>1. Served(g, s, k)
    BY <1>4 DEF slow_load
  <2> HIDE DEF k
  <2>2. k \in Valued(s) /\ DOMAIN s \subseteq Keys
    BY <1>2, <1>3, <1>4 DEF Valued, CacheInv, CacheTypes
  <2>3. \A j \in Valued(set) : s[j] = set[j]
    BY <1>3 DEF Valued
  <2> HIDE DEF s
  <2>4. status = "up" => \A j \in Valued(s) : start - s[j].loaded <= Expiry /\ s[j].loaded <= now
    BY <1>3, <2>3 DEF CacheInv, Recent
  <2>5. Valued(s) = Valued(set) \cup {k}
    BY <1>3, <2>2
  <2>6. k \in DOMAIN s /\ \A j \in Valued(set) : s[j].id = set[j].id
    BY <1>3, <2>3
  <2> QED BY <1>1, <1>2, <1>3, <2>1, <2>2, <2>4, <2>5, <2>6, ServedKeeps
<1>5. CASE s[k].value = <<>>
  <2>1. set' = s /\ lru' = lru /\ getter' = [getter EXCEPT ![g].phase = "loading"]
    BY <1>5 DEF slow_load
  <2>2. DOMAIN getter' = Getters /\ \A h \in Getters : getter'[h].key = getter[h].key
    BY <2>1 DEF CacheInv, CacheTypes
  <2>3. \A h \in Getters : getter'[h].key \in Keys
    BY <2>2 DEF CacheInv, CacheTypes
  <2> HIDE DEF k
  <2> QED BY <1>1, <1>2, <2>1, <2>2, <2>3, EnteredKeeps
<1> QED
  BY <1>4, <1>5

LEMMA LoadDoneKeeps ==
  ASSUME CacheInv, NEW g \in Getters, NEW ok \in BOOLEAN, LoadDone(g, ok)
  PROVE  CacheInv'
<1> DEFINE k == getter[g].key
           e == find_or_create(k)
           s == [e EXCEPT ![k].value = <<now>>, ![k].loaded = now]
<1>1. UNCHANGED <<now, reloads, timer, start, status>> /\ k \in Keys
  BY DEF LoadDone, CacheInv, CacheTypes
<1>2. CASE ok
  <2>1. made' \in Nat /\ Served(g, s, k)
    BY <1>2, CreatedType DEF LoadDone
  <2> HIDE DEF k
  <2>2. /\ DOMAIN e = DOMAIN set \cup {k} /\ e \in [DOMAIN e -> Item]
        /\ Valued(e) = Valued(set) /\ \A j \in DOMAIN set : e[j] = set[j]
    BY <1>1, Entered, ZenonT(60)
  <2> HIDE DEF e
  <2>3. /\ DOMAIN s = DOMAIN e /\ \A j \in DOMAIN e : j # k => s[j] = e[j]
        /\ s[k] = [e[k] EXCEPT !.value = <<now>>, !.loaded = now]
    BY <2>2
  <2> HIDE DEF s
  <2>4. s[k] \in Item /\ s[k].value # <<>> /\ s[k].loaded = now /\ s[k].id = e[k].id
    <3>1. e[k] \in Item /\ now \in Nat
      BY <2>2 DEF CacheInv, CacheTypes
    <3> DEFINE x == [e[k] EXCEPT !.value = <<now>>, !.loaded = now]
    <3>2. <<now>> \in Val /\ <<now>> # <<>>
      BY <3>1 DEF Val
    <3>3. x \in Item /\ x.value = <<now>> /\ x.loaded = now /\ x.id = e[k].id
      BY <3>1, <3>2, ZenonT(60) DEF Item
    <3> HIDE DEF x
    <3> QED BY <2>3, <3>2, <3>3 DEF x
  <2>5. k \in DOMAIN s /\ s \in [DOMAIN s -> Item] /\ DOMAIN s \subseteq Keys
    <3>1. \A j \in DOMAIN s : s[j] \in Item
      BY <2>2, <2>3, <2>4
    <3>2. s = [j \in DOMAIN s |-> s[j]]
      BY DEF s
    <3>3. s \in [DOMAIN s -> Item]
      BY <3>1, <3>2, ZenonT(60)
    <3> QED BY <1>1, <2>2, <2>3, <3>3 DEF CacheInv, CacheTypes
  <2>6. Valued(s) = Valued(set) \cup {k}
    BY <2>2, <2>3, <2>4, ZenonT(60) DEF Valued
  <2>7. \A j \in Valued(set) : s[j].id = set[j].id
    BY <2>2, <2>3, <2>4, ZenonT(60) DEF Valued
  <2>8. status = "up" => \A j \in Valued(s) : start - s[j].loaded <= Expiry /\ s[j].loaded <= now
    <3>1. \A j \in Valued(set) : j # k => s[j] = set[j]
      BY <2>2, <2>3 DEF Valued
    <3>2. start - s[k].loaded <= Expiry /\ s[k].loaded <= now
      BY <2>4, LoadingCacheAssumption DEF CacheInv, CacheTypes
    <3> QED BY <2>6, <3>1, <3>2 DEF CacheInv, Recent
  <2> QED BY <1>1, <2>1, <2>5, <2>6, <2>7, <2>8, ServedKeeps
<1>3. CASE ~ok
  <2>1. UNCHANGED <<set, lru, made>> /\ getter' = [getter EXCEPT ![g] = Idle]
    BY <1>3 DEF LoadDone
  <2>2. Idle.key \in Keys
    BY LoadingCacheAssumption DEF Idle
  <2>3. CacheTypes'
    BY <1>1, <2>1, <2>2 DEF CacheInv, CacheTypes
  <2>4. Linked' /\ Armed' /\ Held' /\ Recent'
    BY <1>1, <2>1 DEF CacheInv, Linked, Armed, Held, Recent
  <2> QED BY <2>3, <2>4 DEF CacheInv
<1> QED
  BY <1>2, <1>3

LEMMA ReloadKeeps ==
  ASSUME CacheInv, NEW r \in reloads, NEW ok \in BOOLEAN, reload(r, ok)
  PROVE  CacheInv'
<1>1. /\ reloads' = reloads \ {r} /\ start' = start /\ Rearm(reloads')
      /\ UNCHANGED <<now, lru, getter, made, status>>
      /\ set' = IF ok /\ r.key \in DOMAIN set
                THEN [set EXCEPT ![r.key].value = <<now>>, ![r.key].loaded = now] ELSE set
  BY DEF reload
<1>2. r.key \in Valued(set) /\ r.key \in DOMAIN set
  BY DEF CacheInv, Held, Valued
<1>3. /\ DOMAIN set' = DOMAIN set /\ set' \in [DOMAIN set -> Item] /\ Valued(set)' = Valued(set)
      /\ \A k \in DOMAIN set : /\ set'[k].id = set[k].id
                               /\ set'[k].loaded = set[k].loaded \/ set'[k].loaded = now
  <2>1. CASE ok
    <3> DEFINE k == r.key
               x == [set[k] EXCEPT !.value = <<now>>, !.loaded = now]
    <3>1. set' = [set EXCEPT ![k] = x]
      BY <1>1, <1>2, <2>1, ZenonT(60)
    <3>2. set[k] \in Item /\ set[k].value # <<>>
      BY <1>2 DEF CacheInv, CacheTypes, Valued
    <3>3. x \in Item /\ x.id = set[k].id /\ x.value # <<>> /\ x.loaded = now
      BY <3>2, ZenonT(60) DEF Item, Val, CacheInv, CacheTypes
    <3> HIDE DEF k, x
    <3> QED BY <1>2, <3>1, <3>2, <3>3 DEF CacheInv, CacheTypes, Valued, k
  <2>2. CASE ~ok
    BY <1>1, <2>2 DEF CacheInv, CacheTypes, Valued
  <2> QED BY <2>1, <2>2
<1>4. CacheTypes'
  BY <1>1, <1>3 DEF CacheInv, CacheTypes
<1>5. Linked'
  BY <1>1, <1>3 DEF CacheInv, Linked
<1>6. Armed'
  BY <1>1 DEF Rearm, Armed
<1>7. Held'
  BY <1>1, <1>3 DEF CacheInv, Held, Valued
<1>8. Recent'
  <2>1. \A k \in Valued(set) : k \in DOMAIN set
    BY DEF Valued
  <2> QED BY <1>1, <1>3, <2>1, LoadingCacheAssumption DEF CacheInv, Recent, CacheTypes
<1> QED
  BY <1>4, <1>5, <1>6, <1>7, <1>8 DEF CacheInv

LEMMA TimerKeeps ==
  ASSUME CacheInv, on_timer
  PROVE  CacheInv'
<1> DEFINE gone == drop_expired(set)
           left == Kept(lru, gone)[Len(lru)]
           n == shrink(Without(set, gone))
           cut == {left[i] : i \in {j \in DOMAIN left : j > Len(left) - n}}
           out == gone \cup cut
           due == {k \in DOMAIN set \ out : set[k].value # <<>> /\ set[k].loaded + Refresh < now}
<1>1. /\ status = "up" /\ timer # <<>> /\ reloads = {} /\ start' = now
      /\ UNCHANGED <<now, getter, made, stopped>>
  BY DEF on_timer, CacheInv, Armed
<1>2. gone \subseteq Range(lru) /\ \A k \in Range(lru) : k \notin gone => ~(Expiry < now - set[k].loaded)
  BY DEF drop_expired
<1>3. left \in Seq(Keys) /\ IsInjective(left) /\ Range(left) = Range(lru) \ gone
  BY KeptProperties DEF CacheInv, CacheTypes
<1>4. n \in Nat
  <2>1. DOMAIN Without(set, gone) \subseteq Keys
    BY DEF Without, CacheInv, CacheTypes
  <2>2. Cardinality(DOMAIN Without(set, gone)) \in Nat
    BY <2>1, LoadingCacheAssumption, FS_Subset, FS_CardinalityType
  <2> QED BY <2>2, LoadingCacheAssumption DEF shrink
<1>5. CASE n > Len(left)
  <2>1. status' = "shrink" /\ UNCHANGED <<set, lru, reloads, timer>>
    BY <1>5, ZenonT(60) DEF on_timer
  <2>2. CacheTypes'
    BY <1>1, <2>1 DEF CacheInv, CacheTypes
  <2>3. Linked' /\ Armed' /\ Held' /\ Recent'
    BY <1>1, <2>1 DEF CacheInv, Linked, Armed, Held, Recent
  <2> QED BY <2>2, <2>3 DEF CacheInv
<1>6. CASE ~(n > Len(left))
  <2>1. /\ set' = Without(set, out) /\ lru' = SubSeq(left, 1, Len(left) - n) /\ status' = status
        /\ IF stopped THEN timer' = <<>> /\ UNCHANGED reloads
           ELSE reloads' = {[key |-> k, id |-> set[k].id] : k \in due} /\ Rearm(reloads')
    BY <1>6, ZenonT(60) DEF on_timer
  <2>2. lru' \in Seq(Keys) /\ IsInjective(lru') /\ Range(lru') = Range(left) \ cut
    <3> HIDE DEF left, n
    <3>1. n \in 0 .. Len(left)
      BY <1>3, <1>4, <1>6
    <3>2. left \in Seq(Keys) /\ IsInjective(left)
      BY <1>3
    <3> DEFINE t == SubSeq(left, 1, Len(left) - n)
    <3>3. t \in Seq(Keys) /\ IsInjective(t) /\ Range(t) = Range(left) \ cut
      BY ONLY <3>1, <3>2, Shrunk, ZenonT(60)
    <3>4. lru' = t
      BY <2>1
    <3> HIDE DEF t, cut
    <3> QED BY <3>3, <3>4
  <2>3. DOMAIN set' = DOMAIN set \ out /\ \A k \in DOMAIN set \ out : set'[k] = set[k]
    <3> HIDE DEF out
    <3> QED BY <2>1 DEF Without
  <2>4. set' \in [DOMAIN set' -> Item] /\ DOMAIN set' \subseteq Keys
    <3> HIDE DEF out
    <3> QED BY <2>1, <2>3 DEF Without, CacheInv, CacheTypes
  <2> HIDE DEF gone, left, n, cut
  <2>5. Valued(set)' = Valued(set) \ out
    BY <2>3 DEF Valued
  <2>6. CacheTypes'
    BY <1>1, <2>2, <2>4 DEF CacheInv, CacheTypes
  <2>7. Linked'
    BY <1>3, <2>2, <2>5 DEF CacheInv, Linked
  <2>8. Armed'
    BY <1>1, <2>1 DEF Rearm, Armed, CacheInv
  <2>9. Held'
    <3>1. CASE stopped
      BY <1>1, <2>1, <3>1 DEF Held
    <3>2. CASE ~stopped
      <4>1. \A k \in due : k \in Valued(set) \ out /\ k \in DOMAIN set \ out
        BY DEF Valued
      <4>2. \A q \in reloads' : \E k \in due : q.key = k /\ q.id = set[k].id
        <5> HIDE DEF due
        <5> QED BY <2>1, <3>2
      <4> HIDE DEF due, out
      <4> QED BY <2>3, <2>5, <4>1, <4>2 DEF Held
    <3> QED BY <3>1, <3>2
  <2>10. Recent'
    <3>1. \A k \in Valued(set)' : k \in Range(lru) /\ k \notin gone /\ set'[k] = set[k] /\ k \in Valued(set)
      BY <2>3, <2>5 DEF CacheInv, Linked, Valued
    <3>2. \A k \in Valued(set) : set[k].loaded \in Nat /\ set[k].loaded <= now
      BY <1>1 DEF Valued, CacheInv, CacheTypes, Item, Recent
    <3>3. \A k \in Valued(set)' : now - set[k].loaded <= Expiry
      BY <1>2, <3>1, <3>2, LoadingCacheAssumption DEF CacheInv, CacheTypes
    <3> QED BY <1>1, <3>1, <3>2, <3>3 DEF Recent
  <2> QED BY <2>6, <2>7, <2>8, <2>9, <2>10 DEF CacheInv
<1> QED
  BY <1>5, <1>6

LEMMA CacheStep == CacheInv /\ [LoadingCacheNext]_lcVars => CacheInv'
<1> SUFFICES ASSUME CacheInv, [LoadingCacheNext]_lcVars PROVE CacheInv'
  OBVIOUS
<1>1. CASE \E g \in Getters, k \in Keys : get(g, k)
  BY <1>1, GetKeeps
<1>2. CASE \E g \in Getters : slow_load(g)
  BY <1>2, SlowLoadKeeps
<1>3. CASE \E g \in Getters, ok \in BOOLEAN : LoadDone(g, ok)
  BY <1>3, LoadDoneKeeps
<1>4. CASE \E r \in reloads, ok \in BOOLEAN : reload(r, ok)
  BY <1>4, ReloadKeeps
<1>5. CASE on_timer
  BY <1>5, TimerKeeps
<1>6. CASE stop \/ UNCHANGED lcVars
  <2>1. UNCHANGED <<now, set, lru, getter, reloads, timer, start, made, status>>
    BY <1>6 DEF stop, lcVars
  <2> QED BY <2>1 DEF CacheInv, CacheTypes, Linked, Armed, Held, Recent, Valued
<1>7. CASE Stopped
  <2>1. UNCHANGED <<now, set, lru, getter, reloads, start, made, status>> /\ timer' = <<>>
    BY <1>7 DEF Stopped
  <2> QED BY <2>1 DEF CacheInv, CacheTypes, Linked, Armed, Held, Recent, Valued
<1>8. CASE Tick
  <2>1. UNCHANGED <<set, lru, getter, reloads, timer, start, made, status>> /\ now' = now + 1
    BY <1>8 DEF Tick
  <2>2. CacheTypes' /\ Linked' /\ Armed' /\ Held'
    BY <2>1 DEF CacheInv, CacheTypes, Linked, Armed, Held, Valued
  <2>3. \A k \in Valued(set) : set[k].loaded \in Nat
    BY DEF Valued, CacheInv, CacheTypes, Item
  <2>4. Recent'
    BY <2>1, <2>3 DEF CacheInv, CacheTypes, Recent, Valued
  <2> QED BY <2>2, <2>4 DEF CacheInv
<1> QED
  BY <1>1, <1>2, <1>3, <1>4, <1>5, <1>6, <1>7, <1>8 DEF LoadingCacheNext

LEMMA CacheFresh == CacheInv => FreshUnlessReloading
<1> SUFFICES ASSUME CacheInv PROVE FreshUnlessReloading
  OBVIOUS
<1>1. Range(lru) = Valued(set) /\ \A r \in reloads : r.key \in DOMAIN set /\ set[r.key].id = r.id
  BY DEF CacheInv, Linked, Held, Valued
<1>2. ReferencesValid
  BY <1>1, OnceCounts, ZenonT(60) DEF ReferencesValid, Valued, CacheInv, CacheTypes
<1>3. ASSUME status = "up", timer # <<>>, now < timer[1], NEW k \in Range(lru)
      PROVE  now - set[k].loaded <= Expiry + Refresh
  <2>1. timer = <<start + Refresh>> /\ start - set[k].loaded <= Expiry
    BY <1>1, <1>3 DEF CacheInv, Armed, Recent
  <2>2. set[k].loaded \in Nat /\ now \in Nat /\ start \in Nat
    BY <1>1 DEF Valued, CacheInv, CacheTypes, Item
  <2>3. now < start + Refresh
    BY <1>3, <2>1
  <2> QED BY <2>1, <2>2, <2>3, LoadingCacheAssumption
<1> QED
  BY <1>2, <1>3 DEF FreshUnlessReloading

(* The list links exactly the entries that have a value, once each; the    *)
(* references of background reloads are to entries that are there; the     *)
(* timer is armed, unless it is reloading or stopped, for one period after *)
(* it last ran; and what it left then was not older than the expiry        *)
(* (on_timer, drop_expired, shrink, reload).                               *)
THEOREM LoadingCacheInvariant == LoadingCacheSpec => []CacheInv
  BY LoadingCacheStart, CacheStep, PTL DEF LoadingCacheSpec

(* No value is older than the expiry and one period of the timer, unless a *)
(* reload keeps the timer from being armed, and no reload writes through a *)
(* reference to an entry that was dropped, however gets, loads that fail,  *)
(* reloads, expiry, shrinking and stop() interleave.                       *)
THEOREM CacheStaysFresh == LoadingCacheSpec => []FreshUnlessReloading
  BY LoadingCacheInvariant, CacheFresh, PTL
=============================================================================
