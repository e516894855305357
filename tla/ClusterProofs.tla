---------------------------- MODULE ClusterProofs ----------------------------
(***************************************************************************)
(* Proofs about what connects the nodes of a cluster: messaging_service,    *)
(* for any number of nodes, calls, connections and failures, and the        *)
(* gossiper, for any number of nodes, seeds, messages and crashes.          *)
(***************************************************************************)
EXTENDS Messaging, Gossip, FiniteSetTheorems, WellFoundedInduction, TLAPS

\* A leaf that names no prover is one for the SMT solver.
USE SMTT(60)

-----------------------------------------------------------------------------
(* Gossip.  The steps of one gossiper are functions of its record, so what *)
(* each of them keeps is a lemma about a record; then one lemma per action *)
(* of the system.                                                          *)

(* Every set of naturals that is not empty has a least element.            *)
LEMMA LeastNumber ==
  ASSUME NEW T \in SUBSET Nat, T # {}
  PROVE  \E x \in T : \A y \in T : x <= y
<1> DEFINE R == OpToRel(<, Nat)
<1>1. IsWellFoundedOn(R, Nat)
  BY NatLessThanWellFounded, ZenonT(60)
<1>2. \A x, y \in Nat : y < x => <<y, x>> \in R
  <2>1. R = {ss \in Nat \X Nat : ss[1] < ss[2]}
    BY ZenonT(60) DEF OpToRel
  <2> HIDE DEF R
  <2> QED BY <2>1
<1> HIDE DEF R
<1>3. PICK x \in T : \A y \in T : ~ (<<y, x>> \in R)
  BY <1>1, WFMin, ZenonT(60)
<1>4. \A y \in T : x <= y
  <2>1. \A y \in T : x \in Nat /\ y \in Nat /\ ~(y < x)
    BY <1>2, <1>3, ZenonT(60)
  <2> QED BY <2>1
<1> QED
  BY <1>4

(* A gossiper: the record it is, and the endpoints it counts as live or    *)
(* unreachable.                                                            *)
Fields == {"up", "enabled", "shadow", "eps", "live", "just_added", "unreachable", "pending",
           "samples", "removed", "seeds"}
Shape(g) == DOMAIN g = Fields /\ g = [f \in DOMAIN g |-> g[f]]
Apart(g) == g.live \cap g.unreachable = {} /\ g.live \cup g.unreachable \subseteq DOMAIN g.eps

(* States as they are received, and as they are held before a gossiper is  *)
(* enabled: alive, as that field is not serialized.                        *)
StateFields == {"gen", "ver", "app", "alive", "since", "whole"}
Received(st) == DOMAIN st = StateFields /\ st.alive = TRUE
Alive(eps) == \A e \in DOMAIN eps : Received(eps[e])
Fresh(g) == g.live = {} /\ g.unreachable = {} /\ Alive(g.eps)

(* What a step of an enabled gossiper keeps.                               *)
Like(h, g) == h.up = g.up /\ h.enabled = g.enabled /\ h.shadow = g.shadow
Sound(g) == Shape(g) /\ Apart(g) /\ IsFiniteSet(DOMAIN g.eps)

LEMMA MarkDead ==
  ASSUME NEW g, Sound(g), NEW e \in DOMAIN g.eps
  PROVE  Sound(mark_dead(g, e)) /\ Like(mark_dead(g, e), g)
<1> DEFINE h == mark_dead(g, e)
<1>1. Shape(h)
  BY ZenonT(60) DEF Sound, Shape, Fields, mark_dead
<1>2. /\ h.live = g.live \ {e} /\ h.unreachable = g.unreachable \cup {e} /\ DOMAIN h.eps = DOMAIN g.eps
      /\ h.up = g.up /\ h.enabled = g.enabled /\ h.shadow = g.shadow
  BY DEF Sound, Shape, Fields, mark_dead
<1> HIDE DEF h
<1>3. Apart(h)
  BY <1>2 DEF Sound, Apart
<1> QED
  BY <1>1, <1>2, <1>3 DEF Sound, Like, h

LEMMA MarkAsShutdown ==
  ASSUME NEW g, Sound(g), NEW e
  PROVE  Sound(mark_as_shutdown(g, e)) /\ Like(mark_as_shutdown(g, e), g)
<1>1. CASE e \in DOMAIN g.eps
  <2> DEFINE h == [g EXCEPT !.eps[e].ver = HighestVersion]
  <2>1. /\ Shape(h) /\ h.live = g.live /\ h.unreachable = g.unreachable /\ DOMAIN h.eps = DOMAIN g.eps
        /\ h.up = g.up /\ h.enabled = g.enabled /\ h.shadow = g.shadow
    BY DEF Sound, Shape, Fields
  <2>2. mark_as_shutdown(g, e) = mark_dead(h, e)
    BY <1>1, ZenonT(60) DEF mark_as_shutdown
  <2> HIDE DEF h
  <2>3. Sound(h) /\ e \in DOMAIN h.eps
    BY <1>1, <2>1 DEF Sound, Apart
  <2> QED BY <2>1, <2>2, <2>3, MarkDead DEF Like
<1>2. CASE e \notin DOMAIN g.eps
  BY <1>2 DEF mark_as_shutdown, Like
<1> QED
  BY <1>1, <1>2

LEMMA Convict ==
  ASSUME NEW g, Sound(g), NEW e
  PROVE  Sound(convict(g, e)) /\ Like(convict(g, e), g)
  BY MarkDead, MarkAsShutdown DEF convict, Like

LEMMA RealMarkAlive ==
  ASSUME NEW g, Sound(g), NEW e \in DOMAIN g.eps
  PROVE  Sound(real_mark_alive(g, e)) /\ Like(real_mark_alive(g, e), g)
<1> DEFINE h == real_mark_alive(g, e)
<1>1. Shape(h)
  BY ZenonT(60) DEF Sound, Shape, Fields, real_mark_alive
<1>2. /\ h.live = g.live \cup {e} /\ h.unreachable = g.unreachable \ {e} /\ DOMAIN h.eps = DOMAIN g.eps
      /\ h.up = g.up /\ h.enabled = g.enabled /\ h.shadow = g.shadow
  BY DEF Sound, Shape, Fields, real_mark_alive
<1> HIDE DEF h
<1>3. Apart(h)
  BY <1>2 DEF Sound, Apart
<1> QED
  BY <1>1, <1>2, <1>3 DEF Sound, Like, h

LEMMA MarkAlive ==
  ASSUME NEW g, Sound(g), NEW e
  PROVE  Sound(mark_alive(g, e)) /\ Like(mark_alive(g, e), g)
<1> DEFINE h == [g EXCEPT !.pending = @ \cup {e}, !.eps[e].alive = FALSE]
<1>1. /\ Shape(h) /\ h.live = g.live /\ h.unreachable = g.unreachable /\ DOMAIN h.eps = DOMAIN g.eps
      /\ h.up = g.up /\ h.enabled = g.enabled /\ h.shadow = g.shadow
  BY ZenonT(60) DEF Sound, Shape, Fields
<1>2. mark_alive(g, e) = IF e \in g.pending THEN g ELSE h
  BY ZenonT(60) DEF mark_alive
<1> HIDE DEF h
<1> QED
  BY <1>1, <1>2 DEF Sound, Like, Apart

LEMMA EchoDone ==
  ASSUME NEW g, Sound(g), NEW e, NEW answered \in BOOLEAN
  PROVE  Sound(echo_done(g, e, answered)) /\ Like(echo_done(g, e, answered), g)
<1> DEFINE h == IF answered /\ e \in DOMAIN g.eps THEN real_mark_alive(g, e) ELSE g
           i == [h EXCEPT !.pending = @ \ {e}]
<1>1. Sound(h) /\ Like(h, g)
  BY RealMarkAlive DEF Like
<1> HIDE DEF h
<1>2. /\ Shape(i) /\ i.live = h.live /\ i.unreachable = h.unreachable /\ i.eps = h.eps
      /\ i.up = h.up /\ i.enabled = h.enabled /\ i.shadow = h.shadow
  BY <1>1 DEF Sound, Shape, Fields
<1> HIDE DEF i
<1>3. Sound(i) /\ Like(i, g)
  BY <1>1, <1>2 DEF Sound, Like, Apart
<1> QED
  BY <1>3 DEF echo_done, i, h

LEMMA Evicted ==
  ASSUME NEW g, Sound(g), NEW n, NEW e
  PROVE  LET h == evict_from_membership(remove_endpoint(g, n, e), e)
         IN  Sound(h) /\ Like(h, g)
<1> DEFINE s == IF e \in g.seeds THEN [build_seeds_list(g, n) EXCEPT !.seeds = @ \ {e}] ELSE g
           h == remove_endpoint(g, n, e)
           i == evict_from_membership(h, e)
<1>1. /\ Shape(s) /\ s.live = g.live /\ s.unreachable = g.unreachable /\ s.eps = g.eps
      /\ s.up = g.up /\ s.enabled = g.enabled /\ s.shadow = g.shadow
  BY ZenonT(60) DEF Sound, Shape, Fields, build_seeds_list
<1> HIDE DEF s
<1>2. /\ Shape(h) /\ h.live = g.live \ {e} /\ h.unreachable = g.unreachable \ {e} /\ h.eps = g.eps
      /\ h.up = g.up /\ h.enabled = g.enabled /\ h.shadow = g.shadow
  <2>1. h = [s EXCEPT !.live = @ \ {e}, !.just_added = SelectSeq(@, LAMBDA x : x # e),
                 !.unreachable = @ \ {e}, !.removed = @ \cup {e}]
    BY ZenonT(60) DEF remove_endpoint, s
  <2> HIDE DEF h
  <2> QED BY <1>1, <2>1, ZenonT(60) DEF Shape, Fields
<1> HIDE DEF h
<1>3. /\ Shape(i) /\ i.live = h.live /\ i.unreachable = h.unreachable \ {e} /\ DOMAIN i.eps = DOMAIN h.eps \ {e}
      /\ i.up = h.up /\ i.enabled = h.enabled /\ i.shadow = h.shadow
  BY <1>2, ZenonT(60) DEF Shape, Fields, evict_from_membership, RestrictDomain, Restrict
<1> HIDE DEF i
<1>4. Sound(i) /\ Like(i, g)
  <2>1. IsFiniteSet(DOMAIN i.eps)
    BY <1>2, <1>3, FS_Subset DEF Sound
  <2> QED BY <1>2, <1>3, <2>1 DEF Sound, Like, Apart
<1> QED
  BY <1>4 DEF i, h

LEMMA CheckEndpoint ==
  ASSUME NEW g, Sound(g), NEW n, NEW e, NEW convicted, NEW silent
  PROVE  LET h == check_endpoint(g, n, e, convicted, silent)
         IN  Sound(h) /\ Like(h, g)
<1> DEFINE h == IF e \in convicted THEN convict(g, e) ELSE g
<1>1. Sound(h) /\ Like(h, g)
  BY Convict DEF Like
<1> HIDE DEF h
<1>2. LET i == evict_from_membership(remove_endpoint(h, n, e), e) IN Sound(i) /\ Like(i, g)
  BY <1>1, Evicted DEF Like
<1>3. check_endpoint(g, n, e, convicted, silent) \in {evict_from_membership(remove_endpoint(h, n, e), e), h}
  BY DEF check_endpoint, h
<1> QED
  BY <1>1, <1>2, <1>3

(* FoldSet is a function defined by recursion over the subsets of a set:   *)
(* for a finite one there is such a function.                              *)
LEMMA Sizes ==
  ASSUME NEW S, IsFiniteSet(S)
  PROVE  /\ Cardinality(S) \in Nat
         /\ \A s \in SUBSET S : Cardinality(s) \in Nat /\ Cardinality(s) <= Cardinality(S)
         /\ \A s \in SUBSET S : Cardinality(s) = 0 => s = {}
         /\ \A s \in SUBSET S : s # {} => LET x == CHOOSE y \in s : TRUE
                                          IN  x \in s /\ Cardinality(s \ {x}) = Cardinality(s) - 1
<1>1. Cardinality(S) \in Nat
  BY FS_CardinalityType
<1>2. ASSUME NEW s \in SUBSET S
      PROVE  /\ Cardinality(s) \in Nat /\ Cardinality(s) <= Cardinality(S)
             /\ Cardinality(s) = 0 => s = {}
             /\ s # {} => LET x == CHOOSE y \in s : TRUE
                          IN  x \in s /\ Cardinality(s \ {x}) = Cardinality(s) - 1
  <2>1. IsFiniteSet(s) /\ Cardinality(s) <= Cardinality(S)
    BY FS_Subset
  <2>2. Cardinality(s) \in Nat
    BY <2>1, FS_CardinalityType
  <2>3. Cardinality(s) = 0 => s = {}
    BY <2>1, FS_EmptySet
  <2>4. ASSUME NEW x \in s PROVE Cardinality(s \ {x}) = Cardinality(s) - 1
    BY <2>1, FS_RemoveElement
  <2> QED BY <2>1, <2>2, <2>3, <2>4, ZenonT(60)
<1> QED
  BY <1>1, <1>2, ZenonT(60)

Checked(iter, s, g, n, convicted, silent) ==
  IF s = {} THEN g
  ELSE check_endpoint(iter[s \ {CHOOSE y \in s : TRUE}], n, CHOOSE y \in s : TRUE, convicted, silent)
Folds(iter, S, g, n, convicted, silent) ==
  iter = [s \in SUBSET S |-> Checked(iter, s, g, n, convicted, silent)]

LEMMA FoldRecursion ==
  ASSUME NEW S, IsFiniteSet(S), NEW g, NEW n, NEW convicted, NEW silent
  PROVE  \E iter : Folds(iter, S, g, n, convicted, silent)
<1> DEFINE C(s) == Cardinality(s)
           X(s) == CHOOSE y \in s : TRUE
           Op(h, e) == check_endpoint(h, n, e, convicted, silent)
           Val(f, s) == IF s = {} THEN g ELSE Op(f[s \ {X(s)}], X(s))
           Good(k, f) == f = [s \in SUBSET S |-> f[s]] /\ \A s \in SUBSET S : C(s) <= k => f[s] = Val(f, s)
           Bad == {k \in Nat : ~ \E f : Good(k, f)}
<1>0. /\ C(S) \in Nat
      /\ \A s \in SUBSET S : C(s) \in Nat /\ C(s) <= C(S)
      /\ \A s \in SUBSET S : C(s) = 0 => s = {}
      /\ \A s \in SUBSET S : s # {} => C(s \ {X(s)}) = C(s) - 1
  BY Sizes, ZenonT(60)
<1> HIDE DEF C, X, Op
<1>1. \E f : Good(0, f)
  <2> DEFINE f == [s \in SUBSET S |-> g]
  <2>1. \A s \in SUBSET S : C(s) <= 0 => s = {}
    BY <1>0
  <2>2. f = [s \in SUBSET S |-> f[s]] /\ \A s \in SUBSET S : s = {} => f[s] = Val(f, s)
    OBVIOUS
  <2> HIDE DEF f
  <2> QED BY <2>1, <2>2, ZenonT(60)
<1>2. ASSUME NEW k \in Nat, NEW f, Good(k, f) PROVE \E h : Good(k + 1, h)
  <2> DEFINE h == [s \in SUBSET S |-> IF C(s) <= k THEN f[s] ELSE Val(f, s)]
  <2>1. h = [s \in SUBSET S |-> h[s]]
    OBVIOUS
  <2>2. ASSUME NEW s \in SUBSET S, C(s) <= k + 1 PROVE h[s] = Val(h, s)
    <3>1. CASE s = {}
      BY <3>1, <1>2, ZenonT(60)
    <3>2. CASE s # {}
      <4> DEFINE r == s \ {X(s)}
      <4>1. r \in SUBSET S /\ C(r) <= k
        BY <1>0, <2>2, <3>2
      <4>2. h[r] = f[r]
        <5> HIDE DEF r
        <5> QED BY <4>1
      <4>3. h[s] = Val(f, s)
        <5> HIDE DEF r
        <5>1. CASE C(s) <= k
          BY <1>2, <5>1, ZenonT(60)
        <5>2. CASE ~(C(s) <= k)
          BY <5>2
        <5> QED BY <5>1, <5>2
      <4> HIDE DEF h
      <4> QED BY <4>2, <4>3, <3>2
    <3> QED BY <3>1, <3>2
  <2> HIDE DEF h
  <2> QED BY <2>1, <2>2, ZenonT(60)
<1>3. Bad = {}
  <2> SUFFICES ASSUME Bad # {} PROVE FALSE
    BY ZenonT(60)
  <2>1. PICK k \in Bad : \A j \in Bad : k <= j
    <3>1. Bad \in SUBSET Nat
      OBVIOUS
    <3> HIDE DEF Bad
    <3> QED BY <3>1, LeastNumber
  <2>2. k \in Nat /\ ~ \E f : Good(k, f)
    BY <2>1, ZenonT(60)
  <2> HIDE DEF Good
  <2>3. CASE k = 0
    BY <2>2, <2>3, <1>1
  <2>4. CASE k # 0
    <3>1. k - 1 \in Nat /\ k - 1 \notin Bad
      <4> HIDE DEF Bad
      <4>1. k \in Nat
        BY <2>2
      <4> QED BY <2>1, <4>1, <2>4
    <3>2. PICK f : Good(k - 1, f)
      BY <3>1
    <3>3. \E h : Good((k - 1) + 1, h)
      BY <3>1, <3>2, <1>2
    <3>4. (k - 1) + 1 = k
      BY <2>2
    <3> QED BY <3>3, <3>4, <2>2
  <2> QED BY <2>3, <2>4
<1>4. PICK f : Good(C(S), f)
  <2> HIDE DEF Good
  <2> QED BY <1>0, <1>3
<1>5. f = [s \in SUBSET S |-> Val(f, s)]
  BY <1>4, <1>0, ZenonT(60)
<1>6. \A s \in SUBSET S : Val(f, s) = Checked(f, s, g, n, convicted, silent)
  BY ZenonT(60) DEF Checked, Val, Op, X
<1>7. f = [s \in SUBSET S |-> Checked(f, s, g, n, convicted, silent)]
  BY <1>5, <1>6, ZenonT(60)
<1> QED
  BY <1>7 DEF Folds

LEMMA StatusCheck ==
  ASSUME NEW g, Sound(g), NEW n, NEW convicted, NEW silent, NEW released
  PROVE  LET h == do_status_check(g, n, convicted, silent, released)
         IN  Sound(h) /\ Like(h, g)
<1> DEFINE S == DOMAIN g.eps \ {n}
           C(s) == Cardinality(s)
           X(s) == CHOOSE y \in s : TRUE
           iter == CHOOSE iter : iter = [s \in SUBSET S |-> Checked(iter, s, g, n, convicted, silent)]
           Good(s) == Sound(iter[s]) /\ Like(iter[s], g)
           Bad == {C(s) : s \in {t \in SUBSET S : ~Good(t)}}
           checked == iter[S]
<1>1. IsFiniteSet(S)
  BY FS_Subset DEF Sound
<1>2. iter = [s \in SUBSET S |-> Checked(iter, s, g, n, convicted, silent)]
  <2> HIDE DEF S
  <2>1. \E f : Folds(f, S, g, n, convicted, silent)
    BY <1>1, FoldRecursion
  <2>2. Folds(iter, S, g, n, convicted, silent)
    BY <2>1, ZenonT(60) DEF Folds
  <2> QED BY <2>2, ZenonT(60) DEF Folds
<1>3. do_status_check(g, n, convicted, silent, released) = [checked EXCEPT !.removed = @ \ released]
  BY ZenonT(60) DEF do_status_check, FoldSet, MapThenFoldSet, Checked
<1>0. /\ C(S) \in Nat
      /\ \A s \in SUBSET S : C(s) \in Nat
      /\ \A s \in SUBSET S : s # {} => X(s) \in s /\ C(s \ {X(s)}) = C(s) - 1
  BY <1>1, Sizes, ZenonT(60)
<1> HIDE DEF S, C, X, iter
<1>4. \A s \in SUBSET S : Good(s)
  <2> SUFFICES ASSUME NEW t \in SUBSET S, ~Good(t) PROVE FALSE
    OBVIOUS
  <2>1. Bad # {} /\ Bad \in SUBSET Nat
    <3> HIDE DEF Good
    <3> QED BY <1>0
  <2>2. PICK k \in Bad : \A j \in Bad : k <= j
    <3> HIDE DEF Bad
    <3> QED BY <2>1, LeastNumber
  <2>3. PICK s \in SUBSET S : ~Good(s) /\ k = C(s)
    <3> HIDE DEF Good
    <3> QED BY <2>2
  <2>4. s # {}
    BY <2>3, <1>2 DEF Like, Checked
  <2> DEFINE r == s \ {X(s)}
  <2>5. r \in SUBSET S /\ C(r) = C(s) - 1 /\ C(r) \in Nat /\ C(s) \in Nat
    BY <2>4, <1>0
  <2>6. Good(r)
    <3>1. C(r) \notin Bad
      <4> HIDE DEF Bad, r
      <4> QED BY <2>2, <2>3, <2>5
    <3> HIDE DEF Good, r
    <3> QED BY <3>1, <2>5
  <2>7. iter[s] = check_endpoint(iter[r], n, X(s), convicted, silent)
    <3>1. iter[s] = Checked(iter, s, g, n, convicted, silent)
      <4> HIDE DEF r
      <4> QED BY <1>2
    <3> QED BY <3>1, <2>4, ZenonT(60) DEF Checked, X
  <2> HIDE DEF r
  <2>8. Good(s)
    BY <2>6, <2>7, CheckEndpoint DEF Like
  <2> QED BY <2>8, <2>3
<1>5. Sound(checked) /\ Like(checked, g)
  BY <1>4
<1> HIDE DEF checked
<1> DEFINE h == [checked EXCEPT !.removed = @ \ released]
<1>6. /\ Shape(h) /\ h.live = checked.live /\ h.unreachable = checked.unreachable /\ h.eps = checked.eps
      /\ h.up = checked.up /\ h.enabled = checked.enabled /\ h.shadow = checked.shadow
  BY <1>5 DEF Sound, Shape, Fields
<1> HIDE DEF h
<1>7. Sound(h) /\ Like(h, g)
  BY <1>5, <1>6 DEF Sound, Like, Apart
<1> QED
  BY <1>3, <1>7 DEF h

LEMMA AfterMajorChange ==
  ASSUME NEW g, Sound(g), NEW e
  PROVE  Sound(after_major_change(g, e)) /\ Like(after_major_change(g, e), g)
  BY MarkAsShutdown DEF after_major_change, Like

(* The endpoint becomes one of the map: its state is replaced or added.    *)
Replaces(h, g, e, st) == h = [g EXCEPT !.eps = With(@, e, st)]

LEMMA Replaced ==
  ASSUME NEW g, Sound(g), NEW e, NEW st, NEW h, Replaces(h, g, e, st)
  PROVE  /\ Sound(h) /\ Like(h, g) /\ h.eps = With(g.eps, e, st) /\ e \in DOMAIN h.eps
         /\ h.live = g.live /\ h.unreachable = g.unreachable
<1>1. /\ Shape(h) /\ h.live = g.live /\ h.unreachable = g.unreachable /\ h.eps = With(g.eps, e, st)
      /\ h.up = g.up /\ h.enabled = g.enabled /\ h.shadow = g.shadow
  BY DEF Replaces, Sound, Shape, Fields
<1>2. DOMAIN h.eps = DOMAIN g.eps \cup {e}
  BY <1>1 DEF With
<1>3. IsFiniteSet(DOMAIN h.eps)
  BY <1>2, FS_AddElement DEF Sound
<1> QED
  BY <1>1, <1>2, <1>3 DEF Sound, Like, Apart

LEMMA MajorChange ==
  ASSUME NEW g, Sound(g), NEW e, NEW r
  PROVE  LET a == handle_major_state_change(g, e, r)
         IN  Sound(a.g) /\ Like(a.g, g)
<1> DEFINE st == [r EXCEPT !.whole = @ /\ r.since = 0, !.since = 0]
           h == [g EXCEPT !.eps = With(@, e, st)]
           d == Done(mark_dead(h, e))
           s == start_mark_alive(h, e)
           a == IF is_dead_state(r) THEN d ELSE s
           b == Done(after_major_change(a.g, e))
<1> HIDE DEF st
<1>1. Sound(h) /\ Like(h, g) /\ e \in DOMAIN h.eps
  <2>1. Replaces(h, g, e, st)
    BY DEF Replaces
  <2> HIDE DEF h
  <2> QED BY <2>1, Replaced
<1> HIDE DEF h
<1>2. Sound(d.g) /\ Like(d.g, g)
  BY <1>1, MarkDead DEF Like, Done
<1>3. Sound(s.g) /\ Like(s.g, g)
  BY <1>1, MarkAlive DEF Like, start_mark_alive
<1> HIDE DEF d, s
<1>4. Sound(a.g) /\ Like(a.g, g)
  BY <1>2, <1>3
<1> HIDE DEF a
<1>5. Sound(b.g) /\ Like(b.g, g)
  BY <1>4, AfterMajorChange DEF Like, Done
<1>6. Sound(Done(h).g) /\ Like(Done(h).g, g)
  BY <1>1 DEF Done
<1> HIDE DEF b
<1>7. handle_major_state_change(g, e, r) = IF g.shadow THEN Done(h) ELSE IF a.waits THEN a ELSE b
  BY ZenonT(60) DEF handle_major_state_change, st, h, a, b, d, s
<1> QED
  BY <1>4, <1>5, <1>6, <1>7

(* In a shadow round an endpoint's state is only stored.                   *)
LEMMA ShadowChange ==
  ASSUME NEW g, Sound(g), Fresh(g), g.shadow = TRUE, NEW e, NEW r, Received(r)
  PROVE  LET a == handle_major_state_change(g, e, r)
         IN  Sound(a.g) /\ Like(a.g, g) /\ Fresh(a.g) /\ a.waits = FALSE
<1> DEFINE st == [r EXCEPT !.whole = @ /\ r.since = 0, !.since = 0]
           h == [g EXCEPT !.eps = With(@, e, st)]
<1>1. Received(st)
  BY DEF Received, StateFields
<1> HIDE DEF st
<1>2. Sound(h) /\ Like(h, g) /\ h.eps = With(g.eps, e, st) /\ h.live = g.live /\ h.unreachable = g.unreachable
  <2>1. Replaces(h, g, e, st)
    BY DEF Replaces
  <2> HIDE DEF h
  <2> QED BY <2>1, Replaced
<1> HIDE DEF h
<1>3. Fresh(h)
  BY <1>1, <1>2 DEF Fresh, Alive, With
<1>4. handle_major_state_change(g, e, r) = Done(h)
  BY ZenonT(60) DEF handle_major_state_change, h, st
<1> QED
  BY <1>2, <1>3, <1>4 DEF Done

(* What holds of every gossiper.  Before it is enabled it has marked no    *)
(* endpoint, so that start_gossiping may replace its map.                  *)
Steady(g) == /\ Sound(g) /\ g.enabled \in BOOLEAN /\ g.shadow \in BOOLEAN
             /\ g.enabled => ~g.shadow
             /\ ~g.enabled => Fresh(g)

LEMMA Merged ==
  ASSUME NEW g, Sound(g), NEW e \in DOMAIN g.eps, NEW r
  PROVE  LET h == [g EXCEPT !.eps[e] = apply_new_states(@, r)]
         IN  Sound(h) /\ Like(h, g) /\ (Fresh(g) => Fresh(h))
<1> DEFINE st == apply_new_states(g.eps[e], r)
           h == [g EXCEPT !.eps[e] = apply_new_states(@, r)]
<1>1. /\ Shape(h) /\ h.live = g.live /\ h.unreachable = g.unreachable /\ h.eps = [g.eps EXCEPT ![e] = st]
      /\ h.up = g.up /\ h.enabled = g.enabled /\ h.shadow = g.shadow
  <2>1. h = [g EXCEPT !.eps = [g.eps EXCEPT ![e] = st]]
    BY ZenonT(60)
  <2> HIDE DEF h, st
  <2> QED BY <2>1 DEF Sound, Shape, Fields
<1>2. Received(g.eps[e]) => Received(st)
  BY DEF Received, StateFields, apply_new_states
<1> HIDE DEF h, st
<1>3. DOMAIN h.eps = DOMAIN g.eps
  BY <1>1
<1>4. Alive(g.eps) => Alive(h.eps)
  BY <1>1, <1>2 DEF Alive
<1>5. Sound(h) /\ Like(h, g) /\ (Fresh(g) => Fresh(h))
  BY <1>1, <1>3, <1>4 DEF Sound, Like, Apart, Fresh
<1> QED
  BY <1>5 DEF h

LEMMA ApplyEntry ==
  ASSUME NEW g, Steady(g), g.enabled \/ g.shadow, NEW n, NEW e, NEW r, Received(r)
  PROVE  LET a == apply_entry(g, n, e, r)
         IN  Steady(a.g) /\ Like(a.g, g) /\ (a.waits => g.enabled)
<1> DEFINE loc == g.eps[e]
           up == [g EXCEPT !.eps[e] = apply_new_states(@, r)]
           merged == IF get_max_endpoint_state_version(r) > get_max_endpoint_state_version(loc) THEN up ELSE g
           seen == [g EXCEPT !.samples = @ \cup {e}]
           new == handle_major_state_change(seen, e, r)
           major == handle_major_state_change(g, e, r)
           woken == start_mark_alive(merged, e)
           a == apply_entry(g, n, e, r)
           Right(x) == Sound(x.g) /\ Like(x.g, g) /\ (g.enabled \/ (Fresh(x.g) /\ x.waits = FALSE))
<1>1. Sound(g) /\ (g.enabled \/ (Fresh(g) /\ g.shadow = TRUE)) /\ Like(g, g)
  BY DEF Steady, Like
<1>2. a = IF (e = n /\ ~g.shadow) \/ e \in g.removed THEN Done(g)
          ELSE IF e \notin DOMAIN g.eps THEN new
          ELSE IF loc.gen # 0 /\ r.gen > loc.gen + MAX_GENERATION_DIFFERENCE THEN Done(g)
          ELSE IF r.gen > loc.gen THEN major
          ELSE IF r.gen < loc.gen THEN Done(g)
          ELSE IF ~merged.eps[e].alive /\ ~is_dead_state(merged.eps[e]) THEN woken
          ELSE Done(merged)
  BY ZenonT(60) DEF apply_entry
<1> HIDE DEF a
<1>3. Right(Done(g))
  BY <1>1 DEF Done
<1>4. Right(major)
  BY <1>1, MajorChange, ShadowChange, ZenonT(60)
<1>5. Right(new)
  <2>1. /\ Shape(seen) /\ seen.live = g.live /\ seen.unreachable = g.unreachable /\ seen.eps = g.eps
        /\ seen.up = g.up /\ seen.enabled = g.enabled /\ seen.shadow = g.shadow
    BY <1>1 DEF Sound, Shape, Fields
  <2> HIDE DEF seen
  <2>2. Sound(seen) /\ Like(seen, g) /\ (Fresh(g) => Fresh(seen))
    BY <1>1, <2>1 DEF Sound, Like, Apart, Fresh
  <2>3. Sound(new.g) /\ Like(new.g, seen) /\ (Fresh(seen) /\ seen.shadow = TRUE => Fresh(new.g) /\ new.waits = FALSE)
    BY <2>2, MajorChange, ShadowChange, ZenonT(60)
  <2> HIDE DEF new
  <2> QED BY <1>1, <2>1, <2>2, <2>3 DEF Like
<1>6. ASSUME e \in DOMAIN g.eps PROVE Right(a)
  <2>1. Sound(merged) /\ Like(merged, g) /\ (Fresh(g) => Fresh(merged)) /\ e \in DOMAIN merged.eps
    <3>1. Sound(up) /\ Like(up, g) /\ (Fresh(g) => Fresh(up))
      BY <1>1, <1>6, Merged
    <3>2. DOMAIN up.eps = DOMAIN g.eps
      BY <1>1 DEF Sound, Shape, Fields
    <3> HIDE DEF up
    <3> QED BY <1>1, <3>1, <3>2, <1>6
  <2> HIDE DEF merged
  <2>2. Right(Done(merged))
    BY <1>1, <2>1 DEF Done
  <2>3. ~merged.eps[e].alive => Right(woken)
    <3>1. Sound(woken.g) /\ Like(woken.g, g)
      BY <2>1, MarkAlive DEF start_mark_alive, Like
    <3>2. Fresh(merged) => merged.eps[e].alive
      BY <2>1 DEF Fresh, Alive, Received
    <3> QED BY <1>1, <2>1, <3>1, <3>2
  <2> HIDE DEF Right, new, major, woken
  <2> QED BY <1>2, <1>3, <1>4, <1>5, <1>6, <2>2, <2>3
<1>7. ASSUME e \notin DOMAIN g.eps PROVE Right(a)
  <2> HIDE DEF Right, new, major, woken, merged
  <2> QED BY <1>2, <1>3, <1>5, <1>7
<1>8. Right(a)
  BY <1>6, <1>7, ZenonT(60)
<1>9. Steady(a.g) /\ Like(a.g, g) /\ (a.waits => g.enabled)
  BY <1>8 DEF Steady, Like
<1> QED
  BY <1>9 DEF a

(* The inductive invariant.  A fiber that runs belongs to a gossiper that  *)
(* is enabled or in its shadow round, and one that waits for an echo to an *)
(* enabled one; states on their way are alive.                             *)
FiberFields == {"node", "todo", "echo", "major", "to", "req", "acks"}
Owned(f, g) == (Runs(f) => g.enabled \/ g.shadow) /\ (f.echo # None => g.enabled)
Fed(f) == DOMAIN f = FiberFields /\ Alive(f.todo) /\ (f.node \in Nodes => Owned(f, gossiper[f.node]))
Gossipers == gossiper = [n \in Nodes |-> gossiper[n]] /\ \A n \in Nodes : Steady(gossiper[n])
GossipInv == Gossipers /\ (\A f \in fibers : Fed(f)) /\ (\A m \in net : Alive(m.states))

Becomes(n, h) == gossiper' = [gossiper EXCEPT ![n] = h]

LEMMA GossipersKeep ==
  ASSUME Gossipers, NEW n, NEW h, n \in Nodes => Steady(h), Becomes(n, h)
  PROVE  Gossipers' /\ \A k \in Nodes : gossiper'[k] = IF k = n THEN h ELSE gossiper[k]
<1>1. \A k \in Nodes : gossiper'[k] = IF k = n THEN h ELSE gossiper[k]
  BY DEF Gossipers, Becomes
<1>2. gossiper' = [k \in Nodes |-> gossiper'[k]]
  BY DEF Gossipers, Becomes
<1> QED
  BY <1>1, <1>2 DEF Gossipers

(* A step of one gossiper that keeps what its fibers need.                 *)
LEMMA OneGossiper ==
  ASSUME GossipInv, NEW n, NEW h, gossiper' = [gossiper EXCEPT ![n] = h],
         n \in Nodes => /\ Steady(h)
                        /\ h.enabled = gossiper[n].enabled \/ h.enabled
                        /\ h.shadow = gossiper[n].shadow \/ h.shadow
  PROVE  Gossipers' /\ \A f \in fibers : Fed(f)'
<1>1. Gossipers' /\ \A k \in Nodes : gossiper'[k] = IF k = n THEN h ELSE gossiper[k]
  BY GossipersKeep, ZenonT(60) DEF GossipInv, Becomes
<1>2. ASSUME NEW f \in fibers PROVE Fed(f)'
  <2>1. Fed(f)
    BY DEF GossipInv
  <2>2. f.node \in Nodes => Owned(f, gossiper'[f.node])
    BY <1>1, <2>1 DEF Fed, Owned
  <2> QED BY <2>1, <2>2 DEF Fed, Owned, Runs
<1> QED
  BY <1>1, <1>2

LEMMA DownSteady == Steady(Down)
<1>1. Shape(Down) /\ Down.live = {} /\ Down.unreachable = {} /\ Down.enabled = FALSE /\ Down.shadow = FALSE
  BY ZenonT(60) DEF Down, Shape, Fields
<1>2. DOMAIN Down.eps = {}
  BY DEF Down, NoStates
<1> QED
  BY <1>1, <1>2, FS_EmptySet, ZenonT(60) DEF Steady, Sound, Apart, Fresh, Alive

LEMMA GossipStarts ==
  ASSUME Init PROVE GossipInv
<1> HIDE DEF Down
<1> QED
  BY DownSteady DEF Init, GossipInv, Gossipers

LEMMA NoStatesAlive == Alive(NoStates)
  BY DEF Alive, NoStates

(* Processes that start, enter the shadow round and become members.        *)
LEMMA StartKeeps ==
  ASSUME GossipInv, NEW n \in Nodes, start(n) \/ do_shadow_round(n) \/ start_gossiping(n)
  PROVE  GossipInv'
<1> DEFINE g == gossiper[n]
<1>0. Steady(g) /\ gossiper = [k \in Nodes |-> gossiper[k]]
  BY DEF GossipInv, Gossipers
<1>1. CASE start(n)
  <2> DEFINE h == [g EXCEPT !.up = TRUE]
  <2>1. gossiper' = [gossiper EXCEPT ![n] = h]
    BY <1>1 DEF start
  <2> HIDE DEF g
  <2>2. /\ Shape(h) /\ h.live = g.live /\ h.unreachable = g.unreachable /\ h.eps = g.eps
        /\ h.enabled = g.enabled /\ h.shadow = g.shadow
    BY <1>0, ZenonT(60) DEF Steady, Sound, Shape, Fields
  <2> HIDE DEF h
  <2>3. Steady(h)
    BY <1>0, <2>2 DEF Steady, Sound, Apart, Fresh
  <2>4. Gossipers' /\ \A f \in fibers : Fed(f)'
    BY <2>1, <2>2, <2>3, OneGossiper, ZenonT(60) DEF g
  <2> QED BY <1>1, <2>4 DEF start, GossipInv
<1>2. CASE do_shadow_round(n)
  <2> DEFINE h == [build_seeds_list(g, n) EXCEPT !.shadow = TRUE]
             syns == {Message("syn", n, e, NoStates, NoStates) : e \in h.seeds}
  <2>1. gossiper' = [gossiper EXCEPT ![n] = h] /\ net' = net \cup syns /\ fibers' = fibers /\ ~g.enabled
    BY <1>2 DEF do_shadow_round
  <2> HIDE DEF g
  <2>2. /\ Shape(h) /\ h.live = g.live /\ h.unreachable = g.unreachable /\ h.eps = g.eps
        /\ h.enabled = g.enabled /\ h.shadow = TRUE
    BY <1>0, ZenonT(60) DEF Steady, Sound, Shape, Fields, build_seeds_list
  <2> HIDE DEF h
  <2>3. Steady(h)
    BY <1>0, <2>1, <2>2, ZenonT(60) DEF Steady, Sound, Apart, Fresh
  <2>4. Gossipers' /\ \A f \in fibers : Fed(f)'
    BY <2>1, <2>2, <2>3, OneGossiper, ZenonT(60) DEF g
  <2>5. \A m \in syns : Alive(m.states)
    BY NoStatesAlive DEF Message
  <2> HIDE DEF syns
  <2> QED BY <2>1, <2>4, <2>5 DEF GossipInv
<1>3. CASE start_gossiping(n)
  <2> DEFINE st == EndpointState(generation[n], 0, NoApp, 0)
             h == [build_seeds_list(g, n) EXCEPT !.enabled = TRUE, !.eps = [e \in {n} |-> st]]
  <2>1. gossiper' = [gossiper EXCEPT ![n] = h] /\ net' = net /\ fibers' = fibers /\ ~g.enabled /\ ~g.shadow
    BY <1>3 DEF start_gossiping
  <2> HIDE DEF g, st
  <2>2. /\ Shape(h) /\ h.live = g.live /\ h.unreachable = g.unreachable /\ DOMAIN h.eps = {n}
        /\ h.enabled = TRUE /\ h.shadow = g.shadow
    BY <1>0, ZenonT(60) DEF Steady, Sound, Shape, Fields, build_seeds_list
  <2> HIDE DEF h
  <2>3. IsFiniteSet({n})
    BY FS_Singleton, ZenonT(60)
  <2>4. Steady(h)
    BY <1>0, <2>1, <2>2, <2>3, ZenonT(60) DEF Steady, Sound, Apart, Fresh
  <2>5. Gossipers' /\ \A f \in fibers : Fed(f)'
    BY <2>1, <2>2, <2>4, OneGossiper, ZenonT(60) DEF g
  <2> QED BY <2>1, <2>5 DEF GossipInv
<1> QED
  BY <1>1, <1>2, <1>3

LEMMA RunKeeps ==
  ASSUME GossipInv, NEW n \in Nodes, run(n)
  PROVE  GossipInv'
<1> DEFINE g0 == gossiper[n]
           g == [g0 EXCEPT !.eps[n].ver = version[n] + 1]
           sent == [g EXCEPT !.just_added = IF g.live # {} /\ @ # <<>> THEN Tail(@) ELSE @]
<1>0. Steady(g0) /\ g0.enabled /\ fibers' = fibers
  BY DEF GossipInv, Gossipers, run, Enabled
<1>1. PICK convicted, silent, released :
        gossiper' = [gossiper EXCEPT ![n] = do_status_check(sent, n, convicted, silent, released)]
  BY ZenonT(60) DEF run
<1>2. \A m \in net' : m \in net \/ m.states = NoStates
  <2> DEFINE d == make_random_gossip_digest(g)
  <2>1. PICK to_live, to_unreachable, to_seed :
          net' = net \cup {Message("syn", n, e, d, NoStates) : e \in to_live \cup to_unreachable \cup to_seed}
    BY ZenonT(60) DEF run
  <2> HIDE DEF d
  <2>2. \A e : Message("syn", n, e, d, NoStates).states = NoStates
    BY DEF Message
  <2> QED BY <2>1, <2>2
<1> HIDE DEF g0
<1>3. /\ Shape(g) /\ g.live = g0.live /\ g.unreachable = g0.unreachable /\ DOMAIN g.eps = DOMAIN g0.eps
      /\ g.up = g0.up /\ g.enabled = g0.enabled /\ g.shadow = g0.shadow
  BY <1>0, ZenonT(60) DEF Steady, Sound, Shape, Fields
<1> HIDE DEF g
<1>4. /\ Shape(sent) /\ sent.live = g.live /\ sent.unreachable = g.unreachable /\ sent.eps = g.eps
      /\ sent.up = g.up /\ sent.enabled = g.enabled /\ sent.shadow = g.shadow
  BY <1>3 DEF Shape, Fields
<1> HIDE DEF sent
<1>5. Sound(sent) /\ Like(sent, g0)
  BY <1>0, <1>3, <1>4 DEF Steady, Sound, Apart, Like
<1> DEFINE h == do_status_check(sent, n, convicted, silent, released)
<1>6. Sound(h) /\ Like(h, sent)
  BY <1>5, StatusCheck
<1> HIDE DEF h
<1>7. Steady(h) /\ h.enabled = g0.enabled /\ h.shadow = g0.shadow
  BY <1>0, <1>5, <1>6 DEF Steady, Like
<1>8. Gossipers' /\ \A f \in fibers : Fed(f)'
  BY <1>1, <1>7, OneGossiper, ZenonT(60) DEF g0, h
<1> QED
  BY <1>0, <1>2, <1>8, NoStatesAlive DEF GossipInv

(* What is sent of the map is alive.                                       *)
LEMMA SentAlive ==
  ASSUME NEW g, NEW e, NEW v
  PROVE  Received(get_state_for_version_bigger_than(g, e, v))
  BY DEF Received, StateFields, get_state_for_version_bigger_than, EndpointState

LEMMA AnswerAlive ==
  ASSUME NEW g, NEW syn
  PROVE  Alive(examine_gossiper(g, syn).states)
<1>1. \E send, since : examine_gossiper(g, syn).states =
                         [e \in send |-> get_state_for_version_bigger_than(g, e, since[e])]
  <2> DEFINE digests == IF DOMAIN syn = {} THEN [e \in DOMAIN g.eps |-> [gen |-> 0, ver |-> 0]] ELSE syn
             held(e) == e \in DOMAIN g.eps
             maxv(e) == get_max_endpoint_state_version(g.eps[e])
             all(e) == ~held(e) \/ digests[e].gen > g.eps[e].gen
             ask == {e \in DOMAIN digests : all(e) \/ (digests[e].gen = g.eps[e].gen /\ digests[e].ver > maxv(e))}
             since(e) == IF digests[e].gen < g.eps[e].gen THEN 0 ELSE digests[e].ver
             send == {e \in DOMAIN digests \ ask : has_state_bigger_than(g, e, since(e))}
             ds == [e \in ask |-> [gen |-> digests[e].gen, ver |-> IF all(e) THEN 0 ELSE maxv(e)]]
             ss == [e \in send |-> get_state_for_version_bigger_than(g, e, since(e))]
             table == [e \in send |-> since(e)]
  <2>1. examine_gossiper(g, syn) = [digests |-> ds, states |-> ss]
    BY ZenonT(60) DEF examine_gossiper
  <2> HIDE DEF ds, send, since
  <2>2. ss = [e \in send |-> get_state_for_version_bigger_than(g, e, table[e])]
    OBVIOUS
  <2> HIDE DEF ss, table
  <2> QED BY <2>1, <2>2
<1> QED
  BY <1>1, SentAlive DEF Alive

LEMMA Notified ==
  ASSUME NEW g, Steady(g), NEW states
  PROVE  LET h == notify_failure_detector(g, states)
         IN  Steady(h) /\ h.enabled = g.enabled /\ h.shadow = g.shadow
<1> DEFINE h == notify_failure_detector(g, states)
<1>1. PICK S : h = [g EXCEPT !.samples = @ \cup S]
  BY ZenonT(60) DEF notify_failure_detector
<1> HIDE DEF h
<1>2. /\ Shape(h) /\ h.live = g.live /\ h.unreachable = g.unreachable /\ h.eps = g.eps
      /\ h.enabled = g.enabled /\ h.shadow = g.shadow
  BY <1>1, ZenonT(60) DEF Steady, Sound, Shape, Fields
<1>3. Steady(h)
  BY <1>2 DEF Steady, Sound, Apart, Fresh
<1> QED
  BY <1>2, <1>3 DEF h

LEMMA NewFiber ==
  ASSUME NEW n, NEW todo, Alive(todo), NEW to, NEW req, NEW acks,
         n \in Nodes => gossiper[n].enabled \/ gossiper[n].shadow
  PROVE  Fed(Fiber(n, todo, to, req, acks))
<1> DEFINE f == Fiber(n, todo, to, req, acks)
<1>1. DOMAIN f = FiberFields /\ f.todo = todo /\ f.node = n /\ f.echo = None
  BY ZenonT(60) DEF Fiber, FiberFields
<1> HIDE DEF f
<1>2. Fed(f)
  BY <1>1 DEF Fed, Owned
<1> QED
  BY <1>2 DEF f

LEMMA FiberStarts ==
  ASSUME Gossipers, \A f \in fibers : Fed(f), NEW n, NEW states, NEW fib, Fed(fib),
         Becomes(n, notify_failure_detector(gossiper[n], states)), fibers' \subseteq fibers \cup {fib}
  PROVE  Gossipers' /\ \A f \in fibers' : Fed(f)'
<1> DEFINE g == gossiper[n]
           h == notify_failure_detector(g, states)
<1>1. n \in Nodes => Steady(h) /\ h.enabled = g.enabled /\ h.shadow = g.shadow
  BY Notified DEF Gossipers
<1>2. Becomes(n, h)
  BY ZenonT(60)
<1> HIDE DEF h
<1>3. Gossipers' /\ \A k \in Nodes : gossiper'[k] = IF k = n THEN h ELSE gossiper[k]
  BY <1>1, <1>2, GossipersKeep
<1>4. \A k \in Nodes : gossiper'[k].enabled = gossiper[k].enabled /\ gossiper'[k].shadow = gossiper[k].shadow
  BY <1>1, <1>3
<1>5. ASSUME NEW f \in fibers' PROVE Fed(f)'
  <2>1. Fed(f)
    OBVIOUS
  <2> QED BY <2>1, <1>4 DEF Fed, Owned, Runs
<1> QED
  BY <1>3, <1>5

LEMMA HandleKeeps ==
  ASSUME GossipInv, NEW m \in net, Handle(m)
  PROVE  GossipInv'
<1> DEFINE n == m.to
           g == gossiper[n]
<1>0. /\ n \in Nodes => Steady(g)
      /\ Alive(m.states)
      /\ \A f \in fibers : Fed(f)
      /\ \A k \in net : Alive(k.states)
      /\ Gossipers
  BY DEF GossipInv, Gossipers
<1>1. CASE net' = net \ {m} /\ UNCHANGED <<gossiper, fibers>>
  BY <1>1, <1>0 DEF GossipInv, Gossipers, Fed
<1>2. ASSUME Ignore(m) PROVE GossipInv'
  BY <1>1, <1>2 DEF Ignore
<1>3. CASE handle_syn_msg(m)
  <2> DEFINE ack == examine_gossiper(g, m.digests)
             msg == Message("ack", n, m.from, ack.digests, ack.states)
  <2>1. CASE net' = (net \ {m}) \cup {msg} /\ UNCHANGED <<gossiper, fibers>>
    <3>1. msg.states = ack.states
      BY DEF Message
    <3>2. Alive(ack.states)
      BY AnswerAlive
    <3> HIDE DEF msg, ack, g, n
    <3>3. Alive(msg.states)
      BY <3>1, <3>2
    <3> QED BY <1>0, <2>1, <3>3 DEF GossipInv, Gossipers, Fed
  <2>2. Ignore(m) \/ (net' = (net \ {m}) \cup {msg} /\ UNCHANGED <<gossiper, fibers>>)
    BY <1>3 DEF handle_syn_msg
  <2> QED BY <1>2, <2>1, <2>2
<1>4. CASE handle_ack_msg(m)
  <2> DEFINE h == notify_failure_detector(g, m.states)
             fib == Fiber(n, m.states, m.from, m.digests, TRUE)
  <2>1. CASE /\ g.enabled \/ g.shadow
             /\ net' = net \ {m} /\ gossiper' = [gossiper EXCEPT ![n] = h] /\ fibers' = fibers \cup {fib}
    <3>1. Fed(fib)
      BY <1>0, <2>1, NewFiber, ZenonT(60)
    <3>2. Becomes(n, h)
      BY <2>1 DEF Becomes
    <3> HIDE DEF fib
    <3>3. Gossipers' /\ \A f \in fibers' : Fed(f)'
      BY <1>0, <2>1, <3>1, <3>2, FiberStarts, ZenonT(60)
    <3> QED BY <1>0, <2>1, <3>3 DEF GossipInv
  <2>2. Ignore(m) \/ (/\ g.enabled \/ g.shadow
                      /\ net' = net \ {m} /\ gossiper' = [gossiper EXCEPT ![n] = h] /\ fibers' = fibers \cup {fib})
    BY <1>4, ZenonT(60) DEF handle_ack_msg
  <2> QED BY <1>2, <2>1, <2>2, ZenonT(60)
<1>5. CASE handle_ack2_msg(m)
  <2> DEFINE h == notify_failure_detector(g, m.states)
             fib == Fiber(n, m.states, m.from, NoStates, FALSE)
  <2>1. CASE /\ g.enabled
             /\ net' = net \ {m} /\ gossiper' = [gossiper EXCEPT ![n] = h] /\ fibers' \subseteq fibers \cup {fib}
    <3>1. Fed(fib)
      BY <1>0, <2>1, NewFiber, ZenonT(60)
    <3>2. Becomes(n, h)
      BY <2>1 DEF Becomes
    <3> HIDE DEF fib
    <3>3. Gossipers' /\ \A f \in fibers' : Fed(f)'
      BY <1>0, <2>1, <3>1, <3>2, FiberStarts, ZenonT(60)
    <3> QED BY <1>0, <2>1, <3>3 DEF GossipInv
  <2>2. Ignore(m) \/ (/\ g.enabled
                      /\ net' = net \ {m} /\ gossiper' = [gossiper EXCEPT ![n] = h] /\ fibers' \subseteq fibers \cup {fib})
    <3>1. Ignore(m) \/ (/\ g.enabled /\ net' = net \ {m}
                        /\ gossiper' = [gossiper EXCEPT ![n] = notify_failure_detector(@, m.states)]
                        /\ fibers' = fibers \cup {fib : e \in DOMAIN m.states})
      BY <1>5, ZenonT(60) DEF handle_ack2_msg
    <3>2. fibers \cup {fib : e \in DOMAIN m.states} \subseteq fibers \cup {fib}
      <4> HIDE DEF fib
      <4> QED OBVIOUS
    <3> HIDE DEF fib
    <3> QED BY <3>1, <3>2
  <2> QED BY <1>2, <2>1, <2>2, ZenonT(60)
<1>6. CASE handle_shutdown_msg(m)
  <2> DEFINE h == mark_as_shutdown(g, m.from)
  <2>1. CASE /\ g.enabled /\ net' = net \ {m} /\ gossiper' = [gossiper EXCEPT ![n] = h] /\ fibers' = fibers
    <3>1. n \in Nodes => Sound(h) /\ Like(h, g)
      BY <1>0, MarkAsShutdown DEF Steady
    <3> HIDE DEF h
    <3>2. n \in Nodes => Steady(h) /\ h.enabled = g.enabled /\ h.shadow = g.shadow
      BY <1>0, <2>1, <3>1, ZenonT(60) DEF Steady, Like
    <3>3. Gossipers' /\ \A f \in fibers : Fed(f)'
      BY <2>1, <3>2, OneGossiper, ZenonT(60)
    <3> QED BY <1>0, <2>1, <3>3 DEF GossipInv
  <2>2. Ignore(m) \/ (/\ g.enabled /\ net' = net \ {m} /\ gossiper' = [gossiper EXCEPT ![n] = h] /\ fibers' = fibers)
    BY <1>6 DEF handle_shutdown_msg
  <2> QED BY <1>2, <2>1, <2>2
<1> QED
  BY <1>3, <1>4, <1>5, <1>6 DEF Handle

(* A fiber goes on with less to do.                                        *)
LEMMA GoesOn ==
  ASSUME Gossipers, \A f \in fibers : Fed(f), NEW f \in fibers, NEW h, NEW f2,
         gossiper' = [gossiper EXCEPT ![f.node] = h],
         f.node \in Nodes => Steady(h) /\ h.enabled = gossiper[f.node].enabled /\ h.shadow = gossiper[f.node].shadow,
         DOMAIN f2 = FiberFields, f2.node = f.node, Alive(f2.todo),
         f.node \in Nodes => Owned(f2, gossiper[f.node]),
         GoOn(f, f2)
  PROVE  Gossipers' /\ \A k \in fibers' : Fed(k)'
<1>0. Becomes(f.node, h)
  BY DEF Becomes
<1>1. Gossipers' /\ \A k \in Nodes : gossiper'[k] = IF k = f.node THEN h ELSE gossiper[k]
  BY <1>0, GossipersKeep
<1>2. \A k \in Nodes : gossiper'[k].enabled = gossiper[k].enabled /\ gossiper'[k].shadow = gossiper[k].shadow
  BY <1>1
<1>3. ASSUME NEW k \in fibers' PROVE Fed(k)'
  <2>1. Fed(k)
    <3>1. k \in fibers \/ k = f2
      BY DEF GoOn
    <3>2. Fed(f2)
      BY DEF Fed
    <3> QED BY <3>1, <3>2
  <2> QED BY <2>1, <1>2 DEF Fed, Owned, Runs
<1> QED
  BY <1>1, <1>3

LEMMA StepKeeps ==
  ASSUME GossipInv, NEW f \in fibers, Step(f)
  PROVE  GossipInv'
<1> DEFINE n == f.node
           g == gossiper[n]
<1>0. /\ n \in Nodes => Steady(g) /\ Owned(f, g)
      /\ DOMAIN f = FiberFields /\ Alive(f.todo)
      /\ \A k \in fibers : Fed(k)
      /\ \A k \in net : Alive(k.states)
      /\ Gossipers
  BY DEF GossipInv, Gossipers, Fed
<1>1. ASSUME NEW e \in DOMAIN f.todo, apply_state_locally(f, e) PROVE GossipInv'
  <2> DEFINE r == f.todo[e]
             a == apply_entry(g, n, e, r)
             rest == Restrict(f.todo, DOMAIN f.todo \ {e})
             maj == a.waits /\ is_major(g, e, r)
             ec == IF a.waits THEN e ELSE None
             f2 == [f EXCEPT !.todo = rest, !.echo = ec, !.major = maj]
  <2>1. Runs(f) /\ gossiper' = [gossiper EXCEPT ![n] = a.g] /\ GoOn(f, f2) /\ net' = net
    BY <1>1, ZenonT(60) DEF apply_state_locally
  <2>2. Received(r)
    BY <1>0 DEF Alive
  <2> HIDE DEF r
  <2>3. n \in Nodes => Steady(a.g) /\ Like(a.g, g) /\ (a.waits => g.enabled)
    <3>1. n \in Nodes => g.enabled \/ g.shadow
      BY <1>0, <2>1 DEF Owned
    <3> HIDE DEF g
    <3> QED BY <1>0, <2>2, <3>1, ApplyEntry, ZenonT(60)
  <2> HIDE DEF a
  <2>4. Alive(rest)
    BY <1>0 DEF Alive, Restrict
  <2>5. n \in Nodes => (ec # None => g.enabled) /\ (g.enabled \/ g.shadow)
    BY <1>0, <2>1, <2>3 DEF Owned
  <2> HIDE DEF rest, maj, ec, n, g
  <2>6. DOMAIN f2 = FiberFields /\ f2.node = f.node /\ f2.todo = rest /\ f2.echo = ec
    BY <1>0 DEF FiberFields
  <2> HIDE DEF f2
  <2>7. n \in Nodes => Owned(f2, g)
    BY <2>5, <2>6 DEF Owned
  <2>8. Gossipers' /\ \A k \in fibers' : Fed(k)'
    BY <1>0, <2>1, <2>3, <2>4, <2>6, <2>7, GoesOn, ZenonT(60) DEF n, g, Like
  <2> QED BY <1>0, <2>1, <2>8 DEF GossipInv
<1>2. ASSUME NEW answered \in BOOLEAN, handle_echo_msg(f, answered) PROVE GossipInv'
  <2> DEFINE e == f.echo
             d == echo_done(g, e, answered)
             h == IF f.major THEN after_major_change(d, e) ELSE d
             f2 == [f EXCEPT !.echo = None, !.major = FALSE]
  <2>1. e # None /\ gossiper' = [gossiper EXCEPT ![n] = h] /\ GoOn(f, f2) /\ net' = net
    BY <1>2, ZenonT(60) DEF handle_echo_msg
  <2>2. n \in Nodes => g.enabled /\ Sound(g)
    BY <1>0, <2>1 DEF Owned, Steady
  <2> HIDE DEF g, e
  <2>3. n \in Nodes => Sound(d) /\ Like(d, g)
    BY <2>2, EchoDone
  <2> HIDE DEF d
  <2>4. n \in Nodes => Sound(h) /\ Like(h, g)
    BY <2>3, AfterMajorChange DEF Like
  <2> HIDE DEF h
  <2>5. n \in Nodes => Steady(h)
    BY <1>0, <2>2, <2>4 DEF Steady, Like
  <2> HIDE DEF n
  <2>6. DOMAIN f2 = FiberFields /\ f2.node = f.node /\ f2.todo = f.todo /\ f2.echo = None
    BY <1>0 DEF FiberFields
  <2> HIDE DEF f2
  <2>7. n \in Nodes => Owned(f2, g)
    BY <2>2, <2>6 DEF Owned
  <2>8. Gossipers' /\ \A k \in fibers' : Fed(k)'
    BY <1>0, <2>1, <2>4, <2>5, <2>6, <2>7, GoesOn, ZenonT(60) DEF n, g, Like
  <2> QED BY <1>0, <2>1, <2>8 DEF GossipInv
<1>3. CASE send_ack2(f)
  <2> DEFINE wanted == {e \in DOMAIN f.req : has_state_bigger_than(g, e, f.req[e].ver)}
             delta == [e \in wanted |-> get_state_for_version_bigger_than(g, e, f.req[e].ver)]
             msg == Message("ack2", n, f.to, NoStates, delta)
             h == [g EXCEPT !.shadow = FALSE]
  <2>1. /\ Idle(n) /\ fibers' = fibers \ {f}
        /\ net' = net \/ net' = net \cup {msg}
        /\ gossiper' = [gossiper EXCEPT ![n].shadow = FALSE]
    BY <1>3, ZenonT(60) DEF send_ack2
  <2>2. Alive(delta) /\ msg.states = delta
    BY SentAlive, ZenonT(60) DEF Alive, Message
  <2> HIDE DEF msg, delta
  <2>3. \A k \in net' : Alive(k.states)
    BY <1>0, <2>1, <2>2
  <2>4. Becomes(n, h)
    BY <2>1 DEF Becomes
  <2> HIDE DEF g
  <2>5. n \in Nodes => Steady(h) /\ h.enabled = g.enabled
    <3> SUFFICES ASSUME n \in Nodes PROVE Steady(h) /\ h.enabled = g.enabled
      OBVIOUS
    <3>1. /\ Shape(h) /\ h.live = g.live /\ h.unreachable = g.unreachable /\ h.eps = g.eps
          /\ h.enabled = g.enabled /\ h.shadow = FALSE
      BY <1>0, ZenonT(60) DEF Steady, Sound, Shape, Fields
    <3> HIDE DEF h
    <3> QED BY <1>0, <3>1, ZenonT(60) DEF Steady, Sound, Apart, Fresh
  <2> HIDE DEF h
  <2>6. Gossipers' /\ \A k \in Nodes : gossiper'[k] = IF k = n THEN h ELSE gossiper[k]
    BY <1>0, <2>4, <2>5, GossipersKeep
  <2>7. ASSUME NEW k \in fibers' PROVE Fed(k)'
    <3>1. k \in fibers /\ Fed(k)
      BY <1>0, <2>1
    <3>2. k.node = n => ~Runs(k)
      BY <2>1, <3>1 DEF Idle
    <3>3. k.node \in Nodes => Owned(k, gossiper'[k.node])
      BY <2>5, <2>6, <3>1, <3>2 DEF Fed, Owned, g
    <3> QED BY <3>1, <3>3 DEF Fed, Owned, Runs
  <2> QED BY <2>3, <2>6, <2>7 DEF GossipInv
<1> QED
  BY <1>1, <1>2, <1>3 DEF Step

LEMMA EndKeeps ==
  ASSUME GossipInv, NEW n \in Nodes, do_stop_gossiping(n) \/ Crash(n)
  PROVE  GossipInv'
<1>1. Gone(n)
  BY DEF do_stop_gossiping, Crash
<1>2. \A m \in net' : m \in net \/ m.states = NoStates
  <2>1. CASE Crash(n)
    BY <2>1 DEF Crash
  <2>2. CASE do_stop_gossiping(n)
    <3>1. PICK S : net' = net \cup {Message("shutdown", n, e, NoStates, NoStates) : e \in S}
      BY <2>2, ZenonT(60) DEF do_stop_gossiping
    <3>2. \A e : Message("shutdown", n, e, NoStates, NoStates).states = NoStates
      BY DEF Message
    <3> QED BY <3>1, <3>2
  <2> QED BY <2>1, <2>2
<1>3. gossiper' = [gossiper EXCEPT ![n] = Down] /\ fibers' = {f \in fibers : f.node # n}
  BY <1>1 DEF Gone
<1>4. Gossipers' /\ \A k \in Nodes : gossiper'[k] = IF k = n THEN Down ELSE gossiper[k]
  BY <1>3, DownSteady, GossipersKeep, ZenonT(60) DEF GossipInv, Becomes
<1>5. ASSUME NEW f \in fibers' PROVE Fed(f)'
  <2>1. Fed(f) /\ f.node # n
    BY <1>3 DEF GossipInv
  <2>2. f.node \in Nodes => gossiper'[f.node] = gossiper[f.node]
    BY <1>4, <2>1
  <2> QED BY <2>1, <2>2 DEF Fed, Owned, Runs
<1> QED
  BY <1>2, <1>4, <1>5, NoStatesAlive DEF GossipInv

LEMMA PublishKeeps ==
  ASSUME GossipInv, NEW n \in Publishers, NEW k \in AppKeys, NEW val \in Statuses,
         add_local_application_state(n, k, val)
  PROVE  GossipInv'
<1> DEFINE g == gossiper[n]
           value == [ver |-> version[n] + 1, val |-> val]
           h == [g EXCEPT !.eps[n].app[k] = value]
<1>1. /\ g.enabled /\ net' = net /\ fibers' = fibers
      /\ gossiper' = [gossiper EXCEPT ![n].eps[n].app[k] = value]
  BY ZenonT(60) DEF add_local_application_state, Enabled
<1>2. n \in Nodes => Steady(g)
  BY DEF GossipInv, Gossipers
<1>3. gossiper' = [gossiper EXCEPT ![n] = h]
  <2> HIDE DEF value
  <2> QED BY <1>1
<1> HIDE DEF g, value
<1>4. n \in Nodes => Steady(h) /\ h.enabled = g.enabled /\ h.shadow = g.shadow
  <2> SUFFICES ASSUME n \in Nodes PROVE Steady(h) /\ h.enabled = g.enabled /\ h.shadow = g.shadow
    OBVIOUS
  <2>1. /\ Shape(h) /\ h.live = g.live /\ h.unreachable = g.unreachable /\ DOMAIN h.eps = DOMAIN g.eps
        /\ h.enabled = g.enabled /\ h.shadow = g.shadow
    BY <1>2 DEF Steady, Sound, Shape, Fields
  <2> HIDE DEF h
  <2> QED BY <1>1, <1>2, <2>1 DEF Steady, Sound, Apart
<1> HIDE DEF h
<1>5. Gossipers' /\ \A f \in fibers : Fed(f)'
  BY <1>3, <1>4, OneGossiper, ZenonT(60) DEF g
<1> QED
  BY <1>1, <1>5 DEF GossipInv

LEMMA GossipStep ==
  ASSUME GossipInv, [Next]_vars
  PROVE  GossipInv'
<1>1. CASE UNCHANGED vars
  BY <1>1 DEF vars, GossipInv, Gossipers, Fed
<1>2. ASSUME NEW m \in net, Lose(m) PROVE GossipInv'
  BY <1>2 DEF Lose, GossipInv, Gossipers, Fed
<1>3. CASE Next
  BY <1>2, <1>3, StartKeeps, RunKeeps, EndKeeps, PublishKeeps, HandleKeeps, StepKeeps DEF Next
<1> QED
  BY <1>1, <1>3

LEMMA GossipApart == GossipInv => LiveOrUnreachable
  BY DEF GossipInv, Gossipers, Steady, Sound, Apart, LiveOrUnreachable

(* The gossipers and what is on its way to them are always as GossipInv    *)
(* says: in particular a gossiper that is not enabled has marked nobody    *)
(* live or unreachable, so start_gossiping may begin with a fresh map, and *)
(* no fiber of apply_state_locally outlives a shadow round.                *)
THEOREM GossipInvariant == Spec => []GossipInv
<1>1. Init => GossipInv
  BY GossipStarts
<1>2. GossipInv /\ [Next]_vars => GossipInv'
  BY GossipStep
<1> QED
  BY <1>1, <1>2, PTL DEF Spec

(* An endpoint is never both in _live_endpoints and in                     *)
(* _unreachable_endpoints, and both hold endpoints of endpoint_state_map,  *)
(* whatever echoes, evictions, convictions, shutdowns and restarts come in *)
(* between (mark_dead, real_mark_alive, remove_endpoint,                   *)
(* evict_from_membership).                                                 *)
THEOREM LiveApartFromUnreachable == Spec => []LiveOrUnreachable
  BY GossipInvariant, GossipApart, PTL

-----------------------------------------------------------------------------
(* Messaging.  The map of clients and the connections are looked at        *)
(* together (Net), because get_rpc_client, a late closed_error and         *)
(* remove_rpc_client all change both through remove_rpc_client_one.        *)

Classes == (0 .. 1) \X Peers
Stages  == {"open", "error", "stopped"}

Progress == {"new", "sent", "sleeping", "closed", "aborted", "ok", "failed", "timeout"}

Call == [kind : {"plain", "timeout", "retry"}, verb : Verbs, peer : Peers, state : Progress, conn : Nat, retry : Int]

(* The map has no connection or one that was made, and has every one that  *)
(* is open.                                                                *)
Net(cl, cn) ==
    /\ cn \in Seq(Stages)
    /\ cl \in [Classes -> {<<>>} \cup {<<c>> : c \in DOMAIN cn}]
    /\ \A c \in DOMAIN cn : cn[c] = "open" => ~_stopping /\ \E x \in Classes : cl[x] = <<c>>

MsgInv ==
    /\ calls \in Seq(Call)
    /\ _stopping \in BOOLEAN
    /\ Net(_clients, connection)

-----------------------------------------------------------------------------
LEMMA NetStopReaches == MsgInv => StopReachesAll
  BY ZenonT(60) DEF MsgInv, Net, StopReachesAll

(* What remove_rpc_client_one does, if it does anything.                   *)
Removes(cl, cn, x, cl2, cn2) ==
    /\ ~_stopping /\ cl[x] # <<>>
    /\ cl2 = [cl EXCEPT ![x] = <<>>]
    /\ cn2 = [cn EXCEPT ![cl[x][1]] = "stopped"]

LEMMA RemoveOne ==
  ASSUME NEW cl, NEW cn, Net(cl, cn), NEW x \in Classes, NEW cl2, NEW cn2, Removes(cl, cn, x, cl2, cn2)
  PROVE  /\ Net(cl2, cn2)
         /\ DOMAIN cn2 = DOMAIN cn /\ Len(cn2) = Len(cn)
         /\ cl2[x] = <<>> /\ \A y \in Classes : y # x => cl2[y] = cl[y]
<1>1. PICK c \in DOMAIN cn : cl[x] = <<c>>
  BY DEF Net, Removes
<1>2. cl[x][1] = c
  BY <1>1
<1>3. cn2 = [cn EXCEPT ![c] = "stopped"] /\ cn2 \in Seq(Stages) /\ DOMAIN cn2 = DOMAIN cn /\ Len(cn2) = Len(cn)
  BY <1>1, <1>2 DEF Net, Removes, Stages
<1>4. /\ cl2 \in [Classes -> {<<>>} \cup {<<d>> : d \in DOMAIN cn}]
      /\ cl2[x] = <<>> /\ \A y \in Classes : y # x => cl2[y] = cl[y]
  BY DEF Net, Removes
<1>5. ASSUME NEW d \in DOMAIN cn2, cn2[d] = "open"
      PROVE  \E y \in Classes : cl2[y] = <<d>>
  <2>1. d # c /\ cn[d] = "open" /\ d \in DOMAIN cn
    BY <1>1, <1>3, <1>5 DEF Net
  <2>2. PICK y \in Classes : cl[y] = <<d>>
    BY <2>1, ZenonT(60) DEF Net
  <2>3. y # x
    BY <1>1, <2>1, <2>2
  <2>. QED  BY <1>4, <2>2, <2>3
<1>. QED  BY <1>3, <1>4, <1>5, ZenonT(60) DEF Net, Removes

(* Without force, an entry goes only if its connection is in error.        *)
LEMMA RemoveDead ==
  ASSUME Net(_clients, connection), NEW x \in Classes,
         NEW gone, gone = remove_one(_clients, connection, x, TRUE)
  PROVE  /\ Net(gone.clients, gone.connection)
         /\ DOMAIN gone.connection = DOMAIN connection /\ Len(gone.connection) = Len(connection)
         /\ \A y \in Classes : y # x => gone.clients[y] = _clients[y]
         /\ gone.clients[x] # _clients[x] => connection[_clients[x][1]] # "open"
<1>. DEFINE go == ~_stopping /\ _clients[x] # <<>> /\ connection[_clients[x][1]] # "open"
<1>1. CASE go
  <2>1. Removes(_clients, connection, x, gone.clients, gone.connection)
    BY <1>1 DEF remove_one, Removes
  <2>. DEFINE cl2 == gone.clients
              cn2 == gone.connection
  <2>. HIDE DEF cl2, cn2
  <2>2. Removes(_clients, connection, x, cl2, cn2)
    BY <2>1, ZenonT(60) DEF cl2, cn2
  <2>3. /\ Net(cl2, cn2)
        /\ DOMAIN cn2 = DOMAIN connection /\ Len(cn2) = Len(connection)
        /\ \A y \in Classes : y # x => cl2[y] = _clients[y]
    BY <2>2, RemoveOne
  <2>. QED  BY <1>1, <2>3, ZenonT(60) DEF cl2, cn2
<1>2. CASE ~go
  <2>1. gone.clients = _clients /\ gone.connection = connection
    BY <1>2 DEF remove_one
  <2>. QED  BY <2>1, ZenonT(60)
<1>. QED  BY <1>1, <1>2, ZenonT(60)

(* get_rpc_client: the connection is that of the class, which is open; of  *)
(* the map only its entry is new, and only if it was none or in error.     *)
LEMMA GetClient ==
  ASSUME Net(_clients, connection), ~_stopping, NEW x \in Classes, NEW g, g = get_rpc_client(x)
  PROVE  /\ Net(g.clients, g.connection) /\ g.c \in Nat
         /\ \A y \in Classes : y # x => g.clients[y] = _clients[y]
         /\ g.clients[x] # _clients[x] /\ _clients[x] # <<>> => connection[_clients[x][1]] # "open"
<1>. DEFINE gone == remove_one(_clients, connection, x, TRUE)
            kept == _clients[x] # <<>> /\ ~error(_clients[x][1])
            n    == Len(connection) + 1
<1>0. /\ connection \in Seq(Stages) /\ Len(connection) \in Nat /\ DOMAIN connection = 1 .. Len(connection)
      /\ n \in Nat /\ n \notin DOMAIN connection
  BY DEF Net
<1>1. CASE kept
  <2>1. g.clients = _clients /\ g.connection = connection /\ g.c = _clients[x][1]
    BY <1>1 DEF get_rpc_client
  <2>2. PICK c \in DOMAIN connection : _clients[x] = <<c>>
    BY <1>1 DEF Net
  <2>3. g.c \in Nat
    BY <1>0, <2>1, <2>2
  <2>. QED  BY <2>1, <2>3
<1>2. CASE ~kept
  <2>1. /\ g.clients = [gone.clients EXCEPT ![x] = <<n>>]
        /\ g.connection = Append(gone.connection, "open") /\ g.c = n
    BY <1>2, ZenonT(60) DEF get_rpc_client
  <2>2. /\ Net(gone.clients, gone.connection) /\ Len(gone.connection) = Len(connection)
        /\ DOMAIN gone.connection = DOMAIN connection
        /\ \A y \in Classes : y # x => gone.clients[y] = _clients[y]
    BY RemoveDead, ZenonT(60)
  <2>3. gone.clients[x] = <<>>
    <3>1. CASE _clients[x] = <<>>
      BY <3>1 DEF remove_one
    <3>2. CASE _clients[x] # <<>>
      BY <1>2, <3>2 DEF remove_one, error, Net
    <3>. QED  BY <3>1, <3>2, ZenonT(60)
  <2>. HIDE DEF gone
  <2>4. /\ gone.connection \in Seq(Stages) /\ gone.clients \in [Classes -> {<<>>} \cup {<<d>> : d \in DOMAIN connection}]
    BY <2>2 DEF Net
  <2>5. /\ g.connection \in Seq(Stages) /\ DOMAIN g.connection = 1 .. n
        /\ \A d \in 1 .. Len(connection) : g.connection[d] = gone.connection[d]
    BY <1>0, <2>1, <2>2, <2>4 DEF Stages
  <2>6. /\ g.clients \in [Classes -> {<<>>} \cup {<<d>> : d \in DOMAIN g.connection}]
        /\ g.clients[x] = <<n>> /\ \A y \in Classes : y # x => g.clients[y] = gone.clients[y]
    BY <1>0, <2>1, <2>4, <2>5
  <2>7. ASSUME NEW d \in DOMAIN g.connection, g.connection[d] = "open"
        PROVE  \E y \in Classes : g.clients[y] = <<d>>
    <3>1. CASE d = n
      BY <2>6, <3>1
    <3>2. CASE d # n
      <4>1. d \in 1 .. Len(connection) /\ gone.connection[d] = "open"
        BY <1>0, <2>5, <2>7, <3>2
      <4>2. PICK y \in Classes : gone.clients[y] = <<d>>
        BY <1>0, <2>2, <4>1, ZenonT(60) DEF Net
      <4>3. y # x
        <5>1. <<d>> # <<>>
          OBVIOUS
        <5>. QED  BY <2>3, <4>2, <5>1, ZenonT(60)
      <4>. QED  BY <2>6, <4>2, <4>3
    <3>. QED  BY <3>1, <3>2
  <2>8. Net(g.clients, g.connection)
    BY <2>5, <2>6, <2>7, ZenonT(60) DEF Net
  <2>9. \A y \in Classes : y # x => g.clients[y] = _clients[y]
    BY <2>2, <2>6
  <2>10. _clients[x] # <<>> => connection[_clients[x][1]] # "open"
    BY <1>2 DEF error
  <2>11. g.c \in Nat
    BY <1>0, <2>1
  <2>. QED  BY <2>8, <2>9, <2>10, <2>11
<1>. QED  BY <1>1, <1>2

-----------------------------------------------------------------------------
(* What HealthyKept says of a step.                                        *)
KeepsHealthy ==
    \A x \in Classes :
        _clients[x] # <<>> /\ _clients'[x] # _clients[x] /\ connection[_clients[x][1]] = "open"
            => _clients'[<<0, x[2]>>] = <<>> /\ _clients'[<<1, x[2]>>] = <<>> /\ UNCHANGED calls

LEMMA CallTypes ==
  ASSUME nr_retry \in Nat, NEW call \in Call
  PROVE  /\ Closed(call) \in Call
         /\ \A c \in Nat : [call EXCEPT !.state = "sent", !.conn = c] \in Call
         /\ \A how \in Progress : [call EXCEPT !.state = how] \in Call
         /\ <<get_rpc_client_idx[call.verb], call.peer>> \in Classes
         /\ get_rpc_client_idx[call.verb] \in 0 .. 1
<1>0. ASSUME NEW d \in Call
      PROVE  /\ \A how \in Progress : [d EXCEPT !.state = how] \in Call
             /\ \A c \in Nat : [d EXCEPT !.conn = c] \in Call
             /\ \A n \in Int : [d EXCEPT !.retry = n] \in Call
  BY DEF Call
<1>. USE DEF Progress
<1>1. Closed(call) \in Call
  <2>. DEFINE d == [call EXCEPT !.state = "sleeping"]
  <2>1. d \in Call /\ d.retry - 1 \in Int
    <3>1. call.retry \in Int
      BY DEF Call
    <3>2. d \in Call
      BY <1>0, ZenonT(60)
    <3>. HIDE DEF d
    <3>. QED  BY <3>2 DEF Call
  <2>2. [call EXCEPT !.state = "sleeping", !.retry = @ - 1] \in Call
    BY <1>0, <2>1, ZenonT(60)
  <2>. QED  BY <1>0, <2>2, ZenonT(60) DEF Closed
<1>2. ASSUME NEW c \in Nat  PROVE [call EXCEPT !.state = "sent", !.conn = c] \in Call
  <2>. DEFINE d == [call EXCEPT !.state = "sent"]
  <2>1. d \in Call
    BY <1>0, ZenonT(60)
  <2>. QED  BY <1>0, <2>1, ZenonT(60)
<1>3. \A how \in Progress : [call EXCEPT !.state = how] \in Call
  BY <1>0, ZenonT(60)
<1>4. get_rpc_client_idx[call.verb] \in 0 .. 1 /\ call.peer \in Peers
  BY DEF Call, get_rpc_client_idx, Verbs
<1>. QED  BY <1>1, <1>2, <1>3, <1>4, ZenonT(60) DEF Classes

(* An attempt to send, the first or another one.                           *)
LEMMA AttemptKeeps ==
  ASSUME nr_retry \in Nat, MsgInv, NEW k \in Nat, NEW call \in Call, Attempt(k, call), UNCHANGED _stopping
  PROVE  MsgInv' /\ KeepsHealthy
<1>. DEFINE x   == <<get_rpc_client_idx[call.verb], call.peer>>
            got == get_rpc_client(x)
            put(c) == IF k \in DOMAIN calls THEN [calls EXCEPT ![k] = c] ELSE Append(calls, c)
<1>0. x \in Classes /\ _stopping \in BOOLEAN /\ calls \in Seq(Call) /\ Net(_clients, connection)
  BY CallTypes, ZenonT(60) DEF MsgInv
<1>1. ASSUME NEW c \in Call  PROVE put(c) \in Seq(Call)
  BY <1>0
<1>2. CASE _stopping
  <2>1. calls' = put(Closed(call)) /\ UNCHANGED <<_clients, connection>>
    BY <1>2 DEF Attempt, is_stopping
  <2>2. calls' \in Seq(Call)
    BY <1>1, <2>1, CallTypes, ZenonT(60)
  <2>. QED  BY <1>0, <2>1, <2>2, ZenonT(60) DEF MsgInv, Net, KeepsHealthy
<1>3. CASE ~_stopping
  <2>1. /\ calls' = put([call EXCEPT !.state = "sent", !.conn = got.c])
        /\ _clients' = got.clients /\ connection' = got.connection
    BY <1>3 DEF Attempt, is_stopping
  <2>. HIDE DEF x
  <2>2. /\ Net(got.clients, got.connection) /\ got.c \in Nat
        /\ \A y \in Classes : y # x => got.clients[y] = _clients[y]
        /\ got.clients[x] # _clients[x] /\ _clients[x] # <<>> => connection[_clients[x][1]] # "open"
    BY <1>0, <1>3, GetClient
  <2>3. calls' \in Seq(Call)
    BY <1>1, <2>1, <2>2, CallTypes, ZenonT(60)
  <2>. HIDE DEF got, put
  <2>4. Net(_clients, connection)'
    BY <2>1, <2>2, ZenonT(60) DEF Net
  <2>5. KeepsHealthy
    BY <2>1, <2>2 DEF KeepsHealthy
  <2>. QED  BY <1>0, <2>3, <2>4, <2>5 DEF MsgInv
<1>. QED  BY <1>0, <1>2, <1>3

(* remove_rpc_client, for both classes of verbs.                           *)
LEMMA RemoveClient ==
  ASSUME MsgInv, NEW peer \in Peers, remove_rpc_client(peer)
  PROVE  MsgInv' /\ KeepsHealthy
<1>. DEFINE Any(cl, cn, x) == remove_one(cl, cn, x, FALSE)
            one  == Any(_clients, connection, <<0, peer>>)
            both == Any(one.clients, one.connection, <<1, peer>>)
<1>0. /\ <<0, peer>> \in Classes /\ <<1, peer>> \in Classes /\ <<0, peer>> # <<1, peer>>
      /\ Net(_clients, connection) /\ _stopping \in BOOLEAN /\ calls \in Seq(Call)
  BY DEF Classes, MsgInv
<1>1. /\ both.clients # _clients /\ _clients' = both.clients /\ connection' = both.connection
      /\ UNCHANGED <<calls, _stopping>>
  BY ZenonT(60) DEF remove_rpc_client
<1>2. ~_stopping
  <2>. SUFFICES ASSUME _stopping  PROVE both.clients = _clients
    BY <1>1, ZenonT(60)
  <2>. QED  BY DEF remove_one
<1>3. ASSUME NEW cl, NEW cn, Net(cl, cn), NEW x \in Classes, NEW r, r = Any(cl, cn, x)
      PROVE  /\ Net(r.clients, r.connection)
             /\ r.clients[x] = <<>> /\ \A y \in Classes : y # x => r.clients[y] = cl[y]
  <2>1. CASE cl[x] # <<>>
    <3>. DEFINE cl2 == r.clients
                cn2 == r.connection
    <3>1. Removes(cl, cn, x, cl2, cn2)
      BY <1>2, <1>3, <2>1 DEF remove_one, Removes
    <3>. HIDE DEF cl2, cn2
    <3>2. Net(cl2, cn2) /\ cl2[x] = <<>> /\ \A y \in Classes : y # x => cl2[y] = cl[y]
      BY <1>3, <3>1, RemoveOne
    <3>. QED  BY <3>2 DEF cl2, cn2
  <2>2. CASE cl[x] = <<>>
    <3>1. r.clients = cl /\ r.connection = cn
      BY <1>3, <2>2 DEF remove_one
    <3>. QED  BY <1>3, <2>2, <3>1, ZenonT(60)
  <2>. QED  BY <2>1, <2>2
<1>4. /\ Net(one.clients, one.connection)
      /\ one.clients[<<0, peer>>] = <<>> /\ \A y \in Classes : y # <<0, peer>> => one.clients[y] = _clients[y]
  <2>. DEFINE x == <<0, peer>>
  <2>1. one = Any(_clients, connection, x) /\ x \in Classes /\ Net(_clients, connection)
    BY <1>0
  <2>. HIDE DEF x, one, Any
  <2>2. /\ Net(one.clients, one.connection)
        /\ one.clients[x] = <<>> /\ \A y \in Classes : y # x => one.clients[y] = _clients[y]
    BY <1>3, <2>1
  <2>. QED  BY <2>2 DEF x
<1>5. /\ Net(both.clients, both.connection)
      /\ both.clients[<<1, peer>>] = <<>> /\ \A y \in Classes : y # <<1, peer>> => both.clients[y] = one.clients[y]
  <2>. DEFINE x  == <<1, peer>>
              cl == one.clients
              cn == one.connection
  <2>1. both = Any(cl, cn, x) /\ x \in Classes /\ Net(cl, cn)
    BY <1>0, <1>4, ZenonT(60)
  <2>. HIDE DEF x, one, both, cl, cn, Any
  <2>2. /\ Net(both.clients, both.connection)
        /\ both.clients[x] = <<>> /\ \A y \in Classes : y # x => both.clients[y] = cl[y]
    BY <1>3, <2>1
  <2>. QED  BY <2>2 DEF x, cl
<1>. HIDE DEF one, both
<1>6. Net(_clients, connection)'
  BY <1>1, <1>5, ZenonT(60) DEF Net
<1>7. ASSUME NEW x \in Classes, _clients'[x] # _clients[x]
      PROVE  _clients'[<<0, x[2]>>] = <<>> /\ _clients'[<<1, x[2]>>] = <<>>
  <2>1. x = <<0, peer>> \/ x = <<1, peer>>
    BY <1>1, <1>4, <1>5, <1>7
  <2>2. x[2] = peer
    BY <2>1
  <2>3. both.clients[<<0, peer>>] = <<>>
    BY <1>0, <1>4, <1>5
  <2>. QED  BY <1>1, <1>5, <2>2, <2>3
<1>. QED  BY <1>0, <1>1, <1>6, <1>7 DEF MsgInv, KeepsHealthy

-----------------------------------------------------------------------------
LEMMA MsgStep ==
  ASSUME nr_retry \in Nat, MsgInv, [MsgNext]_msgVars
  PROVE  MsgInv' /\ KeepsHealthy
<1>0. /\ calls \in Seq(Call) /\ _stopping \in BOOLEAN /\ Net(_clients, connection)
      /\ \A k \in DOMAIN calls : calls[k] \in Call /\ k \in Nat
  BY DEF MsgInv
<1>1. ASSUME UNCHANGED <<_clients, connection, _stopping>>, calls' \in Seq(Call)  PROVE MsgInv' /\ KeepsHealthy
  BY <1>0, <1>1, ZenonT(60) DEF MsgInv, Net, KeepsHealthy
<1>2. ASSUME NEW kind \in {"plain", "timeout", "retry"}, NEW verb \in Verbs, NEW peer \in Peers, send_message(kind, verb, peer)
      PROVE  MsgInv' /\ KeepsHealthy
  <2>. DEFINE call == [kind |-> kind, verb |-> verb, peer |-> peer, state |-> "new", conn |-> 0, retry |-> nr_retry]
  <2>1. call \in Call /\ Len(calls) + 1 \in Nat
    BY <1>0 DEF Call, Progress
  <2>2. Attempt(Len(calls) + 1, call) /\ UNCHANGED _stopping
    BY <1>2 DEF send_message
  <2>. HIDE DEF call
  <2>. QED  BY <2>1, <2>2, AttemptKeeps
<1>3. ASSUME NEW k \in DOMAIN calls, Wake(k)  PROVE MsgInv' /\ KeepsHealthy
  BY <1>0, <1>3, AttemptKeeps DEF Wake
<1>4. ASSUME NEW k \in DOMAIN calls, NEW how \in Progress, calls' = [calls EXCEPT ![k].state = how]
      PROVE  calls' \in Seq(Call)
  <2>1. [calls[k] EXCEPT !.state = how] \in Call
    BY <1>0, CallTypes, ZenonT(60)
  <2>. QED  BY <1>0, <1>4, <2>1
<1>5. ASSUME NEW k \in DOMAIN calls, Abort(k)  PROVE MsgInv' /\ KeepsHealthy
  <2>1. "aborted" \in Progress
    BY DEF Progress
  <2>. QED  BY <1>1, <1>4, <1>5, <2>1, ZenonT(60) DEF Abort
<1>6. ASSUME NEW k \in DOMAIN calls, NEW how \in {"ok", "failed", "timeout"}, Answer(k, how)
      PROVE  MsgInv' /\ KeepsHealthy
  <2>1. how \in Progress
    BY DEF Progress
  <2>. QED  BY <1>1, <1>4, <1>6, <2>1, ZenonT(60) DEF Answer
<1>7. ASSUME NEW k \in DOMAIN calls, CallClosed(k)  PROVE MsgInv' /\ KeepsHealthy
  <2>. DEFINE x    == <<get_rpc_client_idx[calls[k].verb], calls[k].peer>>
              gone == remove_one(_clients, connection, x, TRUE)
  <2>1. /\ calls' = [calls EXCEPT ![k] = Closed(@)] /\ UNCHANGED _stopping
        /\ _clients' = gone.clients /\ connection' = gone.connection
    BY <1>7 DEF CallClosed
  <2>2. x \in Classes /\ Closed(calls[k]) \in Call
    BY <1>0, CallTypes, ZenonT(60)
  <2>3. calls' \in Seq(Call)
    BY <1>0, <2>1, <2>2
  <2>. HIDE DEF x
  <2>4. /\ Net(gone.clients, gone.connection)
        /\ \A y \in Classes : y # x => gone.clients[y] = _clients[y]
        /\ gone.clients[x] # _clients[x] => connection[_clients[x][1]] # "open"
    <3>1. Net(_clients, connection) /\ gone = remove_one(_clients, connection, x, TRUE)
      BY <1>0
    <3>. HIDE DEF gone
    <3>. QED  BY <2>2, <3>1, RemoveDead, ZenonT(60)
  <2>. HIDE DEF gone
  <2>5. Net(_clients, connection)'
    BY <2>1, <2>4, ZenonT(60) DEF Net
  <2>6. KeepsHealthy
    BY <2>1, <2>4 DEF KeepsHealthy
  <2>. QED  BY <1>0, <2>1, <2>3, <2>5, <2>6 DEF MsgInv
<1>8. CASE stop
  <2>1. /\ _stopping' = TRUE /\ UNCHANGED <<_clients, calls>>
        /\ connection' = [c \in DOMAIN connection |->
                             IF \E x \in DOMAIN _clients : _clients[x] = <<c>> THEN "stopped" ELSE connection[c]]
    BY <1>8 DEF stop
  <2>2. connection \in Seq(Stages) /\ DOMAIN _clients = Classes
    BY <1>0 DEF Net
  <2>3. connection' \in Seq(Stages) /\ DOMAIN connection' = DOMAIN connection
    <3>1. connection' \in [1 .. Len(connection) -> Stages] /\ Len(connection) \in Nat
      BY <2>1, <2>2 DEF Stages
    <3>. QED  BY <2>1, <3>1
  <2>4. \A c \in DOMAIN connection' : connection'[c] # "open"
    BY <1>0, <2>1, <2>2, ZenonT(60) DEF Net
  <2>5. Net(_clients, connection)'
    BY <1>0, <2>1, <2>3, <2>4 DEF Net
  <2>. QED  BY <1>0, <2>1, <2>5 DEF MsgInv, KeepsHealthy
<1>9. ASSUME NEW c \in DOMAIN connection, Break(c)  PROVE MsgInv' /\ KeepsHealthy
  <2>1. connection' = [connection EXCEPT ![c] = "error"] /\ UNCHANGED <<_clients, calls, _stopping>>
    BY <1>9 DEF Break
  <2>2. connection' \in Seq(Stages) /\ DOMAIN connection' = DOMAIN connection
    BY <1>0, <2>1 DEF Net, Stages
  <2>3. \A d \in DOMAIN connection' : connection'[d] = "open" => connection[d] = "open"
    BY <2>1, <2>2
  <2>4. Net(_clients, connection)'
    BY <1>0, <2>1, <2>2, <2>3, ZenonT(60) DEF Net
  <2>. QED  BY <1>0, <2>1, <2>4 DEF MsgInv, KeepsHealthy
<1>10. CASE start_listen
  BY <1>0, <1>1, <1>10 DEF start_listen
<1>11. ASSUME NEW peer \in Peers, on_remove(peer)  PROVE MsgInv' /\ KeepsHealthy
  BY <1>0, <1>1, <1>11 DEF on_remove
<1>12. CASE UNCHANGED msgVars
  BY <1>0, <1>1, <1>12 DEF msgVars
<1>. QED  BY <1>2, <1>3, <1>5, <1>6, <1>7, <1>8, <1>9, <1>10, <1>11, <1>12, RemoveClient DEF MsgNext

(* However calls, retries, lost connections and stop() interleave, every   *)
(* open connection is in the map of clients, and none is open once stop()  *)
(* has begun (get_rpc_client, remove_rpc_client_one, stop_client).         *)
THEOREM MessagingInvariant ==
  ASSUME nr_retry \in Nat
  PROVE  MsgSpec => []MsgInv
<1>1. MsgInit => MsgInv
  BY DEF MsgInit, MsgInv, Net, Classes
<1>. QED  BY <1>1, MsgStep, PTL DEF MsgSpec

(* stop() of messaging_service reaches every connection that is open, and  *)
(* none is opened behind it, however calls fail, are retried and reconnect *)
(* (get_rpc_client, stop_client).                                          *)
THEOREM StoppedAll ==
  ASSUME nr_retry \in Nat
  PROVE  MsgSpec => []StopReachesAll
BY MessagingInvariant, NetStopReaches, PTL

(* A call that hears late that its connection is lost never takes down a   *)
(* connection that is open (send_message, remove_rpc_client_one).          *)
THEOREM LateErrorsKeepHealthy ==
  ASSUME nr_retry \in Nat
  PROVE  MsgSpec => HealthyKept
<1>1. MsgInv /\ [MsgNext]_msgVars =>
        [\A x \in DOMAIN _clients :
           _clients[x] # <<>> /\ _clients'[x] # _clients[x] /\ connection[_clients[x][1]] = "open"
             => _clients'[<<0, x[2]>>] = <<>> /\ _clients'[<<1, x[2]>>] = <<>> /\ UNCHANGED calls]_msgVars
  <2>. SUFFICES ASSUME MsgInv, [MsgNext]_msgVars
                PROVE  \A x \in DOMAIN _clients :
                         _clients[x] # <<>> /\ _clients'[x] # _clients[x] /\ connection[_clients[x][1]] = "open"
                           => _clients'[<<0, x[2]>>] = <<>> /\ _clients'[<<1, x[2]>>] = <<>> /\ UNCHANGED calls
    OBVIOUS
  <2>1. DOMAIN _clients = Classes
    BY DEF MsgInv, Net
  <2>. QED  BY <2>1, MsgStep DEF KeepsHealthy
<1>. QED  BY <1>1, MessagingInvariant, PTL DEF MsgSpec, HealthyKept
===============================================================================
