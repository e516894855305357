----------------------------- MODULE UtilsProofs -----------------------------
(***************************************************************************)
(* Proofs about two small parts that others rest on: the flush queue, for   *)
(* any positions and numbers of operations and waiters, and the cache of a  *)
(* shard, for any keys, times to live and bound on time.                    *)
(***************************************************************************)
EXTENDS Cache, FlushQueue, FiniteSetTheorems, WellFoundedInduction, TLAPS

\* A leaf that names no prover is one for the SMT solver.
USE SMTT(60)

(* A non-empty set of naturals has a least element.                        *)
LEMMA LeastNatural ==
  ASSUME NEW T \in SUBSET Nat, T # {}
  PROVE  \E x \in T : \A y \in T : x <= y
<1>1. PICK x \in T : \A y \in T : ~ (<<y, x>> \in OpToRel(<, Nat))
  BY NatLessThanWellFounded, WFMin, ZenonT(60)
<1>2. \A y \in T : ~ (y < x)
  BY <1>1, ZenonT(60) DEF OpToRel
<1>. QED  BY <1>2

(* So has a non-empty set of integers with a lower bound.                  *)
LEMMA LeastInteger ==
  ASSUME NEW T \in SUBSET Int, T # {}, NEW b \in Int, \A x \in T : b <= x
  PROVE  \E x \in T : \A y \in T : x <= y
<1>. DEFINE D == {x - b : x \in T}
<1>1. D \in SUBSET Nat /\ D # {}
  <2>1. \A x \in T : x - b \in Nat
    OBVIOUS
  <2>2. PICK x \in T : TRUE
    BY ZenonT(60)
  <2>3. x - b \in D
    OBVIOUS
  <2>. QED  BY <2>1, <2>3
<1>2. PICK d \in D : \A y \in D : d <= y
  <2>. HIDE DEF D
  <2>. QED  BY <1>1, LeastNatural
<1>3. PICK x \in T : d = x - b
  OBVIOUS
<1>4. ASSUME NEW y \in T  PROVE x <= y
  <2>1. y - b \in D
    OBVIOUS
  <2>2. x - b <= y - b
    BY ZenonT(60), <1>2, <1>3, <2>1
  <2>. QED  BY <2>2
<1>. QED  BY <1>4

(* A finite set of integers that is not empty has a greatest and a least   *)
(* one, which are its Max and Min.                                         *)
Bounded(S) == (\E x \in S : \A y \in S : x >= y) /\ (\E x \in S : \A y \in S : x <= y)

LEMMA FiniteBounded ==
  ASSUME NEW S \in SUBSET Int, IsFiniteSet(S), S # {}
  PROVE  Bounded(S)
<1> DEFINE Bad == {n \in Nat : \E T \in SUBSET S : T # {} /\ ~Bounded(T) /\ Cardinality(T) = n}
<1>1. SUFFICES ASSUME ~Bounded(S) PROVE FALSE
  OBVIOUS
<1>2. Cardinality(S) \in Bad
  BY <1>1, FS_CardinalityType, ZenonT(60)
<1>3. PICK n \in Bad : \A m \in Bad : n <= m
  <2>1. Bad \in SUBSET Nat /\ Bad # {}
    BY <1>2
  <2> HIDE DEF Bad
  <2> QED BY <2>1, LeastNatural
<1>4. PICK T \in SUBSET S : T # {} /\ ~Bounded(T) /\ Cardinality(T) = n
  BY <1>3
<1>5. IsFiniteSet(T) /\ T \in SUBSET Int
  BY FS_Subset, ZenonT(60)
<1>6. PICK x \in T : TRUE
  BY <1>4, ZenonT(60)
<1>7. /\ IsFiniteSet(T \ {x}) /\ Cardinality(T \ {x}) = n - 1 /\ n \in Nat
  BY <1>4, <1>5, <1>6, FS_RemoveElement, FS_CardinalityType
<1>8. Cardinality(T \ {x}) \notin Bad /\ Cardinality(T \ {x}) \in Nat
  <2>1. Cardinality(T \ {x}) \in Nat
    BY <1>7, FS_CardinalityType
  <2> HIDE DEF Bad
  <2> QED BY <1>3, <1>7, <2>1
<1>9. T \ {x} = {} \/ Bounded(T \ {x})
  BY <1>8
<1>10. CASE T \ {x} = {}
  <2>1. T = {x}
    BY <1>6, <1>10, ZenonT(60)
  <2> QED BY <1>4, <1>5, <2>1 DEF Bounded
<1>11. CASE Bounded(T \ {x})
  <2>1. PICK a \in T \ {x} : \A y \in T \ {x} : a >= y
    BY <1>11 DEF Bounded
  <2>2. PICK b \in T \ {x} : \A y \in T \ {x} : b <= y
    BY <1>11, ZenonT(60) DEF Bounded
  <2>3. \E c \in T : \A y \in T : c >= y
    <3>1. CASE x >= a
      BY <1>5, <1>6, <2>1, <3>1
    <3>2. CASE ~(x >= a)
      BY <1>5, <1>6, <2>1, <3>2
    <3> QED BY <3>1, <3>2
  <2>4. \E c \in T : \A y \in T : c <= y
    <3>1. CASE x <= b
      BY <1>5, <1>6, <2>2, <3>1
    <3>2. CASE ~(x <= b)
      BY <1>5, <1>6, <2>2, <3>2
    <3> QED BY <3>1, <3>2
  <2> QED BY <1>4, <2>3, <2>4, ZenonT(60) DEF Bounded
<1> QED
  BY <1>9, <1>10, <1>11

LEMMA MaxMin ==
  ASSUME NEW S \in SUBSET Int, IsFiniteSet(S), S # {}
  PROVE  /\ Max(S) \in S /\ \A y \in S : y <= Max(S)
         /\ Min(S) \in S /\ \A y \in S : Min(S) <= y
<1>1. (\E x \in S : \A y \in S : x >= y) /\ (\E x \in S : \A y \in S : x <= y)
  BY FiniteBounded, ZenonT(60) DEF Bounded
<1>2. Max(S) \in S /\ \A y \in S : Max(S) >= y
  BY <1>1, ZenonT(60) DEF Max
<1>3. Min(S) \in S /\ \A y \in S : Min(S) <= y
  BY <1>1, ZenonT(60) DEF Min
<1>4. \A y \in S : y <= Max(S)
  BY <1>2
<1> QED
  BY <1>2, <1>3, <1>4

-----------------------------------------------------------------------------
(* FlushQueue. *)

Phases == {"new", "func", "wait", "post", "done", "failed", "rejected"}
Entry  == [count : Nat, pr : Nat]

QueueTypes ==
    /\ key \in [Ops -> Int] /\ phase \in [Ops -> Phases]
    /\ awaits \in [Ops \cup Waiters -> Nat]
    /\ waiting \in [Waiters -> {"new", "waiting", "done"}]
    /\ owed \in [Waiters -> SUBSET Ops]
    /\ map \in [DOMAIN map -> Entry] /\ DOMAIN map \in SUBSET Int /\ IsFiniteSet(DOMAIN map)
    /\ \E n \in Nat : promise \in [1 .. n -> {"pending", "value", "exception"}]

At(k) == {o \in Active : key[o] = k}

(* An active operation has an entry, which counts it.                      *)
Counted ==
    /\ \A o \in Active : key[o] \in DOMAIN map
    /\ \A k \in DOMAIN map : Cardinality(At(k)) <= map[k].count

(* Every entry has a promise of its own, which is not resolved.            *)
OwnPromise ==
    \A k \in DOMAIN map :
        /\ map[k].pr \in DOMAIN promise /\ promise[map[k].pr] = "pending"
        /\ \A j \in DOMAIN map : map[j].pr = map[k].pr => j = k

First(o) == \A k \in DOMAIN map : key[o] <= k

(* An operation waits for the entry before its own, and is the first one   *)
(* when that one is gone.                                                  *)
InLine(o) ==
    /\ awaits[o] \in DOMAIN promise
    /\ IF promise[awaits[o]] = "pending"
       THEN \E k \in DOMAIN map : map[k].pr = awaits[o] /\ k < key[o] /\ \A j \in DOMAIN map : j <= k \/ key[o] <= j
       ELSE First(o)

(* A waiter waits for an entry that is not before one of an operation that *)
(* it owes.                                                                *)
Covered(w) ==
    /\ awaits[w] \in DOMAIN promise
    /\ IF promise[awaits[w]] = "pending"
       THEN \E k \in DOMAIN map : map[k].pr = awaits[w] /\ \A o \in owed[w] \cap Active : key[o] <= k
       ELSE owed[w] \cap Active = {}

QueueInv ==
    /\ QueueTypes /\ Counted /\ OwnPromise
    /\ \A o \in Ops : (phase[o] = "post" => First(o)) /\ (phase[o] = "wait" => InLine(o))
    /\ \A w \in Waiters :
          /\ waiting[w] = "waiting" => Covered(w)
          /\ waiting[w] = "done" => owed[w] \cap Active = {}
          /\ \A o \in owed[w] : phase[o] # "new"

LEMMA QueueInit == FlushQueueInit => QueueInv
<1> SUFFICES ASSUME FlushQueueInit PROVE QueueInv
  OBVIOUS
<1>1. Active = {} /\ DOMAIN map = {} /\ DOMAIN promise = {}
  BY DEF FlushQueueInit, Active
<1>2. IsFiniteSet(DOMAIN map)
  BY <1>1, FS_EmptySet
<1>3. promise \in [1 .. 0 -> {"pending", "value", "exception"}]
  BY DEF FlushQueueInit
<1>4. QueueTypes
  BY <1>1, <1>2, <1>3, FlushQueueAssumption DEF QueueTypes, FlushQueueInit, Ops, Phases, Entry
<1> QED
  BY <1>1, <1>4 DEF QueueInv, Counted, OwnPromise, FlushQueueInit

LEMMA OpsFinite == IsFiniteSet(Ops) /\ \A T \in SUBSET Ops : IsFiniteSet(T) /\ Cardinality(T) \in Nat
<1>1. IsFiniteSet(Ops)
  BY FS_Interval, FlushQueueAssumption DEF Ops
<1> QED
  BY <1>1, FS_Subset, FS_CardinalityType

(* An operation that is refused leaves everything else as it was.          *)
LEMMA RejectKeeps ==
  ASSUME QueueInv, NEW o \in Ops, NEW rp \in Positions,
         phase[o] = "new", key' = [key EXCEPT ![o] = rp], phase' = [phase EXCEPT ![o] = "rejected"],
         UNCHANGED <<awaits, map, promise, owed, waiting>>
  PROVE  QueueInv'
<1>1. QueueTypes'
  BY FlushQueueAssumption DEF QueueInv, QueueTypes, Phases
<1>2. Active' = Active /\ o \notin Active /\ \A p \in Ops : p # o => key'[p] = key[p] /\ phase'[p] = phase[p]
  BY DEF QueueInv, QueueTypes, Active
<1>3. \A k : At(k)' = At(k)
  BY <1>2 DEF At, Active
<1>4. Counted'
  BY <1>2, <1>3 DEF QueueInv, Counted, Active
<1>5. OwnPromise'
  BY DEF QueueInv, OwnPromise
<1>6. phase'[o] = "rejected"
  BY DEF QueueInv, QueueTypes
<1>7. \A p \in Ops : (phase'[p] = "post" => First(p)') /\ (phase'[p] = "wait" => InLine(p)')
  BY <1>2, <1>6 DEF QueueInv, First, InLine
<1>8. \A w \in Waiters : /\ waiting'[w] = "waiting" => Covered(w)'
                         /\ waiting'[w] = "done" => owed'[w] \cap Active' = {}
                         /\ \A p \in owed'[w] : phase'[p] # "new"
  BY <1>2, <1>6 DEF QueueInv, QueueTypes, Covered, Active
<1> QED
  BY <1>1, <1>4, <1>5, <1>7, <1>8 DEF QueueInv

(* What an operation that is taken up changes, whether it joins an entry   *)
(* or makes one: the entries before rp and their promises stay.            *)
LEMMA AcceptKeeps ==
  ASSUME QueueInv, NEW o \in Ops, NEW rp \in Positions,
         phase[o] = "new", key' = [key EXCEPT ![o] = rp], phase' = [phase EXCEPT ![o] = "func"],
         UNCHANGED <<awaits, owed, waiting>>,
         QueueTypes', OwnPromise',
         DOMAIN map' = DOMAIN map \cup {rp},
         \A k \in DOMAIN map : map'[k].pr = map[k].pr,
         \A k \in DOMAIN map \ {rp} : map'[k] = map[k],
         rp \notin DOMAIN map => map'[rp].count = 1 /\ \A k \in DOMAIN map : k < rp,
         rp \in DOMAIN map => map'[rp].count = map[rp].count + 1,
         \A p \in DOMAIN promise : p \in DOMAIN promise' /\ promise'[p] = promise[p]
  PROVE  QueueInv'
<1>1. Active' = Active \cup {o} /\ o \notin Active /\ \A p \in Ops : p # o => key'[p] = key[p] /\ phase'[p] = phase[p]
  BY DEF QueueInv, QueueTypes, Active
<1>2. key'[o] = rp /\ phase'[o] = "func"
  BY DEF QueueInv, QueueTypes
<1>3. Active \subseteq Ops
  BY DEF Active
<1>4. Counted'
  <2>1. At(rp)' = At(rp) \cup {o} /\ o \notin At(rp) /\ \A k : k # rp => At(k)' = At(k)
    BY <1>1, <1>2, <1>3 DEF At
  <2>2. IsFiniteSet(At(rp)) /\ At(rp) \in SUBSET Ops
    BY <1>3, OpsFinite DEF At
  <2>3. Cardinality(At(rp)') = Cardinality(At(rp)) + 1 /\ Cardinality(At(rp)) \in Nat
    BY <2>1, <2>2, FS_AddElement, FS_CardinalityType
  <2>4. rp \notin DOMAIN map => Cardinality(At(rp)) = 0
    <3>1. rp \notin DOMAIN map => At(rp) = {}
      BY DEF QueueInv, Counted, At
    <3> QED BY <3>1, FS_EmptySet
  <2>5. \A p \in Active' : key'[p] \in DOMAIN map'
    BY <1>1, <1>2, <1>3 DEF QueueInv, Counted
  <2>6. ASSUME NEW k \in DOMAIN map' PROVE Cardinality(At(k)') <= map'[k].count
    <3>1. CASE k = rp /\ rp \in DOMAIN map
      <4>1. Cardinality(At(rp)) <= map[rp].count /\ map[rp].count \in Nat
        BY <3>1 DEF QueueInv, Counted, QueueTypes, Entry
      <4> QED BY <2>3, <3>1, <4>1
    <3>2. CASE k = rp /\ rp \notin DOMAIN map
      BY <2>3, <2>4, <3>2
    <3>3. CASE k # rp
      BY <2>1, <3>3 DEF QueueInv, Counted
    <3> QED BY <3>1, <3>2, <3>3
  <2> QED BY <2>5, <2>6 DEF Counted
<1>5. ASSUME NEW p \in Ops, phase'[p] = "post" PROVE First(p)'
  <2>1. p # o /\ phase[p] = "post" /\ p \in Active /\ First(p) /\ key'[p] = key[p]
    BY <1>1, <1>2, <1>5 DEF QueueInv, Active
  <2>2. key[p] \in DOMAIN map /\ key[p] \in Int
    BY <2>1 DEF QueueInv, Counted, QueueTypes
  <2>3. key[p] <= rp
    BY <2>1, <2>2, FlushQueueAssumption DEF First
  <2> QED BY <2>1, <2>3 DEF First
<1>6. ASSUME NEW p \in Ops, phase'[p] = "wait" PROVE InLine(p)'
  <2>1. p # o /\ phase[p] = "wait" /\ p \in Active /\ InLine(p) /\ key'[p] = key[p]
    BY <1>1, <1>2, <1>6 DEF QueueInv, Active
  <2>2. key[p] \in DOMAIN map /\ key[p] \in Int
    BY <2>1 DEF QueueInv, Counted, QueueTypes
  <2>3. rp \notin DOMAIN map => key[p] <= rp
    BY <2>2, FlushQueueAssumption
  <2>4. awaits'[p] = awaits[p] /\ awaits[p] \in DOMAIN promise' /\ promise'[awaits[p]] = promise[awaits[p]]
    BY <2>1 DEF InLine
  <2>5. CASE promise[awaits[p]] = "pending"
    <3>1. PICK k \in DOMAIN map : map[k].pr = awaits[p] /\ k < key[p] /\ \A j \in DOMAIN map : j <= k \/ key[p] <= j
      BY <2>1, <2>5 DEF InLine
    <3>2. k \in DOMAIN map' /\ map'[k].pr = awaits[p] /\ \A j \in DOMAIN map' : j <= k \/ key[p] <= j
      BY <2>3, <3>1
    <3> QED BY <2>1, <2>4, <2>5, <3>1, <3>2 DEF InLine
  <2>6. CASE promise[awaits[p]] # "pending"
    <3>1. First(p)
      BY <2>1, <2>6 DEF InLine
    <3>2. First(p)'
      BY <2>1, <2>3, <3>1 DEF First
    <3> QED BY <2>4, <2>6, <3>2 DEF InLine
  <2> QED BY <2>5, <2>6
<1>7. ASSUME NEW w \in Waiters
      PROVE  /\ waiting'[w] = "waiting" => Covered(w)'
             /\ waiting'[w] = "done" => owed'[w] \cap Active' = {}
             /\ \A p \in owed'[w] : phase'[p] # "new"
  <2>1. owed'[w] = owed[w] /\ waiting'[w] = waiting[w] /\ awaits'[w] = awaits[w] /\ owed[w] \subseteq Ops /\ o \notin owed[w]
    BY DEF QueueInv, QueueTypes
  <2>2. owed'[w] \cap Active' = owed[w] \cap Active /\ \A p \in owed[w] \cap Active : key'[p] = key[p]
    BY <1>1, <2>1
  <2>3. \A p \in owed'[w] : phase'[p] # "new"
    BY <1>1, <2>1 DEF QueueInv
  <2>4. ASSUME waiting[w] = "waiting" PROVE Covered(w)'
    <3>1. Covered(w) /\ awaits[w] \in DOMAIN promise' /\ promise'[awaits[w]] = promise[awaits[w]]
      BY <2>4 DEF QueueInv, Covered
    <3>2. CASE promise[awaits[w]] = "pending"
      <4>1. PICK k \in DOMAIN map : map[k].pr = awaits[w] /\ \A p \in owed[w] \cap Active : key[p] <= k
        BY <3>1, <3>2 DEF Covered
      <4> QED BY <2>1, <2>2, <3>1, <3>2, <4>1 DEF Covered
    <3>3. CASE promise[awaits[w]] # "pending"
      BY <2>1, <2>2, <3>1, <3>3, ZenonT(60) DEF Covered
    <3> QED BY <3>2, <3>3
  <2> QED BY <2>1, <2>2, <2>3, <2>4 DEF QueueInv
<1> QED
  BY <1>4, <1>5, <1>6, <1>7, ZenonT(60) DEF QueueInv

LEMMA RunKeeps ==
  ASSUME QueueInv, NEW o \in Ops, NEW rp \in Positions, run_with_ordered_post_op(o, rp)
  PROVE  QueueInv'
<1> DEFINE outOfOrder == DOMAIN map # {} /\ rp \notin DOMAIN map /\ rp < Max(DOMAIN map)
<1>1. /\ phase[o] = "new" /\ key' = [key EXCEPT ![o] = rp] /\ UNCHANGED <<awaits, owed, waiting>>
      /\ IF outOfOrder \/ closed
         THEN phase' = [phase EXCEPT ![o] = "rejected"] /\ UNCHANGED <<map, promise>>
         ELSE /\ phase' = [phase EXCEPT ![o] = "func"]
              /\ IF rp \in DOMAIN map
                 THEN map' = [map EXCEPT ![rp].count = @ + 1] /\ UNCHANGED promise
                 ELSE LET pr == Cardinality(DOMAIN promise) + 1 IN
                      /\ map' = [k \in DOMAIN map \cup {rp} |-> IF k = rp THEN [count |-> 1, pr |-> pr] ELSE map[k]]
                      /\ promise' = [p \in DOMAIN promise \cup {pr} |-> IF p = pr THEN "pending" ELSE promise[p]]
  BY ZenonT(60) DEF run_with_ordered_post_op
<1>2. /\ map \in [DOMAIN map -> Entry] /\ DOMAIN map \in SUBSET Int /\ IsFiniteSet(DOMAIN map)
      /\ rp \in Int /\ IsFiniteSet(DOMAIN map \cup {rp})
  BY FlushQueueAssumption, FS_AddElement, ZenonT(60) DEF QueueInv, QueueTypes
<1>3. CASE outOfOrder \/ closed
  <2> HIDE DEF outOfOrder
  <2> QED BY <1>1, <1>3, RejectKeeps, ZenonT(60)
<1>4. CASE ~outOfOrder /\ ~closed /\ rp \in DOMAIN map
  <2>1. map' = [map EXCEPT ![rp].count = @ + 1] /\ promise' = promise /\ phase' = [phase EXCEPT ![o] = "func"]
    BY <1>1, <1>4
  <2>2. /\ DOMAIN map' = DOMAIN map
        /\ \A k \in DOMAIN map : map'[k].pr = map[k].pr
        /\ \A k \in DOMAIN map \ {rp} : map'[k] = map[k]
        /\ map'[rp].count = map[rp].count + 1
        /\ map' \in [DOMAIN map' -> Entry]
    BY <1>2, <1>4, <2>1 DEF Entry
  <2>3. QueueTypes'
    BY <1>1, <1>2, <2>1, <2>2 DEF QueueInv, QueueTypes, Phases
  <2>4. OwnPromise'
    BY <2>1, <2>2 DEF QueueInv, OwnPromise
  <2>5. DOMAIN map \cup {rp} = DOMAIN map
    BY <1>4
  <2> HIDE DEF outOfOrder
  <2> QED BY <1>1, <1>4, <2>1, <2>2, <2>3, <2>4, <2>5, AcceptKeeps, ZenonT(60)
<1>5. CASE ~outOfOrder /\ ~closed /\ rp \notin DOMAIN map
  <2>1. PICK n \in Nat : promise \in [1 .. n -> {"pending", "value", "exception"}]
    BY DEF QueueInv, QueueTypes
  <2>2. Cardinality(DOMAIN promise) = n /\ DOMAIN promise = 1 .. n
    BY <2>1, FS_Interval
  <2>3. /\ phase' = [phase EXCEPT ![o] = "func"]
        /\ map' = [k \in DOMAIN map \cup {rp} |-> IF k = rp THEN [count |-> 1, pr |-> n + 1] ELSE map[k]]
        /\ promise' = [p \in (1 .. n) \cup {n + 1} |-> IF p = n + 1 THEN "pending" ELSE promise[p]]
    BY <1>1, <1>5, <2>2, ZenonT(60)
  <2>4. \A k \in DOMAIN map : k < rp
    <3>1. ASSUME NEW k \in DOMAIN map PROVE k <= Max(DOMAIN map) /\ Max(DOMAIN map) \in Int
      BY <1>2, MaxMin
    <3>2. ASSUME NEW k \in DOMAIN map PROVE k < rp
      BY <1>2, <1>5, <3>1
    <3> QED BY <3>2
  <2>5. /\ DOMAIN map' = DOMAIN map \cup {rp} /\ map' \in [DOMAIN map' -> Entry]
        /\ \A k \in DOMAIN map : map'[k] = map[k]
        /\ map'[rp] = [count |-> 1, pr |-> n + 1]
    BY <1>2, <1>5, <2>3 DEF Entry
  <2>6. /\ promise' \in [1 .. n + 1 -> {"pending", "value", "exception"}] /\ promise'[n + 1] = "pending"
        /\ \A p \in 1 .. n : p \in DOMAIN promise' /\ promise'[p] = promise[p]
    BY <2>1, <2>3
  <2>7. QueueTypes'
    <3>1. n + 1 \in Nat
      OBVIOUS
    <3> QED BY <1>1, <1>2, <2>3, <2>5, <2>6, <3>1, ZenonT(60) DEF QueueInv, QueueTypes, Phases
  <2>8. OwnPromise'
    <3>1. \A k \in DOMAIN map : map'[k].pr \in 1 .. n /\ promise'[map'[k].pr] = "pending"
      BY <2>2, <2>5, <2>6 DEF QueueInv, OwnPromise
    <3>2. map'[rp].pr = n + 1 /\ n + 1 \notin 1 .. n
      BY <2>5
    <3>3. \A k, j \in DOMAIN map : map'[k].pr = map'[j].pr => k = j
      BY <2>5 DEF QueueInv, OwnPromise
    <3> QED BY <2>5, <2>6, <3>1, <3>2, <3>3 DEF OwnPromise
  <2> HIDE DEF outOfOrder
  <2> QED BY <1>1, <1>5, <2>2, <2>3, <2>4, <2>5, <2>6, <2>7, <2>8, AcceptKeeps, ZenonT(60)
<1> QED
  BY <1>3, <1>4, <1>5

(* An operation that goes on, and keeps its entry.                         *)
LEMMA MoveKeeps ==
  ASSUME QueueInv, NEW o \in Active, NEW to \in {"wait", "post", "failed"}, NEW a \in Nat,
         phase' = [phase EXCEPT ![o] = to], awaits' = [awaits EXCEPT ![o] = a],
         UNCHANGED <<key, map, promise, owed, waiting>>,
         to = "post" => First(o), to = "wait" => InLine(o)'
  PROVE  QueueInv'
<1>0. o \in Ops /\ \A w \in Waiters : w # o
  BY FlushQueueAssumption DEF Active, Ops
<1>1. QueueTypes'
  BY <1>0 DEF QueueInv, QueueTypes, Phases
<1>2. Active' \subseteq Active /\ phase'[o] = to /\ \A p \in Ops : p # o => phase'[p] = phase[p] /\ awaits'[p] = awaits[p]
  BY <1>0 DEF QueueInv, QueueTypes, Active
<1>3. Counted'
  <2>1. ASSUME NEW k \in DOMAIN map PROVE Cardinality(At(k)') <= map[k].count
    <3>1. At(k)' \subseteq At(k) /\ At(k) \subseteq Ops
      BY <1>2 DEF At, Active
    <3>2. Cardinality(At(k)') <= Cardinality(At(k)) /\ Cardinality(At(k)') \in Nat /\ Cardinality(At(k)) \in Nat
      BY <3>1, OpsFinite, FS_Subset
    <3>3. Cardinality(At(k)) <= map[k].count /\ map[k].count \in Nat
      BY DEF QueueInv, Counted, QueueTypes, Entry
    <3> QED BY <3>2, <3>3
  <2> QED BY <1>2, <2>1 DEF QueueInv, Counted
<1>4. OwnPromise'
  BY DEF QueueInv, OwnPromise
<1>5. \A p \in Ops : (phase'[p] = "post" => First(p)') /\ (phase'[p] = "wait" => InLine(p)')
  <2>1. ASSUME NEW p \in Ops, p # o PROVE (phase'[p] = "post" => First(p)') /\ (phase'[p] = "wait" => InLine(p)')
    BY <1>2, <2>1 DEF QueueInv, First, InLine
  <2>2. First(o)' <=> First(o)
    BY DEF First
  <2> QED BY <1>2, <2>1, <2>2
<1>6. ASSUME NEW w \in Waiters
      PROVE  /\ waiting'[w] = "waiting" => Covered(w)'
             /\ waiting'[w] = "done" => owed'[w] \cap Active' = {}
             /\ \A p \in owed'[w] : phase'[p] # "new"
  <2>1. awaits'[w] = awaits[w] /\ owed'[w] = owed[w] /\ owed[w] \in SUBSET Ops
    BY <1>0 DEF QueueInv, QueueTypes
  <2>2. waiting[w] = "waiting" => Covered(w)'
    BY <1>2, <2>1 DEF QueueInv, Covered
  <2> QED BY <1>2, <2>1, <2>2 DEF QueueInv
<1> QED
  BY <1>1, <1>3, <1>4, <1>5, <1>6, ZenonT(60) DEF QueueInv

LEMMA FuncDoneKeeps ==
  ASSUME QueueInv, NEW o \in Ops, NEW ok \in BOOLEAN, FuncDone(o, ok)
  PROVE  QueueInv'
<1>1. o \in Active /\ key[o] \in DOMAIN map /\ key[o] \in Int
  BY DEF FuncDone, Active, QueueInv, QueueTypes, Counted
<1>2. DOMAIN map \in SUBSET Int /\ IsFiniteSet(DOMAIN map)
  BY DEF QueueInv, QueueTypes
<1>3. begin \in DOMAIN map /\ \A k \in DOMAIN map : begin <= k
  BY <1>1, <1>2, MaxMin DEF begin
<1>4. CASE key[o] = begin
  <2>1. phase' = [phase EXCEPT ![o] = "post"] /\ UNCHANGED <<key, awaits, map, promise, owed, waiting>>
    BY <1>4 DEF FuncDone
  <2>2. First(o)
    BY <1>3, <1>4 DEF First
  <2>3. awaits[o] \in Nat /\ awaits' = [awaits EXCEPT ![o] = awaits[o]]
    BY <2>1 DEF QueueInv, QueueTypes
  <2> QED BY <1>1, <2>1, <2>2, <2>3, MoveKeeps, ZenonT(60)
<1>5. CASE key[o] # begin
  <2> DEFINE below == {k \in DOMAIN map : k < key[o]}
             before == Max(below)
  <2>1. /\ phase' = [phase EXCEPT ![o] = "wait"] /\ awaits' = [awaits EXCEPT ![o] = map[before].pr]
        /\ UNCHANGED <<key, map, promise, owed, waiting>>
    BY <1>5, ZenonT(60) DEF FuncDone
  <2>2. below \in SUBSET Int /\ IsFiniteSet(below) /\ below # {}
    <3>1. begin \in below
      BY <1>1, <1>2, <1>3, <1>5
    <3>2. below \subseteq DOMAIN map
      OBVIOUS
    <3> QED BY <1>2, <3>1, <3>2, FS_Subset
  <2>3. before \in below /\ \A k \in below : k <= before
    BY <2>2, MaxMin, ZenonT(60)
  <2>4. before \in DOMAIN map /\ before < key[o] /\ \A j \in DOMAIN map : j <= before \/ key[o] <= j
    BY <1>1, <1>2, <2>3
  <2> HIDE DEF below, before
  <2>5. map[before].pr \in DOMAIN promise /\ promise[map[before].pr] = "pending" /\ map[before].pr \in Nat
    BY <2>4 DEF QueueInv, OwnPromise, QueueTypes, Entry
  <2>6. awaits'[o] = map[before].pr
    BY <2>1 DEF QueueInv, QueueTypes
  <2>7. InLine(o)'
    BY <2>1, <2>4, <2>5, <2>6 DEF InLine
  <2> QED BY <1>1, <2>1, <2>5, <2>7, MoveKeeps, ZenonT(60)
<1> QED
  BY <1>4, <1>5

LEMMA RunPostKeeps ==
  ASSUME QueueInv, NEW o \in Ops, run_post(o)
  PROVE  QueueInv'
<1>1. o \in Active /\ InLine(o) /\ promise[awaits[o]] # "pending"
  BY ZenonT(60) DEF run_post, Active, QueueInv
<1>2. First(o)
  BY <1>1 DEF InLine
<1>3. PICK to \in {"post", "failed"} : phase' = [phase EXCEPT ![o] = to]
  BY ZenonT(60) DEF run_post
<1>4. awaits' = [awaits EXCEPT ![o] = 0] /\ UNCHANGED <<key, map, promise, owed, waiting>>
  BY DEF run_post
<1> QED
  BY <1>1, <1>2, <1>3, <1>4, MoveKeeps, ZenonT(60)

LEMMA PostDoneKeeps ==
  ASSUME QueueInv, NEW o \in Ops, NEW ok \in BOOLEAN, PostDone(o, ok)
  PROVE  QueueInv'
<1> DEFINE k == key[o]
<1>1. /\ phase[o] = "post" /\ UNCHANGED <<key, awaits, owed, waiting>>
      /\ \E to \in {"failed", "done"} : phase' = [phase EXCEPT ![o] = to]
  BY ZenonT(60) DEF PostDone
<1>2. o \in Active /\ k \in DOMAIN map /\ k \in Int /\ First(o)
  BY <1>1 DEF Active, QueueInv, QueueTypes, Counted
<1>3. /\ Active' = Active \ {o} /\ phase'[o] \in {"failed", "done"} /\ phase' \in [Ops -> Phases]
      /\ \A p \in Ops : p # o => phase'[p] = phase[p]
  BY <1>1 DEF QueueInv, QueueTypes, Active, Phases
<1>4. /\ \A j : j # k => At(j)' = At(j)
      /\ At(k)' = At(k) \ {o} /\ o \in At(k) /\ At(k) \in SUBSET Ops
  BY <1>1, <1>2, <1>3 DEF At, Active
<1>5. Cardinality(At(k)') = Cardinality(At(k)) - 1 /\ Cardinality(At(k)) \in Nat /\ Cardinality(At(k)') \in Nat
  BY <1>4, OpsFinite, FS_RemoveElement
<1>6. map[k].count \in Nat /\ Cardinality(At(k)) <= map[k].count
  BY <1>2 DEF QueueInv, QueueTypes, Counted, Entry
<1>7. CASE map[k].count # 1
  <2>1. map' = [map EXCEPT ![k].count = @ - 1] /\ promise' = promise
    BY <1>7 DEF PostDone
  <2>2. map[k].count - 1 \in Nat
    BY <1>5, <1>6
  <2>3. /\ DOMAIN map' = DOMAIN map /\ map' \in [DOMAIN map' -> Entry]
        /\ \A j \in DOMAIN map : map'[j].pr = map[j].pr /\ (j # k => map'[j] = map[j])
        /\ map'[k].count = map[k].count - 1
    BY <1>2, <2>1, <2>2 DEF QueueInv, QueueTypes, Entry
  <2>4. QueueTypes'
    BY <1>1, <1>3, <2>1, <2>3 DEF QueueInv, QueueTypes
  <2>5. Counted'
    <3>1. \A p \in Active' : key'[p] \in DOMAIN map'
      BY <1>1, <1>3, <2>3 DEF QueueInv, Counted
    <3>2. ASSUME NEW j \in DOMAIN map' PROVE Cardinality(At(j)') <= map'[j].count
      <4>1. CASE j = k
        BY <1>1, <1>5, <1>6, <2>3, <4>1
      <4>2. CASE j # k
        BY <1>4, <2>3, <4>2 DEF QueueInv, Counted
      <4> QED BY <4>1, <4>2
    <3> QED BY <3>1, <3>2 DEF Counted
  <2>6. OwnPromise'
    BY <2>1, <2>3 DEF QueueInv, OwnPromise
  <2>7. \A p \in Ops : (phase'[p] = "post" => First(p)') /\ (phase'[p] = "wait" => InLine(p)')
    BY <1>1, <1>3, <2>1, <2>3 DEF QueueInv, First, InLine
  <2>8. \A w \in Waiters : /\ waiting'[w] = "waiting" => Covered(w)'
                           /\ waiting'[w] = "done" => owed'[w] \cap Active' = {}
                           /\ \A p \in owed'[w] : phase'[p] # "new"
    <3>1. \A w \in Waiters : waiting[w] = "waiting" => Covered(w)'
      BY <1>1, <1>3, <2>1, <2>3 DEF QueueInv, Covered
    <3> QED BY <1>1, <1>3, <3>1 DEF QueueInv, QueueTypes
  <2> QED BY <2>4, <2>5, <2>6, <2>7, <2>8 DEF QueueInv
<1>8. CASE map[k].count = 1
  <2> DEFINE pr == map[k].pr
  <2>1. map' = Erase(k) /\ \E v \in {"value", "exception"} : promise' = [promise EXCEPT ![pr] = v]
    BY <1>8 DEF PostDone
  <2>2. /\ DOMAIN map' = DOMAIN map \ {k} /\ map' \in [DOMAIN map' -> Entry]
        /\ \A j \in DOMAIN map' : map'[j] = map[j]
    BY <2>1 DEF Erase, QueueInv, QueueTypes
  <2>3. /\ pr \in DOMAIN promise /\ promise[pr] = "pending" /\ promise'[pr] # "pending"
        /\ DOMAIN promise' = DOMAIN promise /\ \A p \in DOMAIN promise : p # pr => promise'[p] = promise[p]
    BY <1>2, <2>1 DEF QueueInv, QueueTypes, OwnPromise
  <2>4. At(k) = {o}
    <3>1. Cardinality(At(k) \ {o}) = 0 /\ IsFiniteSet(At(k) \ {o})
      BY <1>4, <1>5, <1>6, <1>8, OpsFinite
    <3>2. At(k) \ {o} = {}
      BY <3>1, FS_EmptySet
    <3> QED BY <1>4, <3>2
  <2>5. \A p \in Active' : key[p] \in DOMAIN map' /\ k < key[p]
    <3>1. ASSUME NEW p \in Active' PROVE key[p] # k /\ key[p] \in DOMAIN map /\ key[p] \in Int
      BY <1>3, <2>4, <3>1 DEF At, QueueInv, Counted, QueueTypes
    <3> QED BY <1>2, <2>2, <3>1 DEF First
  <2>6. QueueTypes'
    <3>1. IsFiniteSet(DOMAIN map')
      BY <2>2, FS_Subset DEF QueueInv, QueueTypes
    <3>2. \E n \in Nat : promise' \in [1 .. n -> {"pending", "value", "exception"}]
      <4>1. PICK n \in Nat : promise \in [1 .. n -> {"pending", "value", "exception"}]
        BY DEF QueueInv, QueueTypes
      <4>2. promise' \in [1 .. n -> {"pending", "value", "exception"}]
        BY <2>1, <4>1, ZenonT(60)
      <4> QED BY <4>2
    <3> QED BY <1>1, <1>3, <2>2, <3>1, <3>2 DEF QueueInv, QueueTypes
  <2>7. Counted'
    BY <1>1, <1>4, <2>2, <2>5 DEF QueueInv, Counted
  <2>8. OwnPromise'
    <3>1. \A j \in DOMAIN map' : map[j].pr # pr
      BY <1>2, <2>2 DEF QueueInv, OwnPromise
    <3> QED BY <2>2, <2>3, <3>1 DEF QueueInv, OwnPromise
  <2>9. ASSUME NEW p \in Ops, phase'[p] = "post" PROVE First(p)'
    BY <1>1, <1>3, <2>2, <2>9 DEF QueueInv, First
  <2>10. ASSUME NEW p \in Ops, phase'[p] = "wait" PROVE InLine(p)'
    <3>1. InLine(p) /\ key'[p] = key[p] /\ awaits'[p] = awaits[p] /\ p \in Active'
      BY <1>1, <1>3, <2>10, ZenonT(60) DEF QueueInv, Active
    <3>2. CASE awaits[p] = pr
      <4>1. PICK j \in DOMAIN map : map[j].pr = pr /\ \A i \in DOMAIN map : i <= j \/ key[p] <= i
        BY <2>3, <3>1, <3>2, ZenonT(60) DEF InLine
      <4>2. j = k
        BY <1>2, <4>1, ZenonT(60) DEF QueueInv, OwnPromise
      <4>3. First(p)'
        BY <1>2, <2>2, <3>1, <4>1, <4>2 DEF First, QueueInv, QueueTypes
      <4> QED BY <2>3, <3>1, <3>2, <4>3, ZenonT(60) DEF InLine
    <3>3. CASE awaits[p] # pr /\ promise[awaits[p]] = "pending"
      <4>1. PICK j \in DOMAIN map : map[j].pr = awaits[p] /\ j < key[p] /\ \A i \in DOMAIN map : i <= j \/ key[p] <= i
        BY <3>1, <3>3, ZenonT(60) DEF InLine
      <4>2. j \in DOMAIN map' /\ map'[j].pr = awaits[p]
        BY <2>2, <3>3, <4>1
      <4> QED BY <2>2, <2>3, <3>1, <3>3, <4>1, <4>2 DEF InLine
    <3>4. CASE awaits[p] # pr /\ promise[awaits[p]] # "pending"
      BY <2>2, <2>3, <3>1, <3>4 DEF InLine, First
    <3> QED BY <3>2, <3>3, <3>4, ZenonT(60)
  <2>11. ASSUME NEW w \in Waiters
         PROVE  /\ waiting'[w] = "waiting" => Covered(w)'
                /\ waiting'[w] = "done" => owed'[w] \cap Active' = {}
                /\ \A p \in owed'[w] : phase'[p] # "new"
    <3>1. owed'[w] = owed[w] /\ waiting'[w] = waiting[w] /\ awaits'[w] = awaits[w] /\ owed[w] \in SUBSET Ops
      BY <1>1 DEF QueueInv, QueueTypes
    <3>2. ASSUME waiting[w] = "waiting", awaits[w] = pr PROVE Covered(w)'
      <4>1. PICK j \in DOMAIN map : map[j].pr = pr /\ \A p \in owed[w] \cap Active : key[p] <= j
        BY <2>3, <3>2, ZenonT(60) DEF QueueInv, Covered
      <4>2. j = k
        BY <1>2, <4>1, ZenonT(60) DEF QueueInv, OwnPromise
      <4>3. owed[w] \cap Active' = {}
        <5>1. k \in Int
          BY <1>2, ZenonT(60)
        <5>2. ASSUME NEW p \in owed[w] PROVE p \notin Active'
          <6>1. p \in Active' => key[p] <= k /\ k < key[p] /\ key[p] \in Int
            BY <1>3, <2>5, <4>1, <4>2, <3>1 DEF QueueInv, QueueTypes
          <6> QED BY <5>1, <6>1
        <5> QED BY <5>2, ZenonT(60)
      <4> QED BY <2>3, <3>1, <3>2, <4>3, ZenonT(60) DEF Covered
    <3>3. ASSUME waiting[w] = "waiting", awaits[w] # pr, promise[awaits[w]] = "pending" PROVE Covered(w)'
      <4>1. PICK j \in DOMAIN map : map[j].pr = awaits[w] /\ \A p \in owed[w] \cap Active : key[p] <= j
        BY <3>3, ZenonT(60) DEF QueueInv, Covered
      <4>2. j \in DOMAIN map' /\ map'[j].pr = awaits[w] /\ awaits[w] \in DOMAIN promise
        BY <2>2, <3>3, <4>1 DEF QueueInv, Covered
      <4> QED BY <1>1, <1>3, <2>3, <3>1, <3>3, <4>1, <4>2, ZenonT(60) DEF Covered
    <3>4. ASSUME waiting[w] = "waiting", awaits[w] # pr, promise[awaits[w]] # "pending" PROVE Covered(w)'
      BY <1>3, <2>3, <3>1, <3>4, ZenonT(60) DEF QueueInv, Covered
    <3> QED BY <1>3, <3>1, <3>2, <3>3, <3>4, ZenonT(60) DEF QueueInv
  <2> QED BY <2>6, <2>7, <2>8, <2>9, <2>10, <2>11 DEF QueueInv
<1> QED
  BY <1>7, <1>8

LEMMA WaitKeeps ==
  ASSUME QueueInv, NEW w \in Waiters, NEW rp \in Positions, wait_for_pending(w, rp)
  PROVE  QueueInv'
<1> DEFINE upto == {k \in DOMAIN map : k <= rp}
           a == IF upto = {} THEN 0 ELSE map[Max(upto)].pr
           end == IF upto = {} THEN "done" ELSE "waiting"
           mine == {o \in Active : key[o] <= rp}
<1>1. /\ waiting' = [waiting EXCEPT ![w] = end] /\ awaits' = [awaits EXCEPT ![w] = a]
      /\ owed' = [owed EXCEPT ![w] = mine]
      /\ UNCHANGED <<key, phase, map, promise>>
  BY ZenonT(60) DEF wait_for_pending
<1>2. Active' = Active /\ Active \subseteq Ops /\ w \notin Ops
  BY <1>1, FlushQueueAssumption DEF Active, Ops
<1>3. ASSUME upto # {}
      PROVE  Max(upto) \in DOMAIN map /\ \A k \in DOMAIN map : k <= rp => k <= Max(upto)
  <2>1. upto \subseteq DOMAIN map /\ upto \in SUBSET Int /\ IsFiniteSet(upto)
    BY FS_Subset DEF QueueInv, QueueTypes
  <2> QED BY <1>3, <2>1, MaxMin
<1>4. a \in Nat /\ end \in {"done", "waiting"} /\ mine \in SUBSET Ops
  BY <1>2, <1>3 DEF QueueInv, QueueTypes, Entry
<1>5. QueueTypes'
  <2> HIDE DEF a, end, mine, upto
  <2> QED BY <1>1, <1>4 DEF QueueInv, QueueTypes
<1>6. Counted' /\ OwnPromise'
  BY <1>1, <1>2, ZenonT(60) DEF QueueInv, Counted, OwnPromise, At
<1>7. \A o \in Ops : awaits'[o] = awaits[o]
  <2> HIDE DEF a
  <2> QED BY <1>1, <1>2 DEF QueueInv, QueueTypes
<1>8. \A o \in Ops : (phase'[o] = "post" => First(o)') /\ (phase'[o] = "wait" => InLine(o)')
  BY <1>1, <1>7, ZenonT(60) DEF QueueInv, First, InLine
<1>9. ASSUME NEW v \in Waiters, v # w
      PROVE  /\ waiting'[v] = "waiting" => Covered(v)'
             /\ waiting'[v] = "done" => owed'[v] \cap Active' = {}
             /\ \A o \in owed'[v] : phase'[o] # "new"
  <2> HIDE DEF a, end, mine, upto
  <2>1. waiting'[v] = waiting[v] /\ owed'[v] = owed[v] /\ awaits'[v] = awaits[v]
    BY <1>1, <1>9 DEF QueueInv, QueueTypes
  <2> QED BY <1>1, <1>2, <2>1, ZenonT(60) DEF QueueInv, Covered
<1>10. waiting'[w] = end /\ owed'[w] = mine /\ awaits'[w] = a
  <2> HIDE DEF a, end, mine, upto
  <2> QED BY <1>1 DEF QueueInv, QueueTypes
<1>11. \A o \in mine : phase'[o] # "new"
  BY <1>1 DEF Active
<1>12. end = "waiting" => Covered(w)'
  <2>1. SUFFICES ASSUME upto # {} PROVE Covered(w)'
    OBVIOUS
  <2>2. a = map[Max(upto)].pr /\ Max(upto) \in DOMAIN map
    BY <1>3, <2>1
  <2>3. a \in DOMAIN promise /\ promise[a] = "pending"
    <3> HIDE DEF upto, a
    <3> QED BY <2>2 DEF QueueInv, OwnPromise
  <2>4. \A o \in mine \cap Active : key[o] <= Max(upto)
    BY <1>3, <2>1 DEF QueueInv, Counted
  <2> HIDE DEF upto, a, mine
  <2> QED BY <1>1, <1>2, <1>10, <2>2, <2>3, <2>4 DEF Covered
<1>13. end = "done" => mine \cap Active = {}
  BY ZenonT(60) DEF QueueInv, Counted
<1> HIDE DEF upto, a, mine, end
<1> QED
  BY <1>2, <1>5, <1>6, <1>8, <1>9, <1>10, <1>11, <1>12, <1>13, ZenonT(60) DEF QueueInv

LEMMA WaitedKeeps ==
  ASSUME QueueInv, NEW w \in Waiters, Waited(w)
  PROVE  QueueInv'
<1>1. /\ waiting' = [waiting EXCEPT ![w] = "done"] /\ UNCHANGED <<key, phase, awaits, map, promise, owed>>
      /\ Covered(w) /\ promise[awaits[w]] # "pending"
  BY ZenonT(60) DEF Waited, QueueInv
<1>2. Active' = Active /\ owed[w] \cap Active = {}
  BY <1>1 DEF Active, Covered
<1>3. QueueTypes' /\ Counted' /\ OwnPromise'
  BY <1>1, <1>2 DEF QueueInv, QueueTypes, Counted, OwnPromise, At
<1>4. \A o \in Ops : (phase'[o] = "post" => First(o)') /\ (phase'[o] = "wait" => InLine(o)')
  BY <1>1, ZenonT(60) DEF QueueInv, First, InLine
<1>5. ASSUME NEW v \in Waiters
      PROVE  /\ waiting'[v] = "waiting" => Covered(v)'
             /\ waiting'[v] = "done" => owed'[v] \cap Active' = {}
             /\ \A o \in owed'[v] : phase'[o] # "new"
  BY <1>1, <1>2 DEF QueueInv, QueueTypes, Covered
<1> QED
  BY <1>3, <1>4, <1>5, ZenonT(60) DEF QueueInv

LEMMA QueueIdle ==
  ASSUME QueueInv, UNCHANGED <<key, phase, awaits, map, promise, owed, waiting>>
  PROVE  QueueInv'
  BY ZenonT(60) DEF QueueInv, QueueTypes, Counted, OwnPromise, First, InLine, Covered, At, Active

LEMMA QueueStep == QueueInv /\ [FlushQueueNext]_fqVars => QueueInv'
<1> SUFFICES ASSUME QueueInv, [FlushQueueNext]_fqVars PROVE QueueInv'
  OBVIOUS
<1>1. CASE \E o \in Ops, rp \in Positions : run_with_ordered_post_op(o, rp)
  BY <1>1, RunKeeps
<1>2. CASE \E o \in Ops : run_post(o)
  BY <1>2, RunPostKeeps
<1>3. CASE \E o \in Ops, ok \in BOOLEAN : FuncDone(o, ok) \/ PostDone(o, ok)
  BY <1>3, FuncDoneKeeps, PostDoneKeeps
<1>4. CASE \E w \in Waiters : Waited(w) \/ \E rp \in Positions : wait_for_pending(w, rp)
  BY <1>4, WaitedKeeps, WaitKeeps
<1>5. CASE close
  BY <1>5, QueueIdle DEF close
<1>6. CASE UNCHANGED fqVars
  BY <1>6, QueueIdle DEF fqVars
<1> QED
  BY <1>1, <1>2, <1>3, <1>4, <1>5, <1>6 DEF FlushQueueNext

LEMMA QueueInOrder == QueueInv => PostInOrder
<1> SUFFICES ASSUME QueueInv PROVE PostInOrder
  OBVIOUS
<1>1. ASSUME NEW o \in Ops, phase[o] = "post"
      PROVE  key[o] \in DOMAIN map /\ key[o] = begin /\ \A p \in Active : key[p] >= key[o]
  <2>1. key[o] \in DOMAIN map /\ First(o) /\ key[o] \in Int
    BY <1>1 DEF QueueInv, Counted, Active, QueueTypes
  <2>2. begin \in DOMAIN map /\ begin <= key[o] /\ begin \in Int
    BY <2>1, MaxMin DEF begin, QueueInv, QueueTypes
  <2>3. key[o] = begin
    BY <2>1, <2>2 DEF First
  <2>4. \A p \in Active : key[p] >= key[o]
    BY <2>1 DEF First, QueueInv, Counted, QueueTypes, Active
  <2> QED BY <2>1, <2>3, <2>4
<1> QED
  BY <1>1 DEF PostInOrder, QueueInv

(* Every active operation is counted by the entry of its position, every   *)
(* entry has a promise of its own that is not resolved, and an operation   *)
(* waits for the entry just before its own, or is the first                *)
(* (run_with_ordered_post_op).                                             *)
THEOREM QueueInvariant == FlushQueueSpec => []QueueInv
  BY QueueInit, QueueStep, PTL DEF FlushQueueSpec

(* Whatever the order in which funcs and posts end, fail and are joined by  *)
(* late operations: a post runs only for the lowest position that has an    *)
(* active operation, and wait_for_pending is not resolved before            *)
(* the operations it is about are done.                                     *)
THEOREM PostsInOrder == FlushQueueSpec => []PostInOrder
  BY QueueInvariant, QueueInOrder, PTL

-----------------------------------------------------------------------------
(* Cache. *)

(* The inductive invariant: the timer is armed for the time that _alive    *)
(* has promised to report, and no pending timeout comes before it.         *)
NextCovers == timer = next /\ \A k \in alive : next <= expiry[k]

IInv == TypeOK /\ ExpiringIsAlive /\ NextCovers

USE DEF store

LEMMA InitIInv == Init => IInv
  BY CacheAssumption DEF Init, IInv, TypeOK, ExpiringIsAlive, NextCovers

LEMMA ExpirationType ==
  ASSUME TypeOK, NEW s \in Ttls, now + s <= MaxTime
  PROVE  /\ expiration(s) \in Never .. MaxTime
         /\ s # 0 => expiration(s) # Never
  BY CacheAssumption DEF TypeOK, expiration

(* The earliest timeout among the entries that remain.                     *)
LEMMA MinTimeout ==
  ASSUME TypeOK, ExpiringIsAlive, NEW K \in SUBSET alive
  PROVE  /\ Min(Timeouts(K)) \in Never .. Forever
         /\ \A k \in K : Min(Timeouts(K)) <= expiry[k]
<1>. DEFINE T == Timeouts(K)
<1>1. /\ T \in SUBSET Int /\ T # {} /\ \A x \in T : Never <= x /\ x <= Forever
      /\ \A k \in K : expiry[k] \in T
  BY CacheAssumption DEF TypeOK, ExpiringIsAlive, Timeouts
<1>2. Never \in Int
  BY CacheAssumption
<1>. HIDE DEF T
<1>3. \E x \in T : \A y \in T : x <= y
  BY <1>1, <1>2, LeastInteger
<1>4. Min(T) \in T /\ \A y \in T : Min(T) <= y
  BY <1>3 DEF Min
<1>. QED  BY <1>1, <1>2, <1>4, CacheAssumption DEF T

(* Storing an entry under a new timeout and linking it keeps the timer     *)
(* ahead of every timeout.                                                 *)
LEMMA LinkOK ==
  ASSUME IInv, NEW k \in Keys, NEW t \in Never .. MaxTime,
         expiry' = Stored(k, t), alive' = alive \cup {k}, alive_insert(t),
         asked' = {k}, UNCHANGED <<now, status>>
  PROVE  IInv'
<1>. USE CacheAssumption
<1>1. DOMAIN expiry' = store \cup {k} /\ expiry'[k] = t
      /\ \A x \in store : x # k => expiry'[x] = expiry[x]
  BY DEF Stored
<1>2. TypeOK'
  BY <1>1 DEF IInv, TypeOK, alive_insert
<1>3. ExpiringIsAlive'
  BY <1>1 DEF IInv, ExpiringIsAlive, ever_expires
<1>4. NextCovers'
  <2>1. timer' = next' /\ next' <= next /\ next' <= t /\ next' \in Int /\ next \in Int
    BY DEF IInv, TypeOK, NextCovers, alive_insert
  <2>2. ASSUME NEW x \in alive, x # k  PROVE next' <= expiry'[x]
    <3>1. expiry'[x] = expiry[x] /\ next <= expiry[x] /\ expiry[x] \in Int
      BY <1>1, <2>2 DEF IInv, TypeOK, ExpiringIsAlive, NextCovers
    <3>. QED  BY <2>1, <3>1
  <2>. QED  BY <1>1, <2>1, <2>2, ZenonT(60) DEF NextCovers
<1>. QED  BY <1>2, <1>3, <1>4 DEF IInv

(* So does storing one without a timeout that is not linked.               *)
LEMMA PlainOK ==
  ASSUME IInv, NEW k \in Keys, expiry' = Stored(k, Never), alive' = alive \ {k},
         asked' = {k}, UNCHANGED <<next, timer, now, status>>
  PROVE  IInv'
<1>. USE CacheAssumption
<1>1. DOMAIN expiry' = store \cup {k} /\ expiry'[k] = Never
      /\ \A x \in store : x # k => expiry'[x] = expiry[x]
  BY DEF Stored
<1>2. TypeOK'
  BY <1>1 DEF IInv, TypeOK
<1>3. ExpiringIsAlive'
  BY <1>1 DEF IInv, ExpiringIsAlive, ever_expires
<1>4. NextCovers'
  BY <1>1 DEF IInv, NextCovers, ExpiringIsAlive
<1>. QED  BY <1>2, <1>3, <1>4 DEF IInv

LEMMA TripOK ==
  ASSUME IInv, NEW h \in {"set", "erase", "del", "expire", "persist", "flush_all"}, Trip(h)
  PROVE  IInv'
  BY DEF Trip, IInv, TypeOK, ExpiringIsAlive, NextCovers, ever_expires

LEMMA NextIInv == IInv /\ [Next]_vars => IInv'
<1>. SUFFICES ASSUME IInv, [Next]_vars  PROVE IInv'
  OBVIOUS
<1>. USE CacheAssumption
<1>0. TypeOK /\ ExpiringIsAlive /\ NextCovers
  BY DEF IInv
<1>1. ASSUME NEW k \in Keys, NEW s \in Ttls, NEW nx \in BOOLEAN, NEW xx \in BOOLEAN,
             insert_if(k, s, nx, xx)
      PROVE  IInv'
  <2>1. CASE Trip("set")
    BY <2>1, TripOK
  <2>2. CASE ~Trip("set") /\ s > 0
    <3>1. /\ now + s <= MaxTime /\ expiry' = Stored(k, expiration(s))
          /\ alive' = alive \cup {k} /\ alive_insert(expiration(s))
          /\ asked' = {k} /\ UNCHANGED <<now, status>>
      BY <1>1, <2>2 DEF insert_if
    <3>2. expiration(s) \in Never .. MaxTime
      BY <1>0, <3>1, ExpirationType
    <3>. QED  BY <3>1, <3>2, LinkOK
  <2>3. CASE ~Trip("set") /\ ~(s > 0)
    <3>1. /\ expiry' = Stored(k, Never) /\ alive' = alive \ {k}
          /\ asked' = {k} /\ UNCHANGED <<next, timer, now, status>>
      BY <1>1, <2>3 DEF insert_if
    <3>. QED  BY <3>1, PlainOK
  <2>. QED  BY <2>1, <2>2, <2>3
<1>2. ASSUME NEW k \in Keys, insert(k)  PROVE IInv'
  BY <1>0, <1>2, PlainOK DEF insert, ExpiringIsAlive
<1>3. ASSUME NEW k \in Keys, erase_key(k)  PROVE IInv'
  <2>1. CASE Trip("erase")
    BY <2>1, TripOK
  <2>2. CASE ~Trip("erase")
    BY <1>0, <1>3, <2>2
       DEF erase_key, IInv, TypeOK, ExpiringIsAlive, NextCovers, Without, ever_expires
  <2>. QED  BY <2>1, <2>2
<1>4. ASSUME NEW k \in Keys, del(k)  PROVE IInv'
  <2>1. CASE Trip("del")
    BY <2>1, TripOK
  <2>2. CASE ~Trip("del")
    BY <1>0, <1>4, <2>2
       DEF del, IInv, TypeOK, ExpiringIsAlive, NextCovers, Without, ever_expires
  <2>. QED  BY <2>1, <2>2
<1>5. ASSUME NEW k \in Keys, NEW s \in Ttls, expire(k, s)  PROVE IInv'
  <2>1. CASE Trip("expire")
    BY <2>1, TripOK
  <2>2. CASE ~Trip("expire")
    <3>1. /\ now + s <= MaxTime /\ expiry' = Stored(k, expiration(s))
          /\ alive' = alive \cup {k} /\ alive_insert(expiration(s))
          /\ asked' = {k} /\ UNCHANGED <<now, status>>
      BY <1>5, <2>2 DEF expire
    <3>2. expiration(s) \in Never .. MaxTime
      BY <1>0, <3>1, ExpirationType
    <3>. QED  BY <3>1, <3>2, LinkOK
  <2>. QED  BY <2>1, <2>2
<1>6. ASSUME NEW k \in Keys, never_expired(k)  PROVE IInv'
  <2>1. CASE Trip("persist")
    BY <2>1, TripOK
  <2>2. CASE ~Trip("persist")
    BY <1>6, <2>2, PlainOK DEF never_expired
  <2>. QED  BY <2>1, <2>2
<1>7. ASSUME erase_expired_entries  PROVE IInv'
  <2>. DEFINE K == alive \ Due
  <2>1. /\ Min(Timeouts(K)) \in Never .. Forever
        /\ \A k \in K : Min(Timeouts(K)) <= expiry[k]
    BY <1>0, MinTimeout
  <2>2. /\ expiry' = Without(Due) /\ alive' = K /\ next' = Min(Timeouts(K)) /\ timer' = next'
        /\ asked' = {} /\ now' = now /\ status' = status
    BY <1>7 DEF erase_expired_entries
  <2>3. DOMAIN expiry' = store \ Due /\ \A k \in store \ Due : expiry'[k] = expiry[k]
    BY <2>2 DEF Without
  <2>4. TypeOK'
    BY <1>0, <2>1, <2>2, <2>3 DEF TypeOK
  <2>5. ExpiringIsAlive'
    BY <1>0, <2>2, <2>3 DEF ExpiringIsAlive, ever_expires
  <2>6. NextCovers'
    BY <1>0, <2>1, <2>2, <2>3, ZenonT(60) DEF NextCovers, ExpiringIsAlive
  <2>. QED  BY <2>4, <2>5, <2>6 DEF IInv
<1>8. ASSUME flush_all  PROVE IInv'
  <2>1. CASE Trip("flush_all")
    BY <2>1, TripOK
  <2>2. CASE ~Trip("flush_all")
    BY <1>0, <1>8, <2>2
       DEF flush_all, IInv, TypeOK, ExpiringIsAlive, NextCovers, Without, ever_expires
  <2>. QED  BY <2>1, <2>2
<1>9. ASSUME Tick  PROVE IInv'
  BY <1>0, <1>9 DEF Tick, IInv, TypeOK, ExpiringIsAlive, NextCovers, ever_expires
<1>10. ASSUME UNCHANGED vars  PROVE IInv'
  BY <1>0, <1>10 DEF vars, IInv, TypeOK, ExpiringIsAlive, NextCovers, ever_expires
<1>. QED  BY <1>1, <1>2, <1>3, <1>4, <1>5, <1>6, <1>7, <1>8, <1>9, <1>10 DEF Next

(* erase, replace and insert_if may decide by ever_expires() alone whether *)
(* an entry is to be taken out of _alive, and the one timer is never armed *)
(* later than a pending timeout.                                           *)
THEOREM CacheInvariant == Spec => [](TypeOK /\ ExpiringIsAlive /\ TimerCovers)
<1>1. IInv => TypeOK /\ ExpiringIsAlive /\ TimerCovers
  BY DEF IInv, NextCovers, TimerCovers
<1>. QED  BY <1>1, InitIInv, NextIInv, PTL DEF Spec

-----------------------------------------------------------------------------
LEMMA InitMap == Init => Map!Init
  BY DEF Init, Map!Init

LEMMA StepMap == IInv /\ [Next]_vars => [Map!Next]_Map!mapVars
<1>. SUFFICES ASSUME IInv, [Next]_vars  PROVE [Map!Next]_Map!mapVars
  OBVIOUS
<1>. USE CacheAssumption
<1>. DEFINE dl == [k \in store |-> IF k \in alive THEN expiry[k] ELSE Forever]
<1>0. TypeOK /\ ExpiringIsAlive /\ NextCovers
  BY DEF IInv
<1>t. ASSUME NEW h, Trip(h)  PROVE UNCHANGED Map!mapVars
  BY <1>t DEF Trip, Map!mapVars
<1>l. ASSUME NEW k \in Keys, NEW t \in Never .. MaxTime,
             expiry' = Stored(k, t), alive' = alive \cup {k},
             asked' = {k}, UNCHANGED now
      PROVE  Map!Put(k, t)
  BY <1>0, <1>l DEF Map!Put, Stored, ExpiringIsAlive
<1>u. ASSUME NEW k \in Keys, expiry' = Stored(k, Never), alive' = alive \ {k},
             asked' = {k}, UNCHANGED now
      PROVE  Map!Put(k, Forever)
  BY <1>0, <1>u DEF Map!Put, Stored, ExpiringIsAlive
<1>r. ASSUME NEW k \in Keys, expiry' = Without({k}), alive' = alive \ {k},
             asked' = {k}, UNCHANGED now
      PROVE  Map!Remove(k)
  BY <1>0, <1>r DEF Map!Remove, Without, ExpiringIsAlive
<1>f. Forever \in Never .. Forever /\ (Never .. MaxTime) \subseteq (Never .. Forever)
  OBVIOUS
<1>1. ASSUME NEW k \in Keys, NEW s \in Ttls, NEW nx \in BOOLEAN, NEW xx \in BOOLEAN,
             insert_if(k, s, nx, xx)
      PROVE  [Map!Next]_Map!mapVars
  <2>1. CASE Trip("set")
    BY <1>t, <2>1
  <2>2. CASE ~Trip("set") /\ s > 0
    <3>1. /\ now + s <= MaxTime /\ expiry' = Stored(k, expiration(s))
          /\ alive' = alive \cup {k} /\ asked' = {k} /\ UNCHANGED now
      BY <1>1, <2>2 DEF insert_if
    <3>2. expiration(s) \in Never .. MaxTime
      BY <1>0, <3>1, ExpirationType
    <3>. QED  BY <1>f, <1>l, <3>1, <3>2 DEF Map!Next
  <2>3. CASE ~Trip("set") /\ ~(s > 0)
    <3>1. /\ expiry' = Stored(k, Never) /\ alive' = alive \ {k}
          /\ asked' = {k} /\ UNCHANGED now
      BY <1>1, <2>3 DEF insert_if
    <3>. QED  BY <1>f, <1>u, <3>1 DEF Map!Next
  <2>. QED  BY <2>1, <2>2, <2>3
<1>2. ASSUME NEW k \in Keys, insert(k)  PROVE Map!Next
  <2>1. /\ expiry' = Stored(k, Never) /\ alive' = alive \ {k}
        /\ asked' = {k} /\ UNCHANGED now
    BY <1>0, <1>2 DEF insert, ExpiringIsAlive
  <2>. QED  BY <1>f, <1>u, <2>1 DEF Map!Next
<1>3. ASSUME NEW k \in Keys, erase_key(k)  PROVE [Map!Next]_Map!mapVars
  <2>1. CASE Trip("erase")
    BY <1>t, <2>1
  <2>2. CASE ~Trip("erase")
    BY <1>3, <1>r, <2>2 DEF erase_key, Map!Next
  <2>. QED  BY <2>1, <2>2
<1>4. ASSUME NEW k \in Keys, del(k)  PROVE [Map!Next]_Map!mapVars
  <2>1. CASE Trip("del")
    BY <1>t, <2>1
  <2>2. CASE ~Trip("del")
    <3>1. expiry' = Without({k}) /\ alive' = alive \ {k} /\ asked' = {k} /\ UNCHANGED now
      BY <1>4, <2>2 DEF del
    <3>. QED  BY <1>r, <3>1 DEF Map!Next
  <2>. QED  BY <2>1, <2>2
<1>5. ASSUME NEW k \in Keys, NEW s \in Ttls, expire(k, s)  PROVE [Map!Next]_Map!mapVars
  <2>1. CASE Trip("expire")
    BY <1>t, <2>1
  <2>2. CASE ~Trip("expire")
    <3>1. /\ now + s <= MaxTime /\ expiry' = Stored(k, expiration(s))
          /\ alive' = alive \cup {k} /\ asked' = {k} /\ UNCHANGED now
      BY <1>5, <2>2 DEF expire
    <3>2. expiration(s) \in Never .. MaxTime
      BY <1>0, <3>1, ExpirationType
    <3>. QED  BY <1>f, <1>l, <3>1, <3>2 DEF Map!Next
  <2>. QED  BY <2>1, <2>2
<1>6. ASSUME NEW k \in Keys, never_expired(k)  PROVE [Map!Next]_Map!mapVars
  <2>1. CASE Trip("persist")
    BY <1>t, <2>1
  <2>2. CASE ~Trip("persist")
    <3>1. /\ expiry' = Stored(k, Never) /\ alive' = alive \ {k}
          /\ asked' = {k} /\ UNCHANGED now
      BY <1>6, <2>2 DEF never_expired
    <3>. QED  BY <1>f, <1>u, <3>1 DEF Map!Next
  <2>. QED  BY <2>1, <2>2
<1>7. ASSUME erase_expired_entries  PROVE Map!Next
  <2>1. /\ expiry' = Without(Due) /\ alive' = alive \ Due
        /\ asked' = {} /\ now' = now
    BY <1>7 DEF erase_expired_entries
  <2>2. {k \in DOMAIN dl : dl[k] > now} = store \ Due
    BY <1>0 DEF TypeOK, ExpiringIsAlive, Due
  <2>3. dl' = [k \in store \ Due |-> dl[k]]
    BY <1>0, <2>1 DEF Without, ExpiringIsAlive
  <2>4. Map!Expire
    BY <2>1, <2>2, <2>3 DEF Map!Expire
  <2>. QED  BY <2>4 DEF Map!Next
<1>8. ASSUME flush_all  PROVE [Map!Next]_Map!mapVars
  <2>1. CASE Trip("flush_all")
    BY <1>t, <2>1
  <2>2. CASE ~Trip("flush_all")
    BY ZenonT(60), <1>8, <2>2 DEF flush_all, Map!Next, Map!Clear, Without
  <2>. QED  BY <2>1, <2>2
<1>9. ASSUME Tick  PROVE Map!Next
  BY <1>9 DEF Tick, Map!Next, Map!Tick
<1>10. ASSUME UNCHANGED vars  PROVE UNCHANGED Map!mapVars
  BY <1>10 DEF vars, Map!mapVars
<1>. QED  BY <1>1, <1>2, <1>3, <1>4, <1>5, <1>6, <1>7, <1>8, <1>9, <1>10 DEF Next

(* The cache implements the expiring map: the timer removes all the        *)
(* entries whose deadline has passed and no other one, and an operation on *)
(* one key leaves the others and their deadlines alone.                    *)
THEOREM CacheIsExpiringMap == Spec => IsExpiringMap
<1>. QED  BY InitIInv, NextIInv, InitMap, StepMap, PTL DEF Spec, IsExpiringMap, Map!Spec
=============================================================================
