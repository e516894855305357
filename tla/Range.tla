------------------------------- MODULE Range -------------------------------
(***************************************************************************)
(* utils/range.hh: ranges with inclusive, exclusive or open bounds, which   *)
(* may wrap around, and the operations on them, used the way a component    *)
(* that keeps a set of ranges uses them: it adds, removes and intersects,   *)
(* and expects its ranges to stay ordered, disjoint and exact.              *)
(*                                                                         *)
(* The order is dense: bounds are the even numbers up to 2 * N, points are  *)
(* all numbers around and between them.  A bound is [value, inclusive]; an  *)
(* optional one is <<>> or <<b>>.                                           *)
(***************************************************************************)
EXTENDS Integers, Sequences, FiniteSets, FiniteSetsExt, SequencesExt

CONSTANTS
    N,          \* bounds are 0, 2, ..., 2 * N
    MaxHeld     \* ranges held at most

VARIABLES
    held,       \* the ranges kept
    covered     \* ghost: the points they should cover

vars == <<held, covered>>

Values == {2 * i : i \in 0..N}
Points == -1..(2 * N + 1)

bound(v, inclusive) == [value |-> v, inclusive |-> inclusive]

make(start, end) == [start |-> start, last |-> end, singular |-> FALSE]

make_singular(v) == [start |-> <<bound(v, TRUE)>>, last |-> <<>>, singular |-> TRUE]

end(r) == IF r.singular THEN r.start ELSE r.last

Wrapping ==
    LET B == {<<>>} \cup {<<bound(v, i)>> : v \in Values, i \in BOOLEAN}
    IN  {make(s, e) : s \in B, e \in B} \cup {make_singular(v) : v \in Values}

\* The comparisons add a truth value, 0 or 1, to a three-way result.
Bit(b) == IF b THEN 1 ELSE 0

\* greater_than_or_equal, end bound against start bound.
EndReachesStart(e, s) ==
    e = <<>> \/ s = <<>> \/ e[1].value - s[1].value >= Bit(~e[1].inclusive \/ ~s[1].inclusive)

\* less_than_or_equal and less_than of start bounds.
StartNotAfter(a, b) ==
    a = <<>> \/ (b # <<>> /\ a[1].value - b[1].value <= -Bit(~a[1].inclusive /\ b[1].inclusive))

StartBefore(a, b) ==
    b # <<>> /\ (a = <<>> \/ a[1].value - b[1].value < Bit(a[1].inclusive /\ ~b[1].inclusive))

\* greater_than_or_equal of end bounds.
EndNotBefore(a, b) ==
    a = <<>> \/ (b # <<>> /\ a[1].value - b[1].value >= Bit(~a[1].inclusive /\ b[1].inclusive))

is_wrap_around(r) ==
    /\ r.start # <<>> /\ r.last # <<>>
    /\ LET s == r.start[1]
           e == r.last[1]
       IN  e.value < s.value \/ (e.value = s.value /\ (~s.inclusive \/ ~e.inclusive))

Nonwrapping == {r \in Wrapping : ~is_wrap_around(r)}

unwrap(r) == <<make(<<>>, end(r)), make(r.start, <<>>)>>

Pieces(r) == IF is_wrap_around(r) THEN unwrap(r) ELSE <<r>>

before(r, p) ==
    r.start # <<>> /\ (p < r.start[1].value \/ (~r.start[1].inclusive /\ p = r.start[1].value))

after(r, p) ==
    end(r) # <<>> /\ (end(r)[1].value < p \/ (~end(r)[1].inclusive /\ p = end(r)[1].value))

contains(r, p) ==
    \E i \in DOMAIN Pieces(r) : ~before(Pieces(r)[i], p) /\ ~after(Pieces(r)[i], p)

OverlapStraight(a, b) ==
    \/ a.start = <<>> /\ b.start = <<>>
    \/ EndReachesStart(end(a), b.start) /\ EndReachesStart(end(b), a.start)

overlaps(a, b) ==
    \/ is_wrap_around(a) /\ is_wrap_around(b)
    \/ \E i \in DOMAIN Pieces(a), j \in DOMAIN Pieces(b) : OverlapStraight(Pieces(a)[i], Pieces(b)[j])

\* contains(range): by whether either range wraps.
ContainsRange(a, b) ==
    LET startIn == b.start # <<>> /\ StartNotAfter(a.start, b.start)
        endIn == end(b) # <<>> /\ EndNotBefore(end(a), end(b))
    IN  CASE is_wrap_around(a) /\ is_wrap_around(b) -> startIn /\ endIn
          [] ~is_wrap_around(a) /\ ~is_wrap_around(b) ->
                StartNotAfter(a.start, b.start) /\ EndNotBefore(end(a), end(b))
          [] ~is_wrap_around(a) /\ is_wrap_around(b) -> a.start = <<>> /\ end(a) = <<>>
          [] is_wrap_around(a) /\ ~is_wrap_around(b) -> startIn \/ endIn

\* Mutant: what is left begins or ends with the bound itself.
Flipped_Not(b) == b

Flipped(b) == <<bound(b[1].value, ~b[1].inclusive)>>

\* The loop of subtract over the two lists.
RECURSIVE SubtractLoop(_, _, _)
SubtractLoop(result, left, right) ==
    IF left = <<>> \/ right = <<>> THEN result \o left
    ELSE LET r1 == left[1]
             r2 == right[1]
             above == IF EndNotBefore(end(r2), end(r1)) THEN <<>> ELSE <<make(Flipped(end(r2)), end(r1))>>
             below == IF StartNotAfter(r2.start, r1.start) THEN <<>> ELSE <<make(r1.start, Flipped(r2.start))>>
         IN  IF ~EndReachesStart(end(r2), r1.start) THEN SubtractLoop(result, left, Tail(right))
             ELSE IF ~EndReachesStart(end(r1), r2.start)
             THEN SubtractLoop(Append(result, r1), Tail(left), right)
             ELSE SubtractLoop(result, below \o above \o Tail(left), right)

subtract(a, b) == SubtractLoop(<<>>, Pieces(a), Pieces(b))

split(r, p) == <<make(r.start, <<bound(p, TRUE)>>), make(<<bound(p, FALSE)>>, end(r))>>

\* An optional range.
split_after(r, p) ==
    IF contains(r, p) /\ (end(r) = <<>> \/ p # end(r)[1].value) THEN <<make(<<bound(p, FALSE)>>, end(r))>>
    ELSE IF end(r) # <<>> /\ p >= end(r)[1].value THEN <<>>
    ELSE <<r>>

\* nonwrapping_range::split_after.
SplitAfterStraight(r, p) ==
    IF end(r) # <<>> /\ p >= end(r)[1].value THEN <<>>
    ELSE IF r.start # <<>> /\ p < r.start[1].value THEN <<r>>
    ELSE <<make(<<bound(p, FALSE)>>, end(r))>>

intersection(a, b) ==
    LET first == IF StartBefore(b.start, a.start) THEN b ELSE a
        second == IF first = b THEN a ELSE b
        e == IF ~EndNotBefore(end(second), end(first)) THEN end(second) ELSE end(first)
    IN  IF EndReachesStart(end(first), second.start) THEN <<make(second.start, e)>> ELSE <<>>

\* One round of deoverlap's loop; acc is what is done and the current range.
Deoverlap1(acc, r) ==
    LET current == acc.current
    IN  IF EndReachesStart(end(r), current.start) /\ EndNotBefore(end(current), end(r)) THEN acc
        ELSE IF EndReachesStart(end(current), r.start)
        THEN [acc EXCEPT !.current = make(current.start, end(r))]
        ELSE [done |-> Append(acc.done, current), current |-> r]

deoverlap(ranges) ==
    LET sorted == SortSeq(ranges, LAMBDA a, b : StartBefore(a.start, b.start))
        acc == FoldLeft(Deoverlap1, [done |-> <<>>, current |-> sorted[1]], Tail(sorted))
    IN  IF Len(ranges) <= 1 THEN ranges ELSE Append(acc.done, acc.current)

\* lower_bound and upper_bound of a range in a sorted sequence: the elements from
\* the first that is not before it up to the first that is behind it.
slice(r, seq) ==
    LET s == r.start[1].value
        e == end(r)[1].value
        low == IF r.start = <<>> THEN 1
               ELSE 1 + Cardinality({i \in DOMAIN seq : IF r.start[1].inclusive THEN seq[i] < s ELSE seq[i] <= s})
        high == IF end(r) = <<>> THEN Len(seq)
                ELSE Cardinality({i \in DOMAIN seq : IF end(r)[1].inclusive THEN seq[i] <= e ELSE seq[i] < e})
    IN  SubSeq(seq, low, high)

\* int_range: how many integers there are between the bounds.
cardinality(r) ==
    end(r)[1].value - r.start[1].value + Bit(r.start[1].inclusive) + Bit(end(r)[1].inclusive) - 1

---------------------------------------------------------------------------
(* Keeping a set of ranges *)

PointsOf(r) == {p \in Points : contains(r, p)}

Cover(ranges) == UNION {PointsOf(ranges[i]) : i \in DOMAIN ranges}

Add(r) ==
    /\ Len(held) < MaxHeld
    /\ held' = deoverlap(Append(held, r))
    /\ covered' = covered \cup PointsOf(r)

Subtract(r) ==
    /\ held' = FlattenSeq([i \in DOMAIN held |-> subtract(held[i], r)])
    /\ Len(held') <= MaxHeld
    /\ covered' = covered \ PointsOf(r)

Intersect(r) ==
    /\ held' = FlattenSeq([i \in DOMAIN held |-> intersection(held[i], r)])
    /\ covered' = covered \cap PointsOf(r)

\* Splits the range that has p and keeps what is behind.
SplitAfter(p) ==
    /\ held' = FlattenSeq([i \in DOMAIN held |-> SplitAfterStraight(held[i], p)])
    /\ covered' = {q \in covered : q > p}

Init == held = <<>> /\ covered = {}

Next ==
    \/ \E r \in Nonwrapping : Add(r) \/ Intersect(r)
    \/ \E r \in Wrapping : Subtract(r)
    \/ \E p \in Values : SplitAfter(p)

---------------------------------------------------------------------------
(* Properties *)

\* However ranges were added, subtracted and intersected: the ranges held are in
\* order, do not overlap and cover exactly the points they should.  "Ranges are
\* not overlapping and ordered", and deoverlap covers "the same values".
CoverExact ==
    /\ Cover(held) = covered
    /\ \A i, j \in DOMAIN held : i < j => ~EndReachesStart(end(held[i]), held[j].start)

\* The predicates on a range that was arrived at and any other are those of the
\* sets of points.  A range from a value round to itself with one bound included
\* covers everything, and contains() does not see that: it is left out.
PredicatesExact ==
    \A i \in DOMAIN held, r \in Wrapping :
        LET h == held[i]
            all == r.start # <<>> /\ end(r) # <<>> /\ is_wrap_around(r)
                     /\ r.start[1].value = end(r)[1].value
                     /\ r.start[1].inclusive # end(r)[1].inclusive
        IN  /\ overlaps(h, r) = (PointsOf(h) \cap PointsOf(r) # {})
            /\ all \/ ContainsRange(r, h) = (PointsOf(h) \subseteq PointsOf(r))
            /\ ContainsRange(h, r) = (PointsOf(r) \subseteq PointsOf(h))
            /\ r \in Nonwrapping => slice(r, SetToSortSeq(PointsOf(h), <))
                                     = SetToSortSeq(PointsOf(h) \cap PointsOf(r), <)

\* Splitting at a point inside gives two ranges that cover what there was, the
\* point in the first, and split_after keeps only what is behind its point.  A
\* split at the last value gives a range that wraps around, and is left out.
SplitExact ==
    \A i \in DOMAIN held, p \in Values :
        LET h == held[i]
            s == split(h, p)
        IN  /\ contains(h, p) /\ (end(h) = <<>> \/ end(h)[1].value # p) =>
                /\ PointsOf(s[1]) = {q \in PointsOf(h) : q <= p}
                /\ PointsOf(s[2]) = {q \in PointsOf(h) : q > p}
            /\ h.start # <<>> /\ end(h) # <<>> => cardinality(h) = Cardinality(PointsOf(h))
            /\ \A r \in Wrapping : split_after(r, p) # <<>> =>
                    /\ PointsOf(split_after(r, p)[1]) \subseteq PointsOf(r)
                    /\ ~contains(split_after(r, p)[1], p)
=============================================================================
