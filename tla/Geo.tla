---------------------------------- MODULE Geo ----------------------------------
(***************************************************************************)
(* Positions as scores of a sorted set (structures/geo.cc) and the search  *)
(* of GEORADIUS (database::georadius in db.cc).                            *)
(*                                                                         *)
(* A 64-bit word is the set of the positions of its one bits, so words     *)
(* have their real width.  A coordinate is an integer: the number of       *)
(* halves of the smallest cell (1/2^26 of its scale) above the lower       *)
(* limit, so that the limits are 0 and Scale and the centre of a cell is   *)
(* odd.  Distances on the sphere are not modelled: the bounding box of a   *)
(* search and the outcome of the four tests that make the boxes larger     *)
(* are inputs.                                                             *)
(***************************************************************************)
EXTENDS Integers, Sequences, FiniteSets, FiniteSetsExt, SequencesExt

CONSTANTS Locations,   \* positions that are searched around
          Members,     \* positions of the members of the sorted set
          Steps,       \* the precisions a radius may ask for
          Reaches      \* half the width of a bounding box, in eighths of a box

VARIABLE search        \* <<>>, then << the search that was made >>: searches are independent

GEO_HASH_STEP_MAX == 26
Scale == 2 ^ (GEO_HASH_STEP_MAX + 1)

\* A position, its longitude first.
At(x, y) == [lon |-> x, lat |-> y]

--------------------------------------------------------------------------------
(* 64-bit words. *)

Bits == 0 .. 63
Word(n) == {b \in 0 .. 30 : (n \div 2 ^ b) % 2 = 1}
Number(w) == MapThenSumSet(LAMBDA b : 2 ^ b, w)
ShiftLeft(w, k) == {b + k : b \in w} \cap Bits
ShiftRight(w, k) == {b - k : b \in w} \cap Bits
LessOrEqual(v, w) == v = w \/ Max(SymDiff(v, w)) \in w

\* A carry into bit b comes from a lower bit of both words, through bits of either.
Plus(v, w) ==
    LET Carry(b) == \E c \in v \cap w : c < b /\ c + 1 .. b - 1 \subseteq v \cup w
    IN  {b \in Bits : (b \in SymDiff(v, w)) # Carry(b)}

Minus(v, w) == Plus(Plus(v, Bits \ w), {0})

\* 0x5555..., 0x3333..., 0x0F0F..., 0x00FF..., 0x0000FFFF0000FFFF, 0x00000000FFFFFFFF
B == [k \in 0 .. 5 |-> {b \in Bits : (b \div 2 ^ k) % 2 = 0}]
Even == B[0]
Odd == Bits \ B[0]

--------------------------------------------------------------------------------
(* Hashes: the bits of the latitude at even, of the longitude at odd places. *)

interleave64(xlo, ylo) ==
    LET Spread(w, k) == (w \cup ShiftLeft(w, 2 ^ k)) \cap B[k]
        Spreads(w) == FoldLeft(Spread, w, <<4, 3, 2, 1, 0>>)
    IN  Spreads(xlo) \cup ShiftLeft(Spreads(ylo), 1)

deinterleave64(interleaved) ==
    LET Gather(w, k) == (w \cup ShiftRight(w, IF k = 0 THEN 0 ELSE 2 ^ (k - 1))) \cap B[k]
        Gathers(w) == FoldLeft(Gather, w, <<0, 1, 2, 3, 4, 5>>)
    IN  Gathers(interleaved) \cup ShiftLeft(Gathers(ShiftRight(interleaved, 1)), 32)

\* The halves of hash_sep: uint32_t ilato, ilono.
Latitude(sep) == Number(sep \cap 0 .. 31)
Longitude(sep) == Number(ShiftRight(sep, 32))

InLimits(p) == p.lon \in 0 .. Scale /\ p.lat \in 0 .. Scale

\* A cell of 2^step by 2^step: what a coordinate, scaled, is truncated to.
Cell(u, step) == u \div 2 ^ (GEO_HASH_STEP_MAX + 1 - step)

encode_to_geohash(p) ==
    interleave64(Word(Cell(p.lat, GEO_HASH_STEP_MAX)), Word(Cell(p.lon, GEO_HASH_STEP_MAX)))

decode_from_geohash(hash) ==
    LET sep == deinterleave64(hash)
    IN  At(2 * Longitude(sep) + 1, 2 * Latitude(sep) + 1)

geohash_encode_internal(p, step) ==
    interleave64(Word(Cell(p.lat, step)), Word(Cell(p.lon, step)))

geohash_decode_internal(h) ==
    LET sep == deinterleave64(h.hash)
        width == 2 ^ (GEO_HASH_STEP_MAX + 1 - h.step)
    IN  [min |-> At(Longitude(sep) * width, Latitude(sep) * width),
         max |-> At((Longitude(sep) + 1) * width, (Latitude(sep) + 1) * width)]

--------------------------------------------------------------------------------
(* Neighbours. *)

Moved(part, fill, mask, d) ==
    (IF d > 0 THEN Plus(part, Plus(fill, {0})) ELSE Minus(part \cup fill, Plus(fill, {0}))) \cap mask

geohash_move_x(h, d) ==
    LET shift == 64 - 2 * h.step
    IN  IF d = 0 THEN h
        ELSE [h EXCEPT !.hash = (@ \cap Even)
                \cup Moved(@ \cap Odd, ShiftRight(Even, shift), ShiftRight(Odd, shift), d)]

geohash_move_y(h, d) ==
    LET shift == 64 - 2 * h.step
    IN  IF d = 0 THEN h
        ELSE [h EXCEPT !.hash = (@ \cap Odd)
                \cup Moved(@ \cap Even, ShiftRight(Odd, shift), ShiftRight(Even, shift), d)]

\* North, south, east, west, then the corners, in the order they are searched in.
Around == <<<<0, 1>>, <<0, -1>>, <<1, 0>>, <<-1, 0>>, <<1, 1>>, <<-1, 1>>, <<1, -1>>, <<-1, -1>>>>

geohash_neighbors(h) ==
    [i \in DOMAIN Around |-> geohash_move_y(geohash_move_x(h, Around[i][1]), Around[i][2])]

--------------------------------------------------------------------------------
(* The search. *)

geohash_bounding_box(p, dx, dy) == [min |-> At(p.lon - dx, p.lat - dy), max |-> At(p.lon + dx, p.lat + dy)]

\* Whether the boxes in a direction cannot hold anything: the search area
\* does not reach the edge of the middle box on that side.
\* Mutant: the sides are confused.
Useless_Side(area, bounds, d) ==
    \/ d[2] = 1 /\ area.min.lat < bounds.min.lat
    \/ d[2] = -1 /\ area.max.lat > bounds.max.lat
    \/ d[1] = -1 /\ area.min.lon < bounds.min.lon
    \/ d[1] = 1 /\ area.max.lon > bounds.max.lon

Useless(area, bounds, d) ==
    \/ d[2] = -1 /\ area.min.lat < bounds.min.lat
    \/ d[2] = 1 /\ area.max.lat > bounds.max.lat
    \/ d[1] = -1 /\ area.min.lon < bounds.min.lon
    \/ d[1] = 1 /\ area.max.lon > bounds.max.lon

\* The boxes fetched, in order: the middle one and the useful neighbours; of
\* equal ones in a row the first.
Boxes(h, bounds) ==
    LET area == geohash_decode_internal(h)
        near == geohash_neighbors(h)
        Fetch(done, i) ==
            IF \/ Useless(area, bounds, Around[i])
               \/ Len(done) > 1 /\ done[Len(done)] = near[i]
            THEN done ELSE Append(done, near[i])
    IN  FoldLeft(Fetch, <<h>>, [i \in DOMAIN Around |-> i])

GeoScores == [p \in Members |-> encode_to_geohash(p)]

\* The score range of a box has both ends included (sset_lsa::fetch_by_score).
fetch_points_in_box(h) ==
    LET Align(w) == ShiftLeft(w, 2 * (GEO_HASH_STEP_MAX - h.step))
    IN  {p \in Members : /\ LessOrEqual(Align(h.hash), GeoScores[p])
                         /\ LessOrEqual(GeoScores[p], Align(Plus(h.hash, {0})))}

\* The hash at a precision, or <<>> when it cannot be computed: a box in the
\* corner, with hash 0, cannot be decoded, and there is no step 0.
Hash(p, step) ==
    LET h == [hash |-> geohash_encode_internal(p, step), step |-> step]
    IN  IF step = 0 \/ ~InLimits(p) THEN <<>> ELSE IF h.hash = {} THEN <<>> ELSE <<h>>

fetch_points_from_location(p, step, bounds, decrease) ==
    LET first == Hash(p, step)
        h == IF first = <<>> \/ ~decrease THEN first ELSE Hash(p, step - 1)
    IN  IF h = <<>> THEN [ok |-> FALSE, boxes |-> <<>>, found |-> {}]
        ELSE LET boxes == Boxes(h[1], bounds)
             IN  [ok |-> TRUE, boxes |-> boxes, found |-> UNION {fetch_points_in_box(boxes[i]) : i \in DOMAIN boxes}]

georadius(p, step, dx, dy, decrease) ==
    LET width == 2 ^ (GEO_HASH_STEP_MAX + 1 - step)
        bounds == geohash_bounding_box(p, dx * (width \div 8), dy * (width \div 8))
    IN  /\ search = <<>>
        /\ search' = <<[at |-> p, bounds |-> bounds, step |-> step]
                        @@ fetch_points_from_location(p, step, bounds, decrease)>>

GeoInit == search = <<>>

GeoNext == \E p \in Locations, step \in Steps, dx, dy \in Reaches, decrease \in BOOLEAN :
               georadius(p, step, dx, dy, decrease)

--------------------------------------------------------------------------------
(* Properties. *)

\* Every box that is searched is the one it should be: in whole cells it lies
\* one column or row next to the middle one, around the limits of the map where
\* need be, and its range of scores holds exactly the members inside its area
\* and possibly the member at its upper end.  (interleave64 and its inverse,
\* geohash_move_x and _y with their carries through the bits of the other
\* coordinate, and the alignment of a box to scores.)
BoxesExact ==
    \A s \in {search[i] : i \in DOMAIN search} : \A k \in DOMAIN s.boxes :
        LET h == s.boxes[k]
            area == geohash_decode_internal(h)
            n == 2 ^ h.step
            Near(a, b) == (a - b) % n \in {0, 1, n - 1}
            inside == {p \in Members : /\ area.min.lon <= p.lon /\ p.lon < area.max.lon
                                       /\ area.min.lat <= p.lat /\ p.lat < area.max.lat}
        IN  /\ \A axis \in {"lon", "lat"} :
                  LET c == Cell(area.min[axis], h.step) IN Near(c, Cell(s.at[axis], h.step))
            /\ inside \subseteq fetch_points_in_box(h)
            /\ \A p \in fetch_points_in_box(h) \ inside :
                  GeoScores[p] = ShiftLeft(Plus(h.hash, {0}), 2 * (GEO_HASH_STEP_MAX - h.step))

\* A search that is answered misses no member in the bounding box of its
\* circle, also over the line where longitudes wrap around, whichever
\* neighbours are left out as useless or as equal to the one before; and the
\* position a member's score decodes to is in the member's cell.
RadiusComplete ==
    /\ \A s \in {search[i] : i \in DOMAIN search} : s.ok =>
          {p \in Members : /\ s.bounds.min.lat <= p.lat /\ p.lat <= s.bounds.max.lat
                           /\ \E turn \in {-Scale, 0, Scale} :
                                 s.bounds.min.lon <= p.lon + turn /\ p.lon + turn <= s.bounds.max.lon}
          \subseteq s.found
    /\ \A p \in Members : LET q == decode_from_geohash(GeoScores[p])
                          IN  q.lon - p.lon \in {0, 1} /\ q.lat - p.lat \in {0, 1}
================================================================================
