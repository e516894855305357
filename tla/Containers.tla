----------------------------- MODULE Containers -----------------------------
(***************************************************************************)
(* What the handlers of db.cc call on a value: list_lsa, dict_lsa and      *)
(* sset_lsa (structures/*_lsa.hh), bits_operation.cc.  A list is a         *)
(* sequence, a dict a function on its fields, a sorted set the sequence of *)
(* its entries in the order of _list, a byte string a sequence of 0..255.  *)
(* Indices of the code start at 0.                                         *)
(*                                                                         *)
(* Undefined is the result of a call that reads or writes memory that is   *)
(* freed or never was the object's, or does not return.                    *)
(***************************************************************************)
EXTENDS Integers, Sequences, FiniteSets, FiniteSetsExt, Functions

CONSTANTS Members,   \* the strings clients use
          Undefined

(* A sequence without its entry i, and op taken over its entries in order. *)
RemoveAt(l, i) == SubSeq(l, 1, i - 1) \o SubSeq(l, i + 1, Len(l))

FoldLeft(op(_, _), base, l) ==
    LET upto[i \in 0 .. Len(l)] == IF i = 0 THEN base ELSE op(upto[i - 1], l[i])
    IN  upto[Len(l)]

-----------------------------------------------------------------------------
(* list_lsa.                                                               *)

insert_head(l, v) == <<v>> \o l

insert_tail(l, v) == Append(l, v)

at(l, index) == l[index + 1]

(* One past the end counts as inside.                                      *)
index_out_of_range(l, index) == index < 0 \/ index > Len(l)

(* equal(bytes, node) calls itself: looking for a pivot in a list that has *)
(* an entry does not return.                                               *)
index_of(l, pivot) == IF l = <<>> THEN 0 ELSE Undefined

(* The loop of trem from head to tail, at position i.  Erasing steps over  *)
(* the entry that follows; when the erased entry was the last one, the     *)
(* step over the end leads to the head of the circular list.               *)
trem_from[l \in Seq(Members), v \in Members, i \in Nat, count \in Int, erased \in Nat] ==
    IF i > Len(l) THEN [list |-> l, erased |-> erased]
    ELSE IF l[i] # v THEN trem_from[l, v, i + 1, count, erased]
    ELSE LET rest == RemoveAt(l, i)
         IN  IF erased + 1 = count THEN [list |-> rest, erased |-> erased + 1]
             ELSE trem_from[rest, v, IF i > Len(rest) THEN 1 ELSE i + 1, count, erased + 1]

(* A count of 0 takes all, a negative one goes from tail to head, where    *)
(* the iterator stays on the entry that is disposed of.                    *)
trem(l, v, count) ==
    IF count < 0 /\ v \in Range(l) THEN Undefined
    ELSE trem_from[l, v, 1, count, 0]

(* The loops go on from the entry they have disposed of: nothing is        *)
(* defined unless both are empty.                                          *)
trim(l, start, end) ==
    IF l # <<>> /\ (start > 0 \/ end < Len(l)) THEN Undefined ELSE l

-----------------------------------------------------------------------------
(* dict_lsa: insert keeps the entry that is there.                         *)

dict_insert(d, f, v) == [x \in DOMAIN d \cup {f} |-> IF x \in DOMAIN d THEN d[x] ELSE v]

dict_erase(d, F) == [x \in DOMAIN d \ F |-> d[x]]

-----------------------------------------------------------------------------
(* sset_lsa, as a sequence of entries [m, score]; module SortedSet has its *)
(* two containers and the loops.                                           *)

Scored(z, m) == {i \in DOMAIN z : z[i].m = m}

insert_ordered(z, m, score) ==
    SelectSeq(z, LAMBDA e : e.score <= score) \o <<[m |-> m, score |-> score]>>
        \o SelectSeq(z, LAMBDA e : e.score > score)

sset_erase(z, M) == SelectSeq(z, LAMBDA e : e.m \notin M)

(* The loops over pairs [m, score], in the order the map yields them, and  *)
(* the number they return.                                                 *)
insert_if_not_exists(z, pairs) ==
    LET new == SelectSeq(pairs, LAMBDA p : Scored(z, p.m) = {})
    IN  [list |-> FoldLeft(LAMBDA acc, p : insert_ordered(acc, p.m, p.score), z, new), n |-> Len(new)]

update_if_only_exists(z, pairs) ==
    LET old == SelectSeq(pairs, LAMBDA p : Scored(z, p.m) # {})
    IN  [list |-> FoldLeft(LAMBDA acc, p : insert_ordered(sset_erase(acc, {p.m}), p.m, p.score), z, old),
         n |-> Len(old)]

insert_or_update(z, pairs) ==
    [list |-> FoldLeft(LAMBDA acc, p : insert_ordered(sset_erase(acc, {p.m}), p.m, p.score), z, pairs),
     n |-> Len(pairs)]

(* The ranks that fetch_by_rank yields.  The end is aligned again and      *)
(* again, the begin once; an end of rank 0 is out of range.                *)
fetch_by_rank(z, begin, end) ==
    LET size == Len(z)
        b    == Max({0, IF begin < 0 THEN begin + size ELSE begin})
        e    == IF end < 0 THEN end % size ELSE end
    IN  IF size = 0 \/ b > e \/ e <= 0 THEN <<>>
        ELSE SubSeq(z, b + 1, Min({e + 1, size}))

fetch_by_score(z, min, max) == SelectSeq(z, LAMBDA e : min <= e.score /\ e.score <= max)

fetch_by_key(z, keys) ==
    LET found == SelectSeq(keys, LAMBDA m : Scored(z, m) # {})
    IN  [i \in DOMAIN found |-> z[CHOOSE j \in Scored(z, found[i]) : TRUE]]

rank(z, m) == (CHOOSE i \in Scored(z, m) : TRUE) - 1

score(z, m) == z[rank(z, m) + 1].score

-----------------------------------------------------------------------------
(* bits_operation.  A string is not extended for a bit behind its end.     *)

bit_of(o, offset) == (o[offset \div 8 + 1] \div 2 ^ (7 - (offset % 8))) % 2

bits_set(o, offset, value) ==
    IF offset \div 8 >= Len(o) THEN Undefined
    ELSE [o EXCEPT ![offset \div 8 + 1] = @ + (value - bit_of(o, offset)) * 2 ^ (7 - (offset % 8))]

bits_get(o, offset) == IF offset \div 8 >= Len(o) THEN 0 ELSE bit_of(o, offset)

bits_in_byte == [b \in 0 .. 255 |-> Cardinality({i \in 0 .. 7 : (b \div 2 ^ i) % 2 = 1})]

(* The number of bytes to count is computed in size_t: behind the end of a *)
(* range that ends before it starts there is no end.                       *)
bits_count(o, start, end) ==
    LET size == Len(o)
        s == Max({0, IF start < 0 THEN start + size ELSE start})
        e == Min({size - 1, Max({0, IF end < 0 THEN end + size ELSE end})})
    IN  IF e < s - 1 THEN Undefined
        ELSE FoldFunctionOnSet(LAMBDA b, n : bits_in_byte[b] + n, 0, o, s + 1 .. e + 1)
=============================================================================
