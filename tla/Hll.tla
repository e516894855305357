---------------------------------- MODULE Hll ----------------------------------
(***************************************************************************)
(* structures/hll.cc: a HyperLogLog is an array of bytes, eight for the    *)
(* cached cardinality and then one counter of six bits per bucket, packed. *)
(* The model has 16 buckets, which is one turn of the unrolled loop of     *)
(* hll_bucket_counter_sum (16384 in the code), and the byte behind the     *)
(* last counter, which the accessors touch.  An array starts as zeros.     *)
(*                                                                         *)
(* An element is what its hash says: a bucket and the position of the      *)
(* first one bit behind the bucket's bits.  The cardinality is a function  *)
(* of the counters only, by how many have each value (the estimate itself  *)
(* is floating point): a card is that function.                            *)
(***************************************************************************)
EXTENDS Integers, Sequences, FiniteSets, FiniteSetsExt, SequencesExt

CONSTANTS Arrays,       \* the arrays that are kept
          Elements,     \* [bucket, rank]
          MaxAdded      \* elements added in all

VARIABLES registers,    \* the bytes behind the cache, per array
          cached,       \* the cardinality in the cache: <<card>>, or <<>> when not valid
          added,        \* ghost: the elements an array stands for
          counted       \* ghost: the last answer of count, and the array it is about

hllVars == <<registers, cached, added, counted>>

HLL_BITS == 6
HLL_BUCKET_COUNT == 16
HLL_BUCKET_COUNT_MAX == 2 ^ HLL_BITS - 1
Buckets == 0 .. HLL_BUCKET_COUNT - 1
Byte == (HLL_BUCKET_COUNT * HLL_BITS) \div 8      \* the one behind the end
Zeros == [i \in 0 .. Byte |-> 0]

hll_get_counter_on_bucket(p, index) ==
    LET byte == (index * HLL_BITS) \div 8
        fb == (index * HLL_BITS) % 8
    IN  (p[byte] \div 2 ^ fb + p[byte + 1] * 2 ^ (8 - fb)) % (HLL_BUCKET_COUNT_MAX + 1)

\* Clears the counter's bits in its two bytes, then sets them.
hll_set_counter_on_bucket(p, index, counter) ==
    LET byte == (index * HLL_BITS) \div 8
        fb == (index * HLL_BITS) % 8
        spill == IF fb > 2 THEN fb - 2 ELSE 0      \* bits in the second byte
        Cleared(b, low, n) == b - ((b \div 2 ^ low) % 2 ^ n) * 2 ^ low
    IN  [p EXCEPT ![byte] = (Cleared(@, fb, HLL_BITS) + counter * 2 ^ fb) % 256,
                  ![byte + 1] = Cleared(@, 0, spill) + counter \div 2 ^ (8 - fb)]

\* The counters as the unrolled loop reads them: four from each three bytes.
\* How many there are of each value stands for the sum and for ez.
hll_bucket_counter_sum(r) ==
    LET Read(i) ==
            LET b == (i \div 4) * 3
            IN  CASE i % 4 = 0 -> r[b] % 64
                  [] i % 4 = 1 -> (r[b] \div 64 + r[b + 1] * 4) % 64
                  [] i % 4 = 2 -> (r[b + 1] \div 16 + r[b + 2] * 16) % 64
                  [] OTHER     -> (r[b + 2] \div 4) % 64
    IN  [v \in 0 .. HLL_BUCKET_COUNT_MAX |-> Cardinality({i \in Buckets : Read(i) = v})]

compute_card(r) == hll_bucket_counter_sum(r)

--------------------------------------------------------------------------------
(* Operations on an array [registers, cached]. *)

Kept(a) == [registers |-> registers[a], cached |-> cached[a]]

\* Mutant: a counter is raised and the cached cardinality stays valid.
hll_add_Cached(d, e) ==
    IF e.rank > hll_get_counter_on_bucket(d.registers, e.bucket)
    THEN [d EXCEPT !.registers = hll_set_counter_on_bucket(@, e.bucket, e.rank)]
    ELSE d

hll_add(d, e) ==
    IF e.rank > hll_get_counter_on_bucket(d.registers, e.bucket)
    THEN [registers |-> hll_set_counter_on_bucket(d.registers, e.bucket, e.rank), cached |-> <<>>]
    ELSE d

append(a, elements) ==
    /\ Cardinality(UNION {added[b] : b \in Arrays} \cup ToSet(elements)) <= MaxAdded
    /\ LET d == FoldLeft(hll_add, Kept(a), elements)
       IN  /\ registers' = [registers EXCEPT ![a] = d.registers]
           /\ cached' = [cached EXCEPT ![a] = d.cached]
    /\ added' = [added EXCEPT ![a] = @ \cup ToSet(elements)]
    /\ UNCHANGED counted

\* Reads the cache, or computes and fills it.
count(a) ==
    LET card == IF cached[a] # <<>> THEN cached[a][1] ELSE compute_card(registers[a])
    IN  /\ cached' = [cached EXCEPT ![a] = <<card>>]
        /\ counted' = <<[of |-> added[a], card |-> card]>>
        /\ UNCHANGED <<registers, added>>

\* Raises every counter of p to that of s.
MergeRegisters(p, s) ==
    LET Raise(q, i) ==
            LET c == hll_get_counter_on_bucket(s, i)
            IN  IF c > hll_get_counter_on_bucket(q, i) THEN hll_set_counter_on_bucket(q, i, c) ELSE q
    IN  FoldLeft(Raise, p, SelectSeq([i \in 1 .. HLL_BUCKET_COUNT |-> i - 1],
                                     LAMBDA i : hll_get_counter_on_bucket(s, i) > 0))

\* The sources are merged into a buffer of zeros.
merge_buffer(sources) ==
    LET Into(buffer, a) == MergeRegisters(buffer, registers[a]) IN FoldLeft(Into, Zeros, sources)

merge(a, sources) ==
    /\ registers' = [registers EXCEPT ![a] = MergeRegisters(@, merge_buffer(sources))]
    /\ cached' = [cached EXCEPT ![a] = <<>>]
    /\ added' = [added EXCEPT ![a] = @ \cup UNION {added[b] : b \in ToSet(sources)}]
    /\ UNCHANGED counted

\* The cardinality of several arrays: of the buffer, and not cached.
count_merged(sources) ==
    /\ counted' = <<[of |-> UNION {added[b] : b \in ToSet(sources)}, card |-> compute_card(merge_buffer(sources))]>>
    /\ UNCHANGED <<registers, cached, added>>

HllInit ==
    /\ registers = [a \in Arrays |-> Zeros]
    /\ cached = [a \in Arrays |-> <<compute_card(Zeros)>>]
    /\ added = [a \in Arrays |-> {}]
    /\ counted = <<>>

HllNext ==
    \/ \E a \in Arrays : count(a)
    \/ \E a \in Arrays, e \in Elements : append(a, <<e>>)
    \/ \E a \in Arrays, d, e \in Elements : d # e /\ append(a, <<d, e>>)
    \/ \E a, b \in Arrays : merge(a, <<b>>)
    \/ \E a, b \in Arrays : a # b /\ count_merged(<<a, b>>)

--------------------------------------------------------------------------------
(* Properties. *)

\* The counter a bucket has after a set of elements.
Rank(S, i) == Max({0} \cup {e.rank : e \in {x \in S : x.bucket = i}})

\* Counters share bytes, and yet each one is the highest rank of the elements
\* added to its bucket or merged into it, and the byte behind the last one, which
\* both accessors touch, keeps its value.
CountersExact ==
    \A a \in Arrays : /\ registers[a][Byte] = 0
                      /\ \A i \in Buckets : hll_get_counter_on_bucket(registers[a], i) = Rank(added[a], i)

\* A count, from the cache, computed or of several arrays merged, is that of
\* the elements added so far: no change of a counter leaves an old cardinality
\* marked valid, and the unrolled loop reads the same counters as the accessors.
CountFresh ==
    LET Card(S) == [v \in 0 .. HLL_BUCKET_COUNT_MAX |-> Cardinality({i \in Buckets : Rank(S, i) = v})]
    IN  /\ \A a \in Arrays : cached[a] # <<>> => cached[a][1] = Card(added[a])
        /\ counted # <<>> => counted[1].card = Card(counted[1].of)
================================================================================
