---------------------------- MODULE LogHistogram ----------------------------
(***************************************************************************)
(* utils/log_histogram.hh: elements in buckets of logarithmic width.  The   *)
(* watermark is the highest bucket that is not empty; allocation regions     *)
(* are kept in one, and the one with most free space is taken from it.       *)
(***************************************************************************)
EXTENDS Integers, Sequences, SequencesExt, FiniteSetsExt

CONSTANTS Elements, min_size, sub_bucket_shift, max_size

VARIABLES
    key,       \* hist_key of the elements
    cached,    \* cached_bucket of the elements
    hist       \* two histograms: buckets, and the watermark

histVars == <<key, cached, hist>>

(* Largest N such that 2^N <= v *)
pow2_rank(v) == Max({n \in 0..v : 2^n <= v})

bucket_of(value) ==
    IF value < min_size THEN 0
    ELSE LET v == value - min_size + 1
             sub == (v * 2^sub_bucket_shift) \div 2^pow2_rank(v) % 2^sub_bucket_shift
         IN (pow2_rank(v) + 1) * 2^sub_bucket_shift - (2^sub_bucket_shift - 1) + sub

number_of_buckets == bucket_of(max_size) + 1
Bucket == [v \in 0..max_size |-> bucket_of(v)]

HistInit ==
    /\ key \in [Elements -> {0}] /\ cached = [e \in Elements |-> 0]
    /\ hist = [h \in 1..2 |-> [buckets |-> [b \in 0..number_of_buckets - 1 |-> <<>>], watermark |-> -1]]

In(h, e) == \E b \in DOMAIN hist[h].buckets : Contains(hist[h].buckets[b], e)

(* maybe_adjust_watermark: down to a bucket that is not empty *)
Adjusted(buckets, watermark) ==
    LET s == {b \in 0..watermark : buckets[b] # <<>>} IN IF s = {} THEN -1 ELSE Max(s)

Raised(watermark, b) == IF b > watermark THEN b ELSE watermark

push(h, e, k) ==
    /\ ~In(1, e) /\ ~In(2, e)
    /\ key' = [key EXCEPT ![e] = k] /\ cached' = [cached EXCEPT ![e] = Bucket[k]]
    /\ hist' = [hist EXCEPT ![h].buckets[Bucket[k]] = <<e>> \o @, ![h].watermark = Raised(@, Bucket[k])]

(* The element has become larger *)
adjust_up(h, e, k) ==
    /\ In(h, e) /\ k > key[e]
    /\ key' = [key EXCEPT ![e] = k] /\ cached' = [cached EXCEPT ![e] = Bucket[k]]
    /\ hist' = IF Bucket[k] = cached[e] THEN hist
               ELSE [hist EXCEPT ![h].buckets = [@ EXCEPT ![cached[e]] = SelectSeq(@, LAMBDA x : x # e), ![Bucket[k]] = <<e>> \o @],
                                 ![h].watermark = Raised(@, Bucket[k])]

Without(h, b, seq) ==
    LET buckets == [hist[h].buckets EXCEPT ![b] = seq]
    IN hist' = [hist EXCEPT ![h].buckets = buckets, ![h].watermark = Adjusted(buckets, @)]

erase(h, e) ==
    /\ In(h, e) /\ Without(h, cached[e], SelectSeq(hist[h].buckets[cached[e]], LAMBDA x : x # e))
    /\ UNCHANGED <<key, cached>>

pop_one_of_largest(h) ==
    /\ hist[h].watermark # -1
    /\ Without(h, hist[h].watermark, Tail(hist[h].buckets[hist[h].watermark]))
    /\ UNCHANGED <<key, cached>>

merge(h, o) ==
    /\ h # o
    /\ hist' = [hist EXCEPT ![h] = [buckets |-> [b \in DOMAIN @.buckets |-> hist[o].buckets[b] \o @.buckets[b]],
                                    watermark |-> Raised(@.watermark, hist[o].watermark)],
                            ![o] = [buckets |-> [b \in DOMAIN @.buckets |-> <<>>], watermark |-> -1]]
    /\ UNCHANGED <<key, cached>>

(* hist_iterator: the elements, from the watermark down *)
Walk(h) ==
    LET from[b \in -1..number_of_buckets - 1] == IF b = -1 THEN <<>> ELSE hist[h].buckets[b] \o from[b - 1]
    IN from[hist[h].watermark]

HistNext ==
    \E h \in 1..2 :
        \/ pop_one_of_largest(h)
        \/ merge(h, 3 - h)
        \/ \E e \in Elements : erase(h, e) \/ \E k \in 0..max_size : push(h, e, k) \/ adjust_up(h, e, k)

(* What one_of_largest returns has a key that is as large as the others up to the width of a *)
(* bucket; contains_above_min is true exactly if some key is min_size or more; and an         *)
(* iteration meets every element once (log_histogram).                                       *)
LargestFound ==
    \A h \in 1..2 :
        LET all == {e \in Elements : In(h, e)}
            mark == hist[h].watermark
        IN /\ (mark = -1) = (all = {})
           /\ (mark > 0) = (\E e \in all : key[e] >= min_size)
           /\ ToSet(Walk(h)) = all /\ Len(Walk(h)) = Cardinality(all)
           /\ mark # -1 =>
                LET largest == Head(hist[h].buckets[mark])
                IN \A e \in all :
                    \/ key[e] <= key[largest]
                    \/ key[largest] < min_size /\ key[e] < min_size
                    \/ (key[e] - key[largest]) * 2^sub_bucket_shift <= key[largest] - min_size + 1
=============================================================================
