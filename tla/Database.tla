------------------------------ MODULE Database ------------------------------
(***************************************************************************)
(* One shard of the database: clients call the handlers of module Handlers *)
(* in any order, the timer of the cache collects expired entries, and SETs *)
(* and DELs wait for the commit log.                                       *)
(***************************************************************************)
EXTENDS Handlers

CONSTANTS Strings,    \* values of string keys: sequences of bytes
          Numbers,    \* integers clients use: steps, indices, scores
          Offsets,    \* offsets of bits clients use
          MaxSize,    \* bound on the size of a value
          MaxNumber,  \* bound on what increments reach
          MaxCounters,\* bound on the counters among the fields of a hash
          MaxDrift,   \* bound on how far the counters run ahead
          MaxPending  \* bound on SETs and DELs that wait for the log

(* The shard.  pending: SETs and DELs whose record is being appended to    *)
(* the commit log; the appends may end in any order.                       *)

VARIABLES shard, pending

vars == <<shard, pending>>

Init == shard = EmptyShard /\ pending = <<>>

Sizes(s) == [k \in Keys |-> CASE s.type[k] \in {"bytes", "list", "sset"} -> Len(s.val[k])
                              [] s.type[k] = "dict" -> Cardinality(DOMAIN s.val[k])
                              [] s.type[k] = "set"  -> Cardinality(s.val[k])
                              [] OTHER -> 0]

Entries(s, t) == {k \in Keys : s.type[k] = t}

Bounded(s) ==
    /\ \A k \in Keys :
        /\ Sizes(s)[k] <= MaxSize
        /\ s.type[k] = "int64" => s.val[k] \in -MaxNumber .. MaxNumber
        /\ s.type[k] = "dict" =>
              LET counters == {f \in DOMAIN s.val[k] : s.val[k][f][1] # "bytes"}
              IN  /\ Cardinality(counters) <= MaxCounters
                  /\ \A f \in counters : s.val[k][f][2] \in -MaxNumber .. MaxNumber
        /\ s.type[k] = "sset" => \A i \in DOMAIN s.val[k] : s.val[k][i].score \in -MaxNumber .. MaxNumber
    /\ FoldFunction(+, 0, [t \in Types |-> s.total[t] - Cardinality(Entries(s, t))]) <= MaxDrift

Do(result) ==
    /\ shard.status = "up"
    /\ Bounded(result.s)
    /\ shard' = result.s
    /\ UNCHANGED pending

Begin(request) ==
    /\ shard.status = "up"
    /\ Len(pending) < MaxPending
    /\ pending' = Append(pending, request)
    /\ UNCHANGED shard

(* append(m).then(...)                                                     *)
Appended(i) ==
    LET q == pending[i]
        result == IF q.op = "set" THEN set(shard, q.k, q.v, q.ttl, q.nx, q.xx) ELSE del(shard, q.k)
    IN  /\ shard.status = "up"
        /\ Bounded(result.s)
        /\ shard' = result.s
        /\ pending' = RemoveAt(pending, i)

(* Sequences without repetition: what a map yields, what a client sends.   *)
Orders(S) == UNION {{q \in [1 .. n -> S] : IsInjective(q)} : n \in 1 .. 2}

StringCommand(k) ==
    \/ \E v \in Strings, expiring, nx, xx \in BOOLEAN :
          Begin([op |-> "set", k |-> k, v |-> v, ttl |-> expiring, nx |-> nx, xx |-> xx])
    \/ Begin([op |-> "del", k |-> k, v |-> <<>>, ttl |-> FALSE, nx |-> FALSE, xx |-> FALSE])
    \/ \E v \in Strings : Do(set_direct(shard, k, v, FALSE, FALSE, FALSE))
    \/ \E n \in Numbers, incr \in BOOLEAN : Do(counter_by(shard, k, n, incr))
    \/ \E v \in Strings, good \in BOOLEAN : Do(append(shard, k, v, good))
    \/ \E offset \in Offsets, b \in 0 .. 1, what \in {"zero", "one", "undefined"} :
          Do(setbit(shard, k, offset, b, what))
    \/ Do(pfadd(shard, k))
    \/ Do(pfmerge(shard, k))

ExpiryCommand(k) ==
    \/ \E ms \in {0, 1}, earliest \in BOOLEAN : Do(expire(shard, k, ms, earliest))
    \/ Do(persist(shard, k))
    \/ shard.alive[k] /\ Do(release_expired(shard, k))

ListCommand(k) ==
    \/ \E v \in Members, force, left \in BOOLEAN : Do(push(shard, k, v, force, left))
    \/ \E q \in Orders(Members), left \in BOOLEAN : Do(push_multi(shard, k, q, TRUE, left))
    \/ \E left \in BOOLEAN : Do(pop(shard, k, left))
    \/ \E v \in Members, n \in Numbers : Do(lrem(shard, k, n, v))
    \/ \E v, pivot \in Members : Do(linsert(shard, k, pivot, v, TRUE))
    \/ \E v \in Members, n \in Numbers : Do(lset(shard, k, n, v))
    \/ \E b, e \in Numbers : Do(ltrim(shard, k, b, e))

HashCommand(k) ==
    \/ \E f \in Members : Do(hset(shard, k, f, f))
    \/ \E f \in Members, n \in Numbers : Do(hincrby(shard, k, f, n)) \/ Do(hincrbyfloat(shard, k, f, n))
    \/ \E q \in Orders(Members), before \in SUBSET Members :
          Do(hmset(shard, k, [f \in Range(q) |-> f], before))
    \/ \E f \in Members : Do(hdel(shard, k, f))
    \/ \E q \in Orders(Members) : Do(hdel_multi(shard, k, q))

SetCommand(k) ==
    \/ Do(sadds_direct(shard, k, <<>>))
    \/ \E q \in Orders(Members) : Do(sadds(shard, k, q)) \/ Do(sadds_direct(shard, k, q)) \/ Do(srems(shard, k, q))
    \/ \E m \in Members : Do(srem(shard, k, m)) \/ Do(srem_direct(shard, k, m))
    \/ /\ shard.type[k] = "set"
       /\ \E n \in 0 .. Cardinality(shard.val[k]) : \E picks \in [1 .. n -> shard.val[k]] : Do(spop(shard, k, picks))

ZCommand(k) ==
    \/ \E q \in Orders(Members), flags \in {"nx", "xx", "ch"} : \E scores \in [DOMAIN q -> Numbers] :
          Do(zadds(shard, k, [i \in DOMAIN q |-> [m |-> q[i], score |-> scores[i]]], flags))
    \/ \E m \in Members, n \in Numbers : Do(zincrby(shard, k, m, n))
    \/ \E q \in Orders(Members) : Do(zrem(shard, k, q))
    \/ \E b, e \in Numbers : Do(zremrangebyscore(shard, k, b, e)) \/ Do(zremrangebyrank(shard, k, b, e))

Next ==
    \/ \E i \in DOMAIN pending : Appended(i)
    \/ \E k \in Keys :
        \/ StringCommand(k)
        \/ ExpiryCommand(k)
        \/ ListCommand(k)
        \/ HashCommand(k)
        \/ SetCommand(k)
        \/ ZCommand(k)

Spec == Init /\ [][Next]_vars

-----------------------------------------------------------------------------
(* The type of the shard, as far as the counters need it.                  *)
TypeOK ==
    /\ shard.type \in [Keys -> Types \cup {"none"}]
    /\ shard.expires \in [Keys -> BOOLEAN]
    /\ shard.alive \in [Keys -> BOOLEAN]
    /\ shard.total \in [Types -> Int]
    /\ shard.status \in {"up", "aborted", "undefined"}

(* No entry counter falls below the number of entries it counts, so that   *)
(* none of the unsigned counters wraps: every way out of the cache, by a   *)
(* command that empties a container, by DEL, by the timer or by SET over   *)
(* the key, counts out no more than was counted in.                        *)
CountersCover ==
    shard.status = "up" => \A t \in Types : Cardinality(Entries(shard, t)) <= shard.total[t]

(* A list or hash that a command has emptied is not in the cache when the  *)
(* command ends, which pop() asserts of a list.  (A set is created empty   *)
(* when SDIFFSTORE or SUNIONSTORE has an empty result, and stays.)         *)
NoEmptyContainer ==
    shard.status = "up" =>
        \A k \in Keys : shard.type[k] \in {"list", "dict"} => Sizes(shard)[k] > 0

(* What ever_expires() is linked in _alive, and only an entry that was     *)
(* given a time of 0 is linked and never expires: what erase() by key      *)
(* relies on.                                                              *)
ExpiringIsLinked == \A k \in Keys : shard.expires[k] => shard.alive[k] /\ shard.type[k] # "none"

(* The bookkeeping of a shard: entry counters never wrap, and what expires *)
(* is linked.                                                              *)
ShardConsistent == CountersCover /\ ExpiringIsLinked

(* An integer reply of a command that adds or removes elements is the      *)
(* number by which the value grew or shrank, also when arguments repeat    *)
(* and when the key goes with its last element.                            *)
Changed(result, k) ==
    result.s.status # "up" \/ result.r[1] # ":"
        \/ LET d == Sizes(result.s)[k] - Sizes(shard)[k] IN result.r[2] = IF d < 0 THEN -d ELSE d

ReplyCountsChange ==
    shard.status = "up" => \A k \in Keys :
        /\ \A v \in Members, n \in Numbers : Changed(lrem(shard, k, n, v), k)
        /\ \A q \in [1 .. 2 -> Members] :
            /\ Changed(hdel_multi(shard, k, q), k)
            /\ Changed(sadds(shard, k, q), k)
            /\ Changed(srems(shard, k, q), k)
            /\ Changed(zrem(shard, k, q), k)
        /\ \A b, e \in Numbers :
            Changed(zremrangebyrank(shard, k, b, e), k) /\ Changed(zremrangebyscore(shard, k, b, e), k)
=============================================================================
