------------------------------- MODULE Redis --------------------------------
(***************************************************************************)
(* The commands of redis_service (redis.cc): each checks and converts its  *)
(* arguments on the shard of the connection and calls the database on the  *)
(* shard that owns the key.  Commands over several keys call several       *)
(* shards at once (parallel_for_each), collect the answers in whatever     *)
(* order they come, and may go on with another call.                       *)
(*                                                                         *)
(*   shards   the database of every shard                                  *)
(*   script   what each connection is going to send                        *)
(*   cmd      the command that a connection waits for: its calls, which of *)
(*            them a shard has executed, with what result, and which of    *)
(*            the results have arrived, in their order                     *)
(*   received what each connection has been sent                           *)
(*   during   for the keys that a command reads: the members that the set  *)
(*            has had all along, or at some time, since the command began  *)
(*                                                                         *)
(* Arguments are words.  Numbers too large for a conversion, for which it  *)
(* throws what no handler catches, are left to module Connection, where    *)
(* handlers may throw.  A shard that stops takes the process with it.      *)
(***************************************************************************)
EXTENDS Integers, Sequences, FiniteSets, FiniteSetsExt, Functions, ReplyBuilder

CONSTANTS Cpus, Conns, Keys, Members, Undefined,
          Owner,      \* hash % smp::count
          Numerals,   \* the number a word stands for, if it does
          Bytes,      \* the bytes of a word that is stored as a string
          GeoHash,    \* the score of the coordinates that have one
          Home,       \* the shard of a connection
          Scripts     \* what clients send: for each connection, its requests

db == INSTANCE Handlers

Reply(s, r) == [s |-> s, r |-> r]

(* The check for too few arguments with which every command begins.        *)
Need(s, a, n, result) == IF Len(a) < n THEN Reply(s, msg_syntax_err) ELSE result

(* std::atoi and atol: what is no number is 0.                             *)
atol(w) == IF w \in DOMAIN Numerals THEN Numerals[w] ELSE 0

(* std::stol and stod throw, which the command turns into an error.        *)
Numeric(s, words, result) ==
    IF Range(words) \subseteq DOMAIN Numerals THEN result ELSE Reply(s, msg_syntax_err)

(* An argument that is not there is used.                                  *)
Gone(s) == Reply([s EXCEPT !.status = "undefined"], no_reply)

-----------------------------------------------------------------------------
(* Commands on one key: operators from the shard s of the key and the      *)
(* arguments a to the shard after it and the reply.                        *)

ping(s, a)    == Reply(s, msg_pong)
command(s, a) == Reply(s, msg_ok)

(* The loop over the options of SET; what follows EX and PX is skipped.    *)
set_options(a) ==
    LET Step(acc, i) ==
          IF acc.skip THEN [acc EXCEPT !.skip = FALSE]
          ELSE IF Len(a[i]) # 2 THEN [acc EXCEPT !.ok = FALSE]
          ELSE IF a[i] \notin {"EX", "PX"} THEN [acc EXCEPT !.flags = @ \cup {a[i]}]
          ELSE IF i = Len(a) THEN [acc EXCEPT !.ok = FALSE]
          ELSE [acc EXCEPT !.skip = TRUE, !.expir = atol(a[i + 1]) * (IF a[i] = "EX" THEN 1000 ELSE 1)]
    IN  db!FoldLeft(Step, [ok |-> TRUE, skip |-> FALSE, flags |-> {}, expir |-> 0], [i \in 1 .. Len(a) - 2 |-> i + 2])

set(s, a) ==
    LET o == set_options(a)
    IN  Need(s, a, 2,
            IF ~o.ok THEN Reply(s, msg_syntax_err)
            ELSE db!set(s, a[1], Bytes[a[2]], o.expir > 0, "NX" \in o.flags, "XX" \in o.flags))

get(s, a)          == Need(s, a, 1, db!get(s, a[1]))
strlen(s, a)       == Need(s, a, 1, db!strlen(s, a[1]))
append(s, a, good) == Need(s, a, 2, db!append(s, a[1], Bytes[a[2]], good))

(* An inapplicable step counts as 0.                                       *)
counter_by(s, a, incr, with_step) ==
    Need(s, a, IF with_step THEN 2 ELSE 1, db!counter_by(s, a[1], IF with_step THEN atol(a[2]) ELSE 1, incr))

incr(s, a)   == counter_by(s, a, TRUE, FALSE)
incrby(s, a) == counter_by(s, a, TRUE, TRUE)
decr(s, a)   == counter_by(s, a, FALSE, FALSE)
decrby(s, a) == counter_by(s, a, FALSE, TRUE)

push_impl(s, a, force, left) ==
    Need(s, a, 2,
        IF Len(a) = 2 THEN db!push(s, a[1], a[2], force, left)
        ELSE db!push_multi(s, a[1], Tail(a), force, left))

lpush(s, a)  == push_impl(s, a, TRUE, FALSE)
lpushx(s, a) == push_impl(s, a, FALSE, FALSE)
rpush(s, a)  == push_impl(s, a, TRUE, TRUE)
rpushx(s, a) == push_impl(s, a, FALSE, TRUE)

pop_impl(s, a, left) == Need(s, a, 1, db!pop(s, a[1], left))

lpop(s, a)    == pop_impl(s, a, FALSE)
rpop(s, a)    == pop_impl(s, a, TRUE)
lindex(s, a)  == Need(s, a, 2, db!lindex(s, a[1], atol(a[2])))
llen(s, a)    == Need(s, a, 1, db!llen(s, a[1]))
linsert(s, a) == Need(s, a, 4, db!linsert(s, a[1], a[3], a[4], a[2] # "BEFORE"))
lrange(s, a)  == Need(s, a, 3, db!lrange(s, a[1], atol(a[2]), atol(a[3])))
lset(s, a)    == Need(s, a, 3, db!lset(s, a[1], atol(a[2]), a[3]))
ltrim(s, a)   == Need(s, a, 3, db!ltrim(s, a[1], atol(a[2]), atol(a[3])))
lrem(s, a)    == Need(s, a, 3, db!lrem(s, a[1], atol(a[2]), a[3]))

hdel(s, a) ==
    Need(s, a, 2, IF Len(a) = 2 THEN db!hdel(s, a[1], a[2]) ELSE db!hdel_multi(s, a[1], Tail(a)))

hexists(s, a) == Need(s, a, 2, db!hexists(s, a[1], a[2]))
hset(s, a)    == Need(s, a, 3, db!hset(s, a[1], a[2], a[3]))

(* The loop pairs each argument with the next one, beginning with the key. *)
hmset(s, a, before) ==
    LET n == (Len(a) - 1) \div 2
        First(f) == Min({i \in 1 .. n : a[i] = f})
    IN  Need(s, a, 3, db!hmset(s, a[1], [f \in {a[i] : i \in 1 .. n} |-> a[First(f) + 1]], before))

hincrby(s, a)        == Need(s, a, 3, db!hincrby(s, a[1], a[2], atol(a[3])))
hincrbyfloat(s, a)   == Need(s, a, 3, db!hincrbyfloat(s, a[1], a[2], atol(a[3])))
hlen(s, a)           == Need(s, a, 1, db!hlen(s, a[1]))
hstrlen(s, a)        == Need(s, a, 2, db!hstrlen(s, a[1], a[2]))
hget(s, a)           == Need(s, a, 2, db!hget(s, a[1], a[2]))
hgetall(s, a)        == Need(s, a, 1, db!hgetall_impl(s, a[1], TRUE, TRUE))
hgetall_keys(s, a)   == Need(s, a, 1, db!hgetall_impl(s, a[1], TRUE, FALSE))
hgetall_values(s, a) == Need(s, a, 1, db!hgetall_impl(s, a[1], FALSE, TRUE))
hmget(s, a)          == Need(s, a, 1, db!hmget(s, a[1], Tail(a)))

smembers(s, a)  == Need(s, a, 1, db!smembers(s, a[1]))
sadd(s, a)      == Need(s, a, 2, db!sadds(s, a[1], Tail(a)))
scard(s, a)     == Need(s, a, 1, db!scard(s, a[1]))
sismember(s, a) == Need(s, a, 2, db!sismember(s, a[1], a[2]))
srem(s, a)      == Need(s, a, 2, db!srems(s, a[1], Tail(a)))

(* picks: what the random numbers hit, as many as were asked for and there *)
(* are.                                                                    *)
srandmember(s, a, picks) == Need(s, a, 1, Numeric(s, Tail(a), db!srandmember(s, a[1], picks)))
spop(s, a, picks)        == Need(s, a, 1, Numeric(s, Tail(a), db!spop(s, a[1], picks)))

Picks(s, a) ==
    IF a = <<>> \/ s.type[a[1]] # "set" THEN {<<>>}
    ELSE LET asked == IF Len(a) > 1 THEN atol(a[2]) ELSE 1
             there == Cardinality(s.val[a[1]])
         IN  [1 .. (IF asked < 0 THEN there ELSE Min({asked, there})) -> s.val[a[1]]]

type(s, a)              == Need(s, a, 1, db!type(s, a[1]))
expire(s, a, earliest)  == Need(s, a, 2, db!expire(s, a[1], atol(a[2]) * 1000, earliest))
pexpire(s, a, earliest) == Need(s, a, 2, db!expire(s, a[1], atol(a[2]), earliest))
pttl(s, a, left)        == Need(s, a, 1, db!pttl(s, a[1], left))
ttl(s, a, left)         == Need(s, a, 1, db!ttl(s, a[1], left))
persist(s, a)           == Need(s, a, 1, db!persist(s, a[1]))

(* A map from members to scores, in some order; a member that comes twice  *)
(* keeps its first score.                                                  *)
Orders(a, from, step) ==
    LET at       == {i \in from .. Len(a) : (i - from) % step = 0}
        First(i) == \A j \in at : a[j + step - 1] = a[i + step - 1] => i <= j
        map      == {i \in at : First(i)}
    IN  {q \in [1 .. Cardinality(map) -> map] : IsInjective(q)}

ZaddFlag(a) == Len(a) >= 2 /\ a[2] \in {"nx", "xx", "ch", "incr"}

(* CH is always set; INCR with one argument too few uses one that is not   *)
(* there.                                                                  *)
zadd(s, a, order) ==
    LET from   == IF ZaddFlag(a) THEN 3 ELSE 2
        flag   == IF ZaddFlag(a) THEN a[2] ELSE "ch"
        n      == Len(a) - from + 1
        scores == [i \in 1 .. n \div 2 |-> a[from + 2 * i - 2]]
        pairs  == [i \in DOMAIN order |-> [m |-> a[order[i] + 1], score |-> Numerals[a[order[i]]]]]
    IN  Need(s, a, 3,
            IF flag = "incr"
            THEN IF n > 2 THEN Reply(s, msg_syntax_err)
                 ELSE Numeric(s, <<a[3]>>, IF n = 1 THEN Gone(s) ELSE db!zincrby(s, a[1], a[4], Numerals[a[3]]))
            ELSE IF n % 2 # 0 THEN Reply(s, msg_syntax_err)
            ELSE Numeric(s, scores, db!zadds(s, a[1], pairs, flag)))

WithScores(a) == Len(a) = 4 /\ a[4] = "WITHSCORES"

zcard(s, a) == Need(s, a, 1, db!zcard(s, a[1]))

zrange(s, a, reverse) ==
    Need(s, a, 3, Numeric(s, SubSeq(a, 2, 3),
        db!zrange(s, a[1], Numerals[a[2]], Numerals[a[3]], reverse, WithScores(a))))

zrangebyscore(s, a, reverse) ==
    Need(s, a, 3, Numeric(s, SubSeq(a, 2, 3),
        db!zrangebyscore(s, a[1], Numerals[a[2]], Numerals[a[3]], reverse, WithScores(a))))

(* Only the key is checked for.                                            *)
zcount(s, a) ==
    Need(s, a, 1,
        IF Len(a) < 3 THEN Numeric(s, Tail(a), Gone(s))
        ELSE Numeric(s, SubSeq(a, 2, 3), db!zcount(s, a[1], Numerals[a[2]], Numerals[a[3]])))

zincrby(s, a)        == Need(s, a, 3, Numeric(s, <<a[2]>>, db!zincrby(s, a[1], a[3], Numerals[a[2]])))
zrank(s, a, reverse) == Need(s, a, 2, db!zrank(s, a[1], a[2], reverse))
zrem(s, a)           == Need(s, a, 2, db!zrem(s, a[1], Tail(a)))
zscore(s, a)         == Need(s, a, 2, db!zscore(s, a[1], a[2]))

zremrangebyscore(s, a) ==
    Need(s, a, 3, Numeric(s, SubSeq(a, 2, 3), db!zremrangebyscore(s, a[1], Numerals[a[2]], Numerals[a[3]])))

zremrangebyrank(s, a) ==
    Need(s, a, 3, Numeric(s, SubSeq(a, 2, 3), db!zremrangebyrank(s, a[1], Numerals[a[2]], Numerals[a[3]])))

(* Not implemented: the code is a comment.                                 *)
zinterstore(s, a) == Reply(s, msg_syntax_err)
pfcount(s, a)     == Reply(s, msg_syntax_err)
pfmerge(s, a)     == Reply(s, msg_syntax_err)

(* Coordinates are checked in the order of the arguments: one that is no   *)
(* number is a syntax error, a point off the map an error.                 *)
geoadd(s, a, order) ==
    LET at      == {i \in 2 .. Len(a) : (i - 2) % 3 = 0}
        NoNum(i) == ~{a[i], a[i + 1]} \subseteq DOMAIN Numerals
        Point(i) == <<Numerals[a[i]], Numerals[a[i + 1]]>>
        bad     == {i \in at : IF NoNum(i) THEN TRUE ELSE Point(i) \notin DOMAIN GeoHash}
        pairs   == [i \in DOMAIN order |-> [m |-> a[order[i] + 2], score |-> GeoHash[Point(order[i])]]]
    IN  IF Len(a) < 4 \/ (Len(a) - 1) % 3 # 0 THEN Reply(s, msg_syntax_err)
        ELSE IF bad # {} THEN Reply(s, IF NoNum(Min(bad)) THEN msg_syntax_err ELSE msg_err)
        ELSE db!zadds(s, a[1], pairs, "ch")

geodist(s, a, decodes) ==
    Need(s, a, 3,
        IF Len(a) = 4 /\ a[4] \notin {"km", "mi", "ft"} THEN Reply(s, msg_syntax_err)
        ELSE db!geodist(s, a[1], a[2], a[3], decodes))

geohash(s, a, decodes) == Need(s, a, 2, db!geohash(s, a[1], Tail(a), decodes))

(* The members are collected in one vector, another one is passed on.      *)
geopos(s, a, decodes) == Need(s, a, 2, db!geopos(s, a[1], <<>>, decodes))

(* A future without a message, which the connection then writes.           *)
georadius(s, a) == Gone(s)

setbit(s, a, what) ==
    Need(s, a, 3, Numeric(s, SubSeq(a, 2, 3),
        db!setbit(s, a[1], Numerals[a[2]], IF Numerals[a[3]] = 1 THEN 1 ELSE 0, what)))

getbit(s, a)   == Need(s, a, 2, Numeric(s, <<a[2]>>, db!getbit(s, a[1], Numerals[a[2]])))
bitcount(s, a) ==
    Need(s, a, 3, Numeric(s, SubSeq(a, 2, 3), db!bitcount(s, a[1], Numerals[a[2]], Numerals[a[3]])))

pfadd(s, a) == Need(s, a, 2, db!pfadd(s, a[1]))

-----------------------------------------------------------------------------
(* _commands of server.cc, for commands on one key.  ch: what the code     *)
(* leaves open (LeftOpen).                                                  *)
run(s, name, a, ch) ==
    CASE name = "set" -> set(s, a)             [] name = "get" -> get(s, a)
      [] name = "ping" -> ping(s, a)           [] name = "command" -> command(s, a)
      [] name = "incr" -> incr(s, a)           [] name = "decr" -> decr(s, a)
      [] name = "incrby" -> incrby(s, a)       [] name = "decrby" -> decrby(s, a)
      [] name = "append" -> append(s, a, ch)   [] name = "strlen" -> strlen(s, a)
      [] name = "lpush" -> lpush(s, a)         [] name = "lpushx" -> lpushx(s, a)
      [] name = "rpush" -> rpush(s, a)         [] name = "rpushx" -> rpushx(s, a)
      [] name = "lpop" -> lpop(s, a)           [] name = "rpop" -> rpop(s, a)
      [] name = "llen" -> llen(s, a)           [] name = "lindex" -> lindex(s, a)
      [] name = "linsert" -> linsert(s, a)     [] name = "lrange" -> lrange(s, a)
      [] name = "lset" -> lset(s, a)           [] name = "lrem" -> lrem(s, a)
      [] name = "ltrim" -> ltrim(s, a)         [] name = "hset" -> hset(s, a)
      [] name = "hmset" -> hmset(s, a, ch)     [] name = "hdel" -> hdel(s, a)
      [] name = "hget" -> hget(s, a)           [] name = "hlen" -> hlen(s, a)
      [] name = "hexists" -> hexists(s, a)     [] name = "hstrlen" -> hstrlen(s, a)
      [] name = "hincrby" -> hincrby(s, a)     [] name = "hincrbyfloat" -> hincrbyfloat(s, a)
      [] name = "hkeys" -> hgetall_keys(s, a)  [] name = "hvals" -> hgetall_values(s, a)
      [] name = "hmget" -> hmget(s, a)         [] name = "hgetall" -> hgetall(s, a)
      [] name = "sadd" -> sadd(s, a)           [] name = "scard" -> scard(s, a)
      [] name = "sismember" -> sismember(s, a) [] name = "smembers" -> smembers(s, a)
      [] name = "srandmember" -> srandmember(s, a, ch)
      [] name = "spop" -> spop(s, a, ch)       [] name = "srem" -> srem(s, a)
      [] name = "type" -> type(s, a)           [] name = "persist" -> persist(s, a)
      [] name = "expire" -> expire(s, a, ch)   [] name = "pexpire" -> pexpire(s, a, ch)
      [] name = "ttl" -> ttl(s, a, ch)         [] name = "pttl" -> pttl(s, a, ch)
      [] name = "zadd" -> zadd(s, a, ch)       [] name = "zrem" -> zrem(s, a)
      [] name = "zrange" -> zrange(s, a, FALSE)
      [] name = "zrevrange" -> zrange(s, a, TRUE)
      [] name = "zrangebyscore" -> zrangebyscore(s, a, FALSE)
      [] name = "zrevrangebyscore" -> zrangebyscore(s, a, TRUE)
      [] name = "zremrangebyscore" -> zremrangebyscore(s, a)
      [] name = "zremrangebyrank" -> zremrangebyrank(s, a)
      [] name = "zcard" -> zcard(s, a)         [] name = "zcount" -> zcount(s, a)
      [] name = "zscore" -> zscore(s, a)       [] name = "zincrby" -> zincrby(s, a)
      [] name = "zrank" -> zrank(s, a, FALSE)  [] name = "zrevrank" -> zrank(s, a, TRUE)
      [] name = "zinterstore" -> zinterstore(s, a)
      [] name = "geoadd" -> geoadd(s, a, ch)   [] name = "geodist" -> geodist(s, a, ch)
      [] name = "geopos" -> geopos(s, a, ch)   [] name = "geohash" -> geohash(s, a, ch)
      [] name \in {"georadius", "georadiusbymember"} -> georadius(s, a)
      [] name = "setbit" -> setbit(s, a, ch)   [] name = "getbit" -> getbit(s, a)
      [] name = "bitcount" -> bitcount(s, a)   [] name = "pfadd" -> pfadd(s, a)
      [] name = "pfcount" -> pfcount(s, a)     [] name = "pfmerge" -> pfmerge(s, a)
      [] OTHER -> Reply(s, msg_nocmd_err)

LeftOpen(s, name, a) ==
    CASE name \in {"append", "expire", "pexpire", "geodist", "geopos", "geohash"} -> BOOLEAN
      [] name \in {"ttl", "pttl"} -> {0, 1000}
      [] name = "setbit" -> {"zero", "one", "undefined"}
      [] name = "hmset" -> SUBSET Range(a)
      [] name \in {"srandmember", "spop"} -> Picks(s, a)
      [] name = "zadd" /\ Len(a) % 2 = (IF ZaddFlag(a) THEN 0 ELSE 1) -> Orders(a, IF ZaddFlag(a) THEN 3 ELSE 2, 2)
      [] name = "geoadd" /\ Len(a) % 3 = 1 -> Orders(a, 2, 3)
      [] OTHER -> {0}

-----------------------------------------------------------------------------
(* Commands over several keys: plans.  A plan has calls [cpu, h, k, arg], a *)
(* handler with its key and argument and the shard it is sent to, and a    *)
(* continuation for when all have been answered.                           *)

(* redis_key::get_cpu                                                      *)
get_cpu(k) == Owner[k]

Answer(m) == [calls |-> <<>>, then |-> "answer", x |-> m]

Calls(h, keys, then, x) ==
    [calls |-> [i \in DOMAIN keys |-> [cpu |-> get_cpu(keys[i]), h |-> h, k |-> keys[i], arg |-> <<>>]], then |-> then, x |-> x]

CallOn(cpu, h, k, v, then, x) == [calls |-> <<[cpu |-> cpu, h |-> h, k |-> k, arg |-> v]>>, then |-> then, x |-> x]

OneCall(h, k, v, then, x) == CallOn(get_cpu(k), h, k, v, then, x)

OnOneKey(name, a) == OneCall(name, IF a = <<>> THEN CHOOSE k \in Keys : TRUE ELSE a[1], a, "reply", 0)

Required(a, n, plan) == IF Len(a) < n THEN Answer(msg_syntax_err) ELSE plan

(* MSET, unlike SET and DEL, is not written to the commit log.             *)
del(a)  == Required(a, 1, Calls("del_direct", a, "count", 0))
mset(a) ==
    Required(a, 2,
        IF Len(a) % 2 # 0 THEN Answer(msg_syntax_err)
        ELSE [calls |-> [i \in 1 .. Len(a) \div 2 |-> [cpu |-> get_cpu(a[2 * i - 1]), h |-> "set_direct", k |-> a[2 * i - 1], arg |-> a[2 * i]]],
              then  |-> "all", x |-> msg_ok])

mget(a)   == Required(a, 1, Calls("get_direct", a, "found", 0))
exists(a) == Required(a, 1, Calls("exists_direct", a, "count", 0))

(* dest: the key to store the result in, if any.                           *)
sset_read(a, then)  == Required(a, 1, IF Len(a) = 1 THEN OnOneKey("smembers", a) ELSE Calls("smembers_direct", a, then, <<>>))
sset_store(a, then) == Required(a, 2, Calls("smembers_direct", Tail(a), then, <<a[1]>>))

sdiff(a)        == sset_read(a, "sdiff")
sdiff_store(a)  == sset_store(a, "sdiff")
sinter(a)       == sset_read(a, "sinter")
sinter_store(a) == sset_store(a, "sinter")
sunion(a)       == sset_read(a, "sunion")
sunion_store(a) == sset_store(a, "sunion")

(* The member is moved into the first call: the empty string is left.      *)
smove(a) == Required(a, 3, OneCall("srem_direct", a[1], a[3], "removed", [dst |-> a[2], member |-> ""]))

select(a) ==
    Required(a, 1,
        IF a[1] \notin DOMAIN Numerals THEN Answer(msg_err)
        ELSE IF Numerals[a[1]] \notin 0 .. Cardinality(Cpus) - 1 THEN Answer(msg_syntax_err)
        ELSE Calls("select", db!SetToSeq({CHOOSE k \in Keys : Owner[k] = cpu : cpu \in Cpus}), "all", msg_ok))

(* The loop over the options of ZUNIONSTORE.  Behind the weights one word  *)
(* is stepped over; the word behind AGGREGATE need not be there; the flags *)
(* it is or-ed to are not initialized (garbage).  A negative number of     *)
(* keys asks for more memory than there is.                                *)
parse_zset_args(a, garbage) ==
    LET n == Numerals[a[2]]
        Step(acc, i) ==
          IF i < acc.next THEN acc
          ELSE IF a[i] = "WEIGHTS"
               THEN IF i + n > Len(a) \/ ~Range(SubSeq(a, i + 1, i + n)) \subseteq DOMAIN Numerals
                    THEN [acc EXCEPT !.ok = FALSE]
                    ELSE [acc EXCEPT !.weights = @ \o [j \in 1 .. n |-> Numerals[a[i + j]]], !.next = i + n + 2]
          ELSE IF a[i] = "AGGREGATE"
               THEN IF i = Len(a) THEN [acc EXCEPT !.gone = TRUE]
                    ELSE IF a[i + 1] \notin {"SUM", "MIN", "MAX"} THEN [acc EXCEPT !.ok = FALSE]
                    ELSE [acc EXCEPT !.flag = garbage, !.next = i + 2]
          ELSE acc
    IN  db!FoldLeft(Step, [ok |-> TRUE, gone |-> FALSE, weights |-> <<>>, flag |-> "SUM", next |-> 0],
                 [i \in 1 .. Len(a) - n - 2 |-> n + 2 + i])

zunionstore(a, garbage) ==
    Required(a, 3,
        IF a[2] \notin DOMAIN Numerals THEN Answer(msg_syntax_err)
        ELSE LET n == Numerals[a[2]]
                 p == parse_zset_args(a, garbage)
             IN  IF n < -2 \/ Len(a) < n + 2 \/ ~p.ok THEN Answer(msg_syntax_err)
                 ELSE IF p.gone \/ n < 0 THEN [calls |-> <<>>, then |-> "gone", x |-> 0]
                 ELSE Calls("zrange_direct", SubSeq(a, 3, n + 2), "zunion",
                            [dest |-> a[1], flag |-> p.flag,
                             weights |-> IF p.weights = <<>> THEN [i \in 1 .. n |-> 1] ELSE p.weights]))

plan(name, a, garbage) ==
    CASE name = "del" -> del(a)                   [] name = "exists" -> exists(a)
      [] name = "mset" -> mset(a)                 [] name = "mget" -> mget(a)
      [] name = "sdiff" -> sdiff(a)               [] name = "sdiffstore" -> sdiff_store(a)
      [] name = "sinter" -> sinter(a)             [] name = "sinterstore" -> sinter_store(a)
      [] name = "sunion" -> sunion(a)             [] name = "sunionstore" -> sunion_store(a)
      [] name = "smove" -> smove(a)               [] name = "select" -> select(a)
      [] name = "zunionstore" -> zunionstore(a, garbage)
      [] OTHER -> OnOneKey(name, a)

-----------------------------------------------------------------------------
(* Continuations: what follows when the calls of plan p have been answered *)
(* with got, in the given order.                                           *)

Bulks(q) == build_array([i \in DOMAIN q |-> <<"$", q[i]>>])

(* sadds_impl_return_keys: the reply is made of the vector that has been   *)
(* moved to the other shard, so it is empty.                               *)
Store(dest, q) ==
    IF dest = <<>> THEN Answer(Bulks(q)) ELSE OneCall("sadds_direct", dest[1], q, "stored", <<>>)

sdiff_impl(p, got) ==
    Store(p.x, SelectSeq(db!SetToSeq(got[1]), LAMBDA m : \A i \in 2 .. Len(got) : m \notin got[i]))

(* An empty set among the others ends the loop: the result so far is the   *)
(* reply, and is not stored.                                               *)
sinter_impl(p, got) ==
    LET Before(n) == {m \in got[1] : \A i \in 2 .. n : m \in got[i]}
        stops     == {i \in 2 .. Len(got) : Before(i - 1) = {} \/ got[i] = {}}
    IN  IF stops # {} THEN Answer(Bulks(db!SetToSeq(Before(Min(stops) - 1))))
        ELSE Store(p.x, db!SetToSeq(Before(Len(got))))

sunion_impl_LastAnswer(p, got, order) == Store(p.x, db!SetToSeq(got[order[Len(order)]]))

sunion_impl(p, got, order) ==
    Store(p.x, db!FoldLeft(LAMBDA acc, i : acc \o SelectSeq(db!SetToSeq(got[i]), LAMBDA m : m \notin Range(acc)), <<>>, order))

score_aggregation(old, new, flag) ==
    CASE flag = "MIN" -> Min({old, new}) [] flag = "SUM" -> old + new [] flag = "MAX" -> Max({old, new})

(* The first score of a member is taken without its weight.                *)
zunionstore_impl(p, got, order) ==
    LET Add(acc, w, e) ==
          [m \in DOMAIN acc \cup {e.m} |->
              IF m # e.m THEN acc[m]
              ELSE IF m \in DOMAIN acc THEN score_aggregation(acc[m], e.score * w, p.x.flag)
              ELSE e.score]
        AddRange(acc, i) == db!FoldLeft(LAMBDA r, e : Add(r, p.x.weights[i], e), acc, got[i])
    IN  OneCall("zadds", p.x.dest, db!FoldLeft(AddRange, [m \in {} |-> 0], order), "reply", 0)

smove_added_SameShard(p, got) ==
    IF got[1] THEN CallOn(p.calls[1].cpu, "sadd_direct", p.x.dst, p.x.member, "count", 0) ELSE Answer(msg_zero)

(* The second half of SMOVE.                                               *)
smove_added(p, got) ==
    IF got[1] THEN OneCall("sadd_direct", p.x.dst, p.x.member, "count", 0) ELSE Answer(msg_zero)

continue(p, got, order) ==
    CASE p.then = "reply"   -> Answer(got[1])
      [] p.then = "count"   -> Answer(build_size(Cardinality({i \in DOMAIN got : got[i]})))
      [] p.then = "all"     -> Answer(IF \A i \in DOMAIN got : got[i] THEN p.x ELSE msg_err)
      [] p.then = "found"   -> Answer(build_found(Joined([j \in DOMAIN order |-> got[order[j]]])))
      [] p.then = "stored"  -> Answer(IF got[1] THEN Bulks(p.x) ELSE msg_err)
      [] p.then = "removed" -> smove_added(p, got)
      [] p.then = "sdiff"   -> sdiff_impl(p, got)
      [] p.then = "sinter"  -> sinter_impl(p, got)
      [] p.then = "sunion"  -> sunion_impl(p, got, order)
      [] p.then = "zunion"  -> zunionstore_impl(p, got, order)
      [] OTHER              -> p

-----------------------------------------------------------------------------
VARIABLES shards, script, cmd, received, during

redisVars == <<shards, script, cmd, received, during>>

Idle == [calls |-> <<>>, then |-> "idle", x |-> 0, got |-> <<>>, done |-> {}, order |-> <<>>]

Unwatched == [k \in Keys |-> [always |-> {}, ever |-> {}]]

NoCommandYet ==
    /\ shards = [c \in Cpus |-> db!EmptyShard]
    /\ cmd = [c \in Conns |-> Idle]
    /\ received = [c \in Conns |-> <<>>]
    /\ during = [c \in Conns |-> Unwatched]

RedisInit == NoCommandYet /\ script \in Scripts

Up == \A cpu \in Cpus : shards[cpu].status = "up"

(* What a key holds, as far as commands over several keys read it.         *)
Contents(s, k) ==
    CASE s.type[k] = "set"   -> {<<"member", m>> : m \in s.val[k]} \cup {<<"key", k>>}
      [] s.type[k] = "bytes" -> {<<"string", s.val[k]>>, <<"key", k>>}
      [] s.type[k] = "none"  -> {}
      [] OTHER               -> {<<"key", k>>}

MultiKey == {"del", "exists", "mset", "mget", "sdiff", "sdiffstore", "sinter", "sinterstore", "sunion", "sunionstore", "smove"}

Watched(name) ==
    IF name \notin MultiKey THEN Unwatched
    ELSE [k \in Keys |-> LET now == Contents(shards[Owner[k]], k) IN [always |-> now, ever |-> now]]

(* Connection c goes on with plan p, or has its reply; d is during[c].     *)
Proceed(c, p, d) ==
    LET q == IF p.calls = <<>> THEN continue(p, <<>>, <<>>) ELSE p
    IN  CASE q.then = "answer" ->
               /\ cmd' = [cmd EXCEPT ![c] = Idle]
               /\ script' = [script EXCEPT ![c] = Tail(@)]
               /\ received' = [received EXCEPT ![c] = Append(@, [req |-> Head(script[c]), r |-> q.x, during |-> d])]
               /\ during' = [during EXCEPT ![c] = Unwatched]
               /\ UNCHANGED shards
          [] q.then = "gone" ->
               /\ shards' = [shards EXCEPT ![Home[c]].status = "undefined"]
               /\ UNCHANGED <<cmd, script, received, during>>
          [] OTHER ->
               /\ cmd' = [cmd EXCEPT ![c] = [calls |-> q.calls, then |-> q.then, x |-> q.x, done |-> {}, order |-> <<>>,
                                             got |-> [i \in DOMAIN q.calls |-> <<>>]]]
               /\ during' = [during EXCEPT ![c] = d]
               /\ UNCHANGED <<shards, script, received>>

(* do_handle_one                                                           *)
Submit(c) ==
    /\ Up /\ cmd[c].then = "idle" /\ script[c] # <<>>
    /\ LET name == Head(script[c])[1]
       IN  \E garbage \in {"SUM", "MIN", "MAX"} :
               Proceed(c, plan(name, Tail(Head(script[c])), garbage), Watched(name))

Handle(s, call, ch) ==
    CASE call.h = "del_direct"      -> db!del_direct(s, call.k)
      [] call.h = "exists_direct"   -> Reply(s, db!exists_direct(s, call.k))
      [] call.h = "set_direct"      -> db!set_direct(s, call.k, Bytes[call.arg], FALSE, FALSE, FALSE)
      [] call.h = "get_direct"      -> db!get_direct(s, call.k)
      [] call.h = "smembers_direct" -> db!smembers_direct(s, call.k)
      [] call.h = "sadds_direct"    -> db!sadds_direct(s, call.k, call.arg)
      [] call.h = "srem_direct"     -> db!srem_direct(s, call.k, call.arg)
      [] call.h = "sadd_direct"     -> db!sadd_direct(s, call.k, call.arg)
      [] call.h = "zrange_direct"   -> db!zrange_direct(s, call.k, 0, -1)
      [] call.h = "zadds"           -> db!zadds(s, call.k, [i \in DOMAIN ch |-> [m |-> ch[i], score |-> call.arg[ch[i]]]], "ch")
      [] call.h = "select"          -> Reply(s, TRUE)
      [] OTHER                      -> run(s, call.h, call.arg, ch)

(* invoke_on: the owner of the key executes call i.                        *)
Execute(c, i) ==
    LET call == cmd[c].calls[i]
        cpu  == call.cpu
        s    == shards[cpu]
    IN  /\ Up /\ i \notin cmd[c].done
        /\ \E ch \in (IF call.h = "zadds" THEN {q \in [1 .. Cardinality(DOMAIN call.arg) -> DOMAIN call.arg] : IsInjective(q)}
                       ELSE LeftOpen(s, call.h, call.arg)) :
            LET result == Handle(s, call, ch)
            IN  /\ shards' = [shards EXCEPT ![cpu] = result.s]
                /\ cmd' = [cmd EXCEPT ![c].got[i] = <<result.r>>, ![c].done = @ \cup {i}]
                /\ during' = [d \in Conns |-> [k \in Keys |->
                      IF Owner[k] # cpu \/ cmd[d].then = "idle" \/ Head(script[d])[1] \notin MultiKey
                      THEN during[d][k]
                      ELSE [always |-> during[d][k].always \cap Contents(result.s, k),
                            ever   |-> during[d][k].ever \cup Contents(result.s, k)]]]
        /\ UNCHANGED <<script, received>>

Arrive_LastKeyEnds(c, i) ==
    LET order == Append(cmd[c].order, i)
    IN  /\ Up /\ i \in cmd[c].done \ Range(cmd[c].order)
        /\ IF i < Len(cmd[c].calls) \/ Len(order) < Len(cmd[c].calls)
           THEN cmd' = [cmd EXCEPT ![c].order = order] /\ UNCHANGED <<shards, script, received, during>>
           ELSE Proceed(c, continue(cmd[c], [j \in DOMAIN order |-> cmd[c].got[j][1]], order), during[c])

(* The result of call i comes back.                                        *)
Arrive(c, i) ==
    LET order == Append(cmd[c].order, i)
    IN  /\ Up /\ i \in cmd[c].done \ Range(cmd[c].order)
        /\ IF Len(order) < Len(cmd[c].calls)
           THEN cmd' = [cmd EXCEPT ![c].order = order] /\ UNCHANGED <<shards, script, received, during>>
           ELSE Proceed(c, continue(cmd[c], [j \in DOMAIN order |-> cmd[c].got[j][1]], order), during[c])

RedisNext ==
    \/ \E c \in Conns : Submit(c)
    \/ \E c \in Conns : \E i \in DOMAIN cmd[c].calls : Execute(c, i) \/ Arrive(c, i)

(* What every step changes.                                                *)
progress == [c \in Conns |-> <<Len(script[c]), cmd[c].then, cmd[c].done, cmd[c].order, Up>>]

(* Every shard runs what it is sent, and results come back.                *)
ShardsServe ==
    \A c \in Conns :
        /\ WF_progress(Submit(c))
        /\ WF_progress(\E i \in DOMAIN cmd[c].calls : Execute(c, i) \/ Arrive(c, i))

RedisSpec == RedisInit /\ [][RedisNext]_redisVars /\ ShardsServe

-----------------------------------------------------------------------------
(* A key is only ever in the cache of the shard that owns it, whichever    *)
(* command put it there: a destination key too is looked up by its own     *)
(* hash.  Otherwise the next command on the key would not find it.         *)
KeyAtItsShard == \A cpu \in Cpus, k \in Keys : shards[cpu].type[k] # "none" => Owner[k] = cpu

(* A reply is exactly one value of the protocol, with two exceptions: the  *)
(* number in a field of a hash comes without its tag, and the reply to     *)
(* TYPE has no bytes.                                                      *)
Framed(q, r) ==
    \/ WellFramed(r)
    \/ r[1] = "bare" /\ q[1] \in {"hget", "hincrby", "hincrbyfloat"}
    \/ r[1] = "empty" /\ q[1] = "type"

Listed(r)   == {r[3][i][2] : i \in DOMAIN r[3]}
Tagged(t, S) == {<<t, x>> : x \in S}

(* The reply r to request q over several keys, against d, what the keys    *)
(* held all along and at some time while it ran.                           *)
Regular(q, r, d) ==
    LET name     == q[1]
        from     == IF name \in {"sdiffstore", "sinterstore", "sunionstore"} THEN 3 ELSE 2
        keys     == {q[i] : i \in from .. Len(q)}
        got      == Tagged("member", Listed(r))
        Ever(S)   == UNION {d[k].ever : k \in S}
        Always(S) == UNION {d[k].always : k \in S}
        members  == Tagged("member", Members)
        result   == IF from = 3 THEN d[q[2]].ever \cap members ELSE got
        others   == {q[i] : i \in from + 1 .. Len(q)}
        there    == {i \in 2 .. Len(q) : <<"key", q[i]>> \in d[q[i]].always}
        seen     == {i \in 2 .. Len(q) : <<"key", q[i]>> \in d[q[i]].ever}
    IN  CASE name \in {"sunion", "sunionstore"} /\ r[1] = "*" /\ Len(q) > from ->
               got \subseteq Ever(keys) /\ Always(keys) \cap members \subseteq result
          [] name \in {"sdiff", "sdiffstore"} /\ r[1] = "*" /\ Len(q) > from ->
               /\ got \subseteq d[q[from]].ever
               /\ got \cap Always(others) = {}
               /\ (d[q[from]].always \cap members) \ Ever(others) \subseteq result
          [] name = "sinter" /\ r[1] = "*" /\ Len(q) > from ->
               \/ \E k \in keys : d[k].always \cap members = {}
               \/ \A k \in keys : got \subseteq d[k].ever
          [] name = "mget" /\ r[1] = "*" ->
               /\ Tagged("string", Listed(r)) \subseteq Ever(keys)
               /\ Cardinality({i \in there : \E x \in d[q[i]].always : x[1] = "string"}) <= r[2]
               /\ r[2] <= Cardinality(seen)
          [] name = "exists" /\ r[1] = ":" ->
               Cardinality(there) <= r[2] /\ r[2] <= Cardinality(seen)
          [] name = "del" /\ r[1] = ":" ->
               /\ r[2] <= Cardinality(seen)
               /\ \A k \in keys : <<"key", k>> \notin d[k].always
          [] name = "mset" /\ r = msg_ok ->
               \A i \in 1 .. Len(q) \div 2 : <<"string", Bytes[q[2 * i + 1]]>> \in d[q[2 * i]].ever
          [] name = "smove" /\ r = msg_one ->
               <<"member", q[4]>> \notin d[q[2]].always
          [] OTHER -> TRUE

(* Every reply is one value, whatever the arguments and whatever the key   *)
(* holds: otherwise the client takes part of it for its next reply.        *)
(* Commands over several keys are not atomic, but what they reply is what  *)
(* keys held while they ran: nothing that was there all along is missed,   *)
(* nothing is reported that never was, and what was to be removed has been *)
(* gone, in whatever order shards answer and whatever other clients do;    *)
(* what is stored in a destination is in it when the command replies.      *)
(* SINTER is excepted when one of its sets may have been empty.            *)
RepliesRegular ==
    \A c \in Conns : \A i \in DOMAIN received[c] :
        LET e == received[c][i] IN Framed(e.req, e.r) /\ Regular(e.req, e.r, e.during)

(* Every request is answered, unless the process stops: no command waits   *)
(* for an answer that no shard is going to give.                           *)
RequestsAnswered == <>(~Up \/ \A c \in Conns : script[c] = <<>>)
=============================================================================
