----------------------------- MODULE RedisProofs -----------------------------
(***************************************************************************)
(* Proofs about the commands of redis_service, for any number of shards,   *)
(* connections and keys and for whatever clients send.                     *)
(*                                                                         *)
(* First, handler by handler: a handler of the database that is called for *)
(* a key leaves every other key of its shard as it was.  Then, command by  *)
(* command: what is sent to a shard is sent to the owner of its key.       *)
(***************************************************************************)
EXTENDS Redis, TLAPS

\* A leaf that names no prover is one for the SMT solver.
USE SMTT(60)

IsShard(s) ==
    /\ DOMAIN s = {"type", "val", "expires", "alive", "total", "status"}
    /\ DOMAIN s.type = Keys /\ DOMAIN s.val = Keys /\ DOMAIN s.expires = Keys /\ DOMAIN s.alive = Keys

SameEntry(s, t, j) ==
    /\ t.type[j] = s.type[j] /\ t.val[j] = s.val[j]
    /\ t.expires[j] = s.expires[j] /\ t.alive[j] = s.alive[j]

(* From s to t no key but k has changed.                                   *)
Touches(s, t, k) == IsShard(t) /\ \A j \in Keys : j # k => SameEntry(s, t, j)

-----------------------------------------------------------------------------
(* What handlers are made of.                                              *)

LEMMA TouchesNone ==
  ASSUME NEW s, IsShard(s), NEW k
  PROVE  Touches(s, s, k)
BY DEF Touches, SameEntry

LEMMA TouchesTwice ==
  ASSUME NEW s, NEW t, NEW u, NEW k, Touches(s, t, k), Touches(t, u, k)
  PROVE  Touches(s, u, k)
BY DEF Touches, SameEntry

LEMMA Statused ==
  ASSUME NEW s, IsShard(s), NEW k, NEW why
  PROVE  Touches(s, [s EXCEPT !.status = why], k)
BY DEF Touches, SameEntry, IsShard

LEMMA Created ==
  ASSUME NEW s, IsShard(s), NEW k, NEW t, NEW v
  PROVE  Touches(s, db!Create(s, k, t, v), k)
BY DEF Touches, SameEntry, IsShard, db!Create

LEMMA Valued ==
  ASSUME NEW s, IsShard(s), NEW k, NEW v
  PROVE  Touches(s, db!Put(s, k, v), k)
BY DEF Touches, SameEntry, IsShard, db!Put

LEMMA DroppedKey ==
  ASSUME NEW s, IsShard(s), NEW k
  PROVE  Touches(s, db!Dropped(s, k), k)
BY DEF Touches, SameEntry, IsShard, db!Dropped

LEMMA Uncounted ==
  ASSUME NEW s, IsShard(s), NEW k, NEW t
  PROVE  Touches(s, db!Uncount(s, t), k)
BY DEF Touches, SameEntry, IsShard, db!Uncount

LEMMA Erased ==
  ASSUME NEW s, IsShard(s), NEW k
  PROVE  Touches(s, db!erase(s, k), k) /\ Touches(s, db!erase_entry(s, k), k)
BY DroppedKey, Statused DEF db!erase, db!erase_entry

LEMMA UncountedErased ==
  ASSUME NEW s, IsShard(s), NEW k, NEW t
  PROVE  /\ Touches(s, db!erase(db!Uncount(s, t), k), k)
         /\ Touches(s, db!erase_entry(db!Uncount(s, t), k), k)
<1>1. Touches(s, db!Uncount(s, t), k) /\ IsShard(db!Uncount(s, t))
  BY ZenonT(60), Uncounted DEF Touches
<1>. QED  BY <1>1, Erased, TouchesTwice

(* What a handler that is called for key k of shard s may return.          *)
Keeps(s, k, r) == Touches(s, r.s, k)

(* The ends of handlers.                                                   *)
LEMMA Ends ==
  ASSUME NEW s, IsShard(s), NEW k
  PROVE  /\ \A m : Keeps(s, k, db!Reply(s, m))
         /\ \A why : Keeps(s, k, db!Stop(s, why))
         /\ \A v, m : Keeps(s, k, db!Reply(db!Put(s, k, v), m))
         /\ \A t, v, m : Keeps(s, k, db!Reply(db!Create(s, k, t, v), m))
         /\ \A t, m : Keeps(s, k, db!Reply(db!erase(db!Uncount(s, t), k), m))
         /\ \A t, m : Keeps(s, k, db!Reply(db!erase_entry(db!Uncount(s, t), k), m))
<1>1. \A m, t : Touches(s, t, k) => Keeps(s, k, db!Reply(t, m))
  BY DEF Keeps, db!Reply
<1>2. \A why : Keeps(s, k, db!Stop(s, why))
  BY <1>1, Statused DEF db!Stop
<1>. QED  BY <1>1, <1>2, TouchesNone, Valued, Created, UncountedErased

(* The ends of handlers that have found or made an entry.                  *)
LEMMA EndsFound ==
  ASSUME NEW s, IsShard(s), NEW k, NEW t, NEW v, NEW c, c = db!FindOrCreate(s, k, t, v)
  PROVE  /\ \A m : Keeps(s, k, db!Reply(c, m))
         /\ \A why : Keeps(s, k, db!Stop(c, why))
         /\ \A w, m : Keeps(s, k, db!Reply(db!Put(c, k, w), m))
<1>1. Touches(s, c, k) /\ IsShard(c)
  BY TouchesNone, Created DEF db!FindOrCreate, Touches
<1>2. \A r : Keeps(c, k, r) => Keeps(s, k, r)
  BY <1>1, TouchesTwice DEF Keeps
<1>. QED  BY <1>1, <1>2, Ends

-----------------------------------------------------------------------------
(* The handlers.                                                           *)

(* Handlers that only read, or stop.                                       *)
LEMMA StringReaders ==
  ASSUME NEW s, IsShard(s), NEW k
  PROVE  /\ Keeps(s, k, db!exists(s, k))
         /\ Keeps(s, k, db!get(s, k))
         /\ Keeps(s, k, db!strlen(s, k))
         /\ Keeps(s, k, db!type(s, k))
         /\ \A left : Keeps(s, k, db!pttl(s, k, left))
         /\ \A left : Keeps(s, k, db!ttl(s, k, left))
         /\ \A offset : Keeps(s, k, db!getbit(s, k, offset))
         /\ \A start, end : Keeps(s, k, db!bitcount(s, k, start, end))
         /\ Keeps(s, k, db!get_direct(s, k))
         /\ Keeps(s, k, db!pfadd(s, k))
BY Ends DEF db!OnType, db!exists, db!get, db!strlen, db!type, db!pttl, db!ttl, db!getbit, db!bitcount, db!get_direct, db!pfadd

LEMMA ListReaders ==
  ASSUME NEW s, IsShard(s), NEW k
  PROVE  /\ Keeps(s, k, db!llen(s, k))
         /\ \A idx : Keeps(s, k, db!lindex(s, k, idx))
         /\ \A start, end : Keeps(s, k, db!lrange(s, k, start, end))
         /\ \A idx, v : Keeps(s, k, db!lset(s, k, idx, v))
BY Ends DEF db!OnType, db!llen, db!lindex, db!lrange, db!lset

LEMMA HashReaders ==
  ASSUME NEW s, IsShard(s), NEW k
  PROVE  /\ \A f : Keeps(s, k, db!hget(s, k, f))
         /\ \A f : Keeps(s, k, db!hexists(s, k, f))
         /\ \A f : Keeps(s, k, db!hstrlen(s, k, f))
         /\ Keeps(s, k, db!hlen(s, k))
         /\ \A Key, Value : Keeps(s, k, db!hgetall_impl(s, k, Key, Value))
         /\ \A fields : Keeps(s, k, db!hmget(s, k, fields))
BY Ends, ZenonT(60) DEF db!OnType, db!hget, db!hexists, db!hstrlen, db!hlen, db!hgetall_impl, db!hmget

LEMMA SetReaders ==
  ASSUME NEW s, IsShard(s), NEW k
  PROVE  /\ \A picks : Keeps(s, k, db!srandmember(s, k, picks))
         /\ Keeps(s, k, db!scard(s, k))
         /\ \A m : Keeps(s, k, db!sismember(s, k, m))
         /\ Keeps(s, k, db!smembers(s, k))
         /\ Keeps(s, k, db!smembers_direct(s, k))
BY Ends, ZenonT(60) DEF db!OnType, db!srandmember, db!scard, db!sismember, db!smembers, db!smembers_direct

LEMMA SortedReaders ==
  ASSUME NEW s, IsShard(s), NEW k
  PROVE  /\ Keeps(s, k, db!zcard(s, k))
         /\ \A min, max : Keeps(s, k, db!zcount(s, k, min, max))
         /\ \A begin, end, reverse, with_score : Keeps(s, k, db!zrange(s, k, begin, end, reverse, with_score))
         /\ \A min, max, reverse, with_score : Keeps(s, k, db!zrangebyscore(s, k, min, max, reverse, with_score))
         /\ \A m, reverse : Keeps(s, k, db!zrank(s, k, m, reverse))
         /\ \A m : Keeps(s, k, db!zscore(s, k, m))
         /\ \A l, r, decodes : Keeps(s, k, db!geodist(s, k, l, r, decodes))
         /\ \A members, decodes : Keeps(s, k, db!geohash(s, k, members, decodes))
         /\ \A members, decodes : Keeps(s, k, db!geopos(s, k, members, decodes))
         /\ \A begin, end : Keeps(s, k, db!zrange_direct(s, k, begin, end))
BY Ends DEF db!OnType, db!zcard, db!zcount, db!zrange, db!zrangebyscore, db!zrank, db!zscore, db!geodist, db!geohash, db!geopos, db!zrange_direct

(* Handlers that write.                                                    *)
LEMMA Removals ==
  ASSUME NEW s, IsShard(s), NEW k
  PROVE  /\ \A step, up : Keeps(s, k, db!counter_by(s, k, step, up))
         /\ \A v, good : Keeps(s, k, db!append(s, k, v, good))
         /\ \A offset, value, what : Keeps(s, k, db!setbit(s, k, offset, value, what))
         /\ Keeps(s, k, db!del_direct(s, k))
         /\ \A left : Keeps(s, k, db!pop(s, k, left))
         /\ \A count, v : Keeps(s, k, db!lrem(s, k, count, v))
         /\ \A start, end : Keeps(s, k, db!ltrim(s, k, start, end))
         /\ \A f : Keeps(s, k, db!hdel(s, k, f))
         /\ \A fields : Keeps(s, k, db!hdel_multi(s, k, fields))
         /\ \A picks : Keeps(s, k, db!spop(s, k, picks))
         /\ \A members : Keeps(s, k, db!srems(s, k, members))
         /\ \A m : Keeps(s, k, db!srem_direct(s, k, m))
         /\ \A members : Keeps(s, k, db!zrem(s, k, members))
         /\ \A min, max : Keeps(s, k, db!zremrangebyscore(s, k, min, max))
         /\ \A begin, end : Keeps(s, k, db!zremrangebyrank(s, k, begin, end))
BY Ends, ZenonT(60) DEF db!OnType, db!counter_by, db!append, db!setbit, db!del_direct, db!PutOrErase, db!pop,
                   db!lrem, db!ltrim, db!hdel, db!hdel_multi, db!spop, db!srems, db!srem_direct,
                   db!ZRemFetched, db!zrem, db!zremrangebyscore, db!zremrangebyrank

LEMMA Timeouts ==
  ASSUME NEW s, IsShard(s), NEW k
  PROVE  /\ \A ms, earliest : Keeps(s, k, db!expire(s, k, ms, earliest))
         /\ Keeps(s, k, db!persist(s, k))
<1>1. ASSUME NEW x, NEW y  PROVE Touches(s, [s EXCEPT !.expires[k] = x, !.alive[k] = y], k)
  BY DEF Touches, SameEntry, IsShard
<1>2. \A t, m : Touches(s, t, k) => Keeps(s, k, db!Reply(t, m))
  BY DEF Keeps, db!Reply
<1>. QED  BY <1>1, <1>2, Ends, ZenonT(60) DEF db!expire, db!persist

(* SET: what is there is erased first.                                     *)
LEMMA Insertions ==
  ASSUME NEW s, IsShard(s), NEW k
  PROVE  /\ \A v, lives, nx, xx : Keeps(s, k, db!set_direct(s, k, v, lives, nx, xx))
         /\ \A v, lives, nx, xx : Keeps(s, k, db!set(s, k, v, lives, nx, xx))
<1>1. ASSUME NEW v, NEW lives, NEW nx, NEW xx  PROVE Keeps(s, k, db!set_direct(s, k, v, lives, nx, xx))
  <2>. DEFINE In(t)  == [t EXCEPT !.type[k] = "bytes", !.val[k] = v, !.expires[k] = lives, !.alive[k] = lives]
              One(t) == [t EXCEPT !.total["bytes"] = @ + 1]
              i      == db!insert_if(s, k, v, lives, nx, xx)
  <2>1. ASSUME NEW t, IsShard(t)  PROVE Touches(t, In(t), k) /\ Touches(t, One(t), k)
    BY <2>1 DEF Touches, SameEntry, IsShard
  <2>2. i.s \in {s, db!erase(s, k), In(s), In(db!erase(s, k))}
    BY ZenonT(60) DEF db!insert_if
  <2>3. Touches(s, db!erase(s, k), k) /\ IsShard(db!erase(s, k))
    BY Erased DEF Touches
  <2>. HIDE DEF In, One, i
  <2>4. Touches(s, i.s, k) /\ IsShard(i.s)
    <3>1. Touches(s, s, k) /\ Touches(s, In(s), k)
      BY <2>1, TouchesNone
    <3>2. Touches(s, In(db!erase(s, k)), k)
      BY <2>1, <2>3, TouchesTwice
    <3>3. Touches(s, i.s, k)
      BY <2>2, <2>3, <3>1, <3>2
    <3>. QED  BY <3>3 DEF Touches
  <2>5. Touches(s, One(i.s), k)
    BY <2>1, <2>4, TouchesTwice
  <2>6. db!set_direct(s, k, v, lives, nx, xx).s \in {i.s, One(i.s)}
    BY DEF db!set_direct, db!Reply, i, One
  <2>. QED  BY <2>4, <2>5, <2>6 DEF Keeps
<1>. QED  BY <1>1 DEF db!set, db!Reply, Keeps

LEMMA Writers ==
  ASSUME NEW s, IsShard(s), NEW k
  PROVE  /\ \A v, force, left : Keeps(s, k, db!push(s, k, v, force, left))
         /\ \A values, force, left : Keeps(s, k, db!push_multi(s, k, values, force, left))
         /\ \A pivot, v, after : Keeps(s, k, db!linsert(s, k, pivot, v, after))
         /\ \A f, v : Keeps(s, k, db!hset(s, k, f, v))
         /\ \A kvs, before : Keeps(s, k, db!hmset(s, k, kvs, before))
         /\ \A f, delta : Keeps(s, k, db!hincrby(s, k, f, delta))
         /\ \A f, delta : Keeps(s, k, db!hincrbyfloat(s, k, f, delta))
         /\ \A members : Keeps(s, k, db!sadds(s, k, members))
         /\ \A members : Keeps(s, k, db!sadds_direct(s, k, members))
         /\ \A member : Keeps(s, k, db!sadd_direct(s, k, member))
         /\ \A pairs, flags : Keeps(s, k, db!zadds(s, k, pairs, flags))
         /\ \A m, delta : Keeps(s, k, db!zincrby(s, k, m, delta))
BY Ends, EndsFound, ZenonT(60) DEF db!OnType, db!push, db!push_multi, db!linsert, db!hset, db!hmset, db!hincr,
                              db!hincrby, db!hincrbyfloat, db!sadds, db!sadds_direct, db!sadd_direct, db!zadds,
                              db!zincrby

-----------------------------------------------------------------------------
(* The commands: what is done with the arguments a is done to the key that *)
(* is the first of them; without arguments, to none.                       *)

KeepsFor(s, a, r) == \A k : (a # <<>> => a[1] = k) => Keeps(s, k, r)

LEMMA Plainly ==
  ASSUME NEW s, IsShard(s), NEW k
  PROVE  /\ \A m : Keeps(s, k, Reply(s, m))
         /\ Keeps(s, k, Gone(s))
         /\ \A words, r : Keeps(s, k, r) => Keeps(s, k, Numeric(s, words, r))
<1>1. /\ \A m : Keeps(s, k, Reply(s, m))
      /\ Keeps(s, k, Gone(s))
  BY TouchesNone, Statused DEF Keeps, Reply, Gone
<1>3. ASSUME NEW words, NEW r, Keeps(s, k, r)  PROVE Keeps(s, k, Numeric(s, words, r))
  BY <1>1, <1>3 DEF Numeric
<1>. QED  BY <1>1, <1>3, ZenonT(60)

LEMMA Checked ==
  ASSUME NEW s, IsShard(s), NEW a, NEW r, Keeps(s, a[1], r)
  PROVE  /\ KeepsFor(s, a, Need(s, a, 1, r)) /\ KeepsFor(s, a, Need(s, a, 2, r))
         /\ KeepsFor(s, a, Need(s, a, 3, r)) /\ KeepsFor(s, a, Need(s, a, 4, r))
<1>1. ASSUME NEW n \in 1 .. 4, NEW k, a # <<>> => a[1] = k  PROVE Keeps(s, k, Need(s, a, n, r))
  <2>1. CASE Len(a) < n
    BY <2>1, Plainly, ZenonT(60) DEF Need
  <2>2. CASE ~(Len(a) < n)
    <3>1. a # <<>>
      BY <2>2
    <3>. QED  BY <3>1, <1>1, <2>2 DEF Need
  <2>. QED  BY <2>1, <2>2
<1>. QED  BY <1>1 DEF KeepsFor

LEMMA StringCommands ==
  ASSUME NEW s, IsShard(s), NEW a
  PROVE  /\ KeepsFor(s, a, get(s, a))
         /\ KeepsFor(s, a, strlen(s, a))
         /\ \A good : KeepsFor(s, a, append(s, a, good))
         /\ KeepsFor(s, a, type(s, a))
         /\ \A left : KeepsFor(s, a, pttl(s, a, left))
         /\ \A left : KeepsFor(s, a, ttl(s, a, left))
         /\ KeepsFor(s, a, getbit(s, a))
         /\ KeepsFor(s, a, bitcount(s, a))
         /\ \A what : KeepsFor(s, a, setbit(s, a, what))
         /\ KeepsFor(s, a, pfadd(s, a))
BY Checked, Plainly, StringReaders, Removals, ZenonT(60) DEF get, strlen, append, type, pttl, ttl, getbit, bitcount, setbit, pfadd

LEMMA SetCommand ==
  ASSUME NEW s, IsShard(s), NEW a
  PROVE  /\ KeepsFor(s, a, set(s, a))
BY Checked, Plainly, Insertions, ZenonT(60) DEF set

LEMMA TimeoutCommands ==
  ASSUME NEW s, IsShard(s), NEW a
  PROVE  /\ \A earliest : KeepsFor(s, a, expire(s, a, earliest))
         /\ \A earliest : KeepsFor(s, a, pexpire(s, a, earliest))
         /\ KeepsFor(s, a, persist(s, a))
<1>1. KeepsFor(s, a, persist(s, a))
  BY Checked, Timeouts, ZenonT(60) DEF persist
<1>2. \A ms, earliest : KeepsFor(s, a, Need(s, a, 2, db!expire(s, a[1], ms, earliest)))
  BY Checked, Timeouts, ZenonT(60)
<1>. QED  BY <1>1, <1>2 DEF expire, pexpire

LEMMA CounterCommands ==
  ASSUME NEW s, IsShard(s), NEW a
  PROVE  /\ KeepsFor(s, a, incr(s, a))
         /\ KeepsFor(s, a, incrby(s, a))
         /\ KeepsFor(s, a, decr(s, a))
         /\ KeepsFor(s, a, decrby(s, a))
BY Checked, Plainly, Removals, ZenonT(60) DEF counter_by, incr, incrby, decr, decrby

LEMMA PushCommands ==
  ASSUME NEW s, IsShard(s), NEW a
  PROVE  /\ KeepsFor(s, a, lpush(s, a))
         /\ KeepsFor(s, a, lpushx(s, a))
         /\ KeepsFor(s, a, rpush(s, a))
         /\ KeepsFor(s, a, rpushx(s, a))
         /\ KeepsFor(s, a, linsert(s, a))
BY Checked, Plainly, Writers, ZenonT(60) DEF push_impl, lpush, lpushx, rpush, rpushx, linsert

LEMMA ListCommands ==
  ASSUME NEW s, IsShard(s), NEW a
  PROVE  /\ KeepsFor(s, a, lpop(s, a))
         /\ KeepsFor(s, a, rpop(s, a))
         /\ KeepsFor(s, a, lindex(s, a))
         /\ KeepsFor(s, a, llen(s, a))
         /\ KeepsFor(s, a, lrange(s, a))
         /\ KeepsFor(s, a, lset(s, a))
         /\ KeepsFor(s, a, ltrim(s, a))
         /\ KeepsFor(s, a, lrem(s, a))
BY Checked, Plainly, ListReaders, Removals, ZenonT(60) DEF pop_impl, lpop, rpop, lindex, llen, lrange, lset, ltrim, lrem

LEMMA HashReads ==
  ASSUME NEW s, IsShard(s), NEW a
  PROVE  /\ KeepsFor(s, a, hexists(s, a))
         /\ KeepsFor(s, a, hlen(s, a))
         /\ KeepsFor(s, a, hstrlen(s, a))
         /\ KeepsFor(s, a, hget(s, a))
         /\ KeepsFor(s, a, hgetall(s, a))
         /\ KeepsFor(s, a, hgetall_keys(s, a))
         /\ KeepsFor(s, a, hgetall_values(s, a))
         /\ KeepsFor(s, a, hmget(s, a))
BY Checked, Plainly, HashReaders, ZenonT(60) DEF hexists, hlen, hstrlen, hget, hgetall, hgetall_keys, hgetall_values, hmget

LEMMA HashWrites ==
  ASSUME NEW s, IsShard(s), NEW a
  PROVE  /\ KeepsFor(s, a, hdel(s, a))
         /\ KeepsFor(s, a, hset(s, a))
         /\ \A before : KeepsFor(s, a, hmset(s, a, before))
         /\ KeepsFor(s, a, hincrby(s, a))
         /\ KeepsFor(s, a, hincrbyfloat(s, a))
BY Checked, Plainly, Writers, Removals, ZenonT(60) DEF hdel, hset, hmset, hincrby, hincrbyfloat

LEMMA SetCommands ==
  ASSUME NEW s, IsShard(s), NEW a
  PROVE  /\ KeepsFor(s, a, smembers(s, a))
         /\ KeepsFor(s, a, sadd(s, a))
         /\ KeepsFor(s, a, scard(s, a))
         /\ KeepsFor(s, a, sismember(s, a))
         /\ KeepsFor(s, a, srem(s, a))
         /\ \A picks : KeepsFor(s, a, srandmember(s, a, picks))
         /\ \A picks : KeepsFor(s, a, spop(s, a, picks))
BY Checked, Plainly, SetReaders, Writers, Removals, ZenonT(60) DEF smembers, sadd, scard, sismember, srem, srandmember, spop

LEMMA SortedReads ==
  ASSUME NEW s, IsShard(s), NEW a
  PROVE  /\ KeepsFor(s, a, zcard(s, a))
         /\ \A reverse : KeepsFor(s, a, zrange(s, a, reverse))
         /\ \A reverse : KeepsFor(s, a, zrangebyscore(s, a, reverse))
         /\ KeepsFor(s, a, zcount(s, a))
         /\ \A reverse : KeepsFor(s, a, zrank(s, a, reverse))
         /\ KeepsFor(s, a, zscore(s, a))
         /\ \A decodes : KeepsFor(s, a, geodist(s, a, decodes))
         /\ \A decodes : KeepsFor(s, a, geohash(s, a, decodes))
         /\ \A decodes : KeepsFor(s, a, geopos(s, a, decodes))
BY Checked, Plainly, SortedReaders, ZenonT(60) DEF zcard, zrange, zrangebyscore, zcount, zrank, zscore, geodist, geohash, geopos

LEMMA SortedWrites ==
  ASSUME NEW s, IsShard(s), NEW a
  PROVE  /\ KeepsFor(s, a, zincrby(s, a))
         /\ KeepsFor(s, a, zrem(s, a))
         /\ KeepsFor(s, a, zremrangebyscore(s, a))
         /\ KeepsFor(s, a, zremrangebyrank(s, a))
BY Checked, Plainly, Writers, Removals, ZenonT(60) DEF zincrby, zrem, zremrangebyscore, zremrangebyrank

LEMMA ZaddCommand ==
  ASSUME NEW s, IsShard(s), NEW a
  PROVE  /\ \A order : KeepsFor(s, a, zadd(s, a, order))
BY Checked, Plainly, Writers, ZenonT(60) DEF zadd

LEMMA GeoaddCommand ==
  ASSUME NEW s, IsShard(s), NEW a, NEW order
  PROVE  KeepsFor(s, a, geoadd(s, a, order))
<1>1. \A m : KeepsFor(s, a, Reply(s, m))
  BY Plainly DEF KeepsFor
<1>2. ASSUME NEW pairs, ~(Len(a) < 4)  PROVE KeepsFor(s, a, db!zadds(s, a[1], pairs, "ch"))
  <2>1. a # <<>>
    BY <1>2
  <2>. QED  BY <2>1, Writers, ZenonT(60) DEF KeepsFor
<1>. QED  BY <1>1, <1>2, ZenonT(60) DEF geoadd

LEMMA PlainCommands ==
  ASSUME NEW s, IsShard(s), NEW a
  PROVE  /\ KeepsFor(s, a, ping(s, a))
         /\ KeepsFor(s, a, command(s, a))
         /\ KeepsFor(s, a, zinterstore(s, a))
         /\ KeepsFor(s, a, pfcount(s, a))
         /\ KeepsFor(s, a, pfmerge(s, a))
         /\ KeepsFor(s, a, georadius(s, a))
BY Plainly, ZenonT(60) DEF KeepsFor, ping, command, zinterstore, pfcount, pfmerge, georadius

(* The table of commands.                                                  *)
LEMMA RunKeeps ==
  ASSUME NEW s, IsShard(s), NEW name, NEW a, NEW ch
  PROVE  KeepsFor(s, a, run(s, name, a, ch))
<1>1. /\ KeepsFor(s, a, zrange(s, a, FALSE)) /\ KeepsFor(s, a, zrange(s, a, TRUE))
      /\ KeepsFor(s, a, zrangebyscore(s, a, FALSE)) /\ KeepsFor(s, a, zrangebyscore(s, a, TRUE))
      /\ KeepsFor(s, a, zrank(s, a, FALSE)) /\ KeepsFor(s, a, zrank(s, a, TRUE))
  BY SortedReads, ZenonT(60)
<1>2. KeepsFor(s, a, Reply(s, msg_nocmd_err))
  BY Plainly, ZenonT(60) DEF KeepsFor
<1>. QED  BY <1>1, <1>2, StringCommands, SetCommand, TimeoutCommands, CounterCommands, PushCommands, ListCommands,
             HashReads, HashWrites, SetCommands, SortedReads, SortedWrites, ZaddCommand, GeoaddCommand, PlainCommands,
             ZenonT(60)
          DEF run

(* The handlers that are called by themselves, with an argument that does  *)
(* not begin with the key.                                                 *)
Direct == {"del_direct", "exists_direct", "set_direct", "get_direct", "smembers_direct", "sadds_direct", "srem_direct",
           "sadd_direct", "zrange_direct", "zadds", "select"}

(* A call is sent to the shard that owns its key.                          *)
Routed(call) ==
    /\ call.cpu = get_cpu(call.k)
    /\ call.h \notin Direct => (call.arg # <<>> => call.arg[1] = call.k)

LEMMA HandleKeeps ==
  ASSUME NEW s, IsShard(s), NEW call, Routed(call), NEW ch
  PROVE  Keeps(s, call.k, Handle(s, call, ch))
<1>1. CASE call.h \notin Direct
  <2>1. Keeps(s, call.k, run(s, call.h, call.arg, ch))
    BY <1>1, RunKeeps, ZenonT(60) DEF Routed, KeepsFor
  <2>. QED  BY <1>1, <2>1, ZenonT(60) DEF Handle, Direct
<1>2. CASE call.h \in Direct
  BY <1>2, Plainly, Insertions, StringReaders, SetReaders, SortedReaders, Removals, Writers, ZenonT(60) DEF Handle, Direct
<1>. QED  BY <1>1, <1>2

-----------------------------------------------------------------------------
(* The calls of commands are sent to the owners of their keys.             *)

PlanRouted(p) == \A i \in DOMAIN p.calls : Routed(p.calls[i])

LEMMA PlansRouted ==
  /\ \A m : PlanRouted(Answer(m))
  /\ \A h \in Direct : \A keys, then, x : PlanRouted(Calls(h, keys, then, x))
  /\ \A h \in Direct : \A k, v, then, x : PlanRouted(OneCall(h, k, v, then, x))
  /\ \A name, a : PlanRouted(OnOneKey(name, a))
<1>1. \A m : PlanRouted(Answer(m))
  BY DEF PlanRouted, Answer
<1>2. \A h \in Direct : \A keys, then, x : PlanRouted(Calls(h, keys, then, x))
  BY DEF PlanRouted, Calls, Routed
<1>3. ASSUME NEW h, NEW k, NEW v, NEW then, NEW x, h \in Direct \/ (v # <<>> => v[1] = k)
      PROVE  PlanRouted(OneCall(h, k, v, then, x))
  BY <1>3 DEF PlanRouted, OneCall, CallOn, Routed
<1>4. \A name, a : PlanRouted(OnOneKey(name, a))
  BY <1>3, ZenonT(60) DEF OnOneKey
<1>. QED  BY <1>1, <1>2, <1>3, <1>4

LEMMA PlanIsRouted ==
  ASSUME NEW name, NEW a, NEW garbage
  PROVE  PlanRouted(plan(name, a, garbage))
<1>1. PlanRouted(del(a)) /\ PlanRouted(exists(a)) /\ PlanRouted(mget(a)) /\ PlanRouted(smove(a)) /\ PlanRouted(select(a))
  BY PlansRouted, ZenonT(60) DEF del, exists, mget, smove, select, Required, Direct
<1>2. \A then : PlanRouted(sset_read(a, then)) /\ PlanRouted(sset_store(a, then))
  BY PlansRouted, ZenonT(60) DEF sset_read, sset_store, Required, Direct
<1>3. PlanRouted(mset(a))
  <2>1. ASSUME NEW n, NEW then, NEW x
        PROVE  PlanRouted([calls |-> [i \in 1 .. n |-> [cpu |-> get_cpu(a[2 * i - 1]), h |-> "set_direct",
                                                        k |-> a[2 * i - 1], arg |-> a[2 * i]]],
                           then  |-> then, x |-> x])
    BY DEF PlanRouted, Routed, Direct
  <2>. QED  BY <2>1, PlansRouted, ZenonT(60) DEF mset, Required
<1>4. PlanRouted(zunionstore(a, garbage))
  <2>1. PlanRouted([calls |-> <<>>, then |-> "gone", x |-> 0])
    BY DEF PlanRouted
  <2>. QED  BY <2>1, PlansRouted, ZenonT(60) DEF zunionstore, Required, Direct
<1>. QED  BY <1>1, <1>2, <1>3, <1>4, PlansRouted, ZenonT(60)
          DEF plan, sdiff, sdiff_store, sinter, sinter_store, sunion, sunion_store

LEMMA ContinueIsRouted ==
  ASSUME NEW p, PlanRouted(p), NEW got, NEW order
  PROVE  PlanRouted(continue(p, got, order))
<1>1. \A dest, q : PlanRouted(Store(dest, q))
  BY PlansRouted, ZenonT(60) DEF Store, Direct
<1>2. PlanRouted(smove_added(p, got)) /\ PlanRouted(zunionstore_impl(p, got, order))
  BY PlansRouted, ZenonT(60) DEF smove_added, zunionstore_impl, Direct
<1>3. PlanRouted(sdiff_impl(p, got)) /\ PlanRouted(sinter_impl(p, got)) /\ PlanRouted(sunion_impl(p, got, order))
  BY <1>1, PlansRouted, ZenonT(60) DEF sdiff_impl, sinter_impl, sunion_impl
<1>. QED  BY <1>2, <1>3, PlansRouted, ZenonT(60) DEF continue

-----------------------------------------------------------------------------
(* The service.                                                            *)

ShardsShaped == DOMAIN shards = Cpus /\ \A cpu \in Cpus : IsShard(shards[cpu])

CommandsRouted ==
    /\ DOMAIN cmd = Conns
    /\ \A c \in Conns : DOMAIN cmd[c] = {"calls", "then", "x", "got", "done", "order"} /\ PlanRouted(cmd[c])

RedisInv == ShardsShaped /\ CommandsRouted /\ KeyAtItsShard

(* A step changes no key but k, and k at its owner only.                   *)
OnlyKey(k) ==
    \A cpu \in Cpus, j \in Keys : (cpu # Owner[k] \/ j # k) => SameEntry(shards[cpu], shards'[cpu], j)

LEMMA InitInv ==
  ASSUME RedisInit  PROVE RedisInv
<1>1. IsShard(db!EmptyShard) /\ \A k \in Keys : db!EmptyShard.type[k] = "none"
  BY DEF IsShard, db!EmptyShard
<1>2. ShardsShaped /\ KeyAtItsShard
  BY <1>1 DEF RedisInit, NoCommandYet, ShardsShaped, KeyAtItsShard
<1>3. CommandsRouted
  BY DEF RedisInit, NoCommandYet, CommandsRouted, Idle, PlanRouted
<1>. QED  BY <1>2, <1>3 DEF RedisInv

LEMMA StaysAtItsShard ==
  ASSUME KeyAtItsShard, NEW k, OnlyKey(k)
  PROVE  KeyAtItsShard'
BY DEF KeyAtItsShard, OnlyKey, SameEntry

LEMMA SameShards ==
  ASSUME ShardsShaped, UNCHANGED shards, NEW k
  PROVE  ShardsShaped' /\ OnlyKey(k)
BY DEF ShardsShaped, OnlyKey, SameEntry

(* One shard becomes t.                                                    *)
LEMMA OneShard ==
  ASSUME ShardsShaped, NEW cpu, NEW t, NEW k,
         shards' = [shards EXCEPT ![cpu] = t],
         cpu \in Cpus => IsShard(t) /\ \A j \in Keys : (cpu # Owner[k] \/ j # k) => SameEntry(shards[cpu], t, j)
  PROVE  ShardsShaped' /\ OnlyKey(k)
<1>1. ShardsShaped' /\ \A e \in Cpus : shards'[e] = IF e = cpu THEN t ELSE shards[e]
  BY DEF ShardsShaped
<1>2. \A e \in Cpus, j \in Keys : SameEntry(shards[e], shards[e], j)
  BY DEF SameEntry
<1>. QED  BY <1>1, <1>2 DEF OnlyKey

LEMMA ProceedKeeps ==
  ASSUME RedisInv, NEW c \in Conns, NEW p, PlanRouted(p), NEW d, Proceed(c, p, d), NEW k
  PROVE  RedisInv' /\ OnlyKey(k)
<1>. DEFINE q == IF p.calls = <<>> THEN continue(p, <<>>, <<>>) ELSE p
            waits == [calls |-> q.calls, then |-> q.then, x |-> q.x, done |-> {}, order |-> <<>>,
                      got |-> [i \in DOMAIN q.calls |-> <<>>]]
<1>1. PlanRouted(q)
  BY ContinueIsRouted, ZenonT(60)
<1>2. \/ cmd' = [cmd EXCEPT ![c] = Idle] /\ UNCHANGED shards
      \/ shards' = [shards EXCEPT ![Home[c]].status = "undefined"] /\ UNCHANGED cmd
      \/ cmd' = [cmd EXCEPT ![c] = waits] /\ UNCHANGED shards
  BY ZenonT(60) DEF Proceed
<1>3. PlanRouted(Idle) /\ DOMAIN Idle = {"calls", "then", "x", "got", "done", "order"}
  BY DEF PlanRouted, Idle
<1>4. PlanRouted(waits) /\ DOMAIN waits = {"calls", "then", "x", "got", "done", "order"}
  BY <1>1 DEF PlanRouted
<1>. HIDE DEF waits, q
<1>5. CommandsRouted'
  BY <1>2, <1>3, <1>4 DEF RedisInv, CommandsRouted
<1>6. ShardsShaped' /\ OnlyKey(k)
  <2>1. CASE UNCHANGED shards
    BY <2>1, SameShards DEF RedisInv
  <2>2. CASE shards' = [shards EXCEPT ![Home[c]].status = "undefined"]
    <3>. DEFINE t == [shards[Home[c]] EXCEPT !.status = "undefined"]
    <3>1. shards' = [shards EXCEPT ![Home[c]] = t]
      BY <2>2
    <3>2. Home[c] \in Cpus => IsShard(t) /\ \A j \in Keys : SameEntry(shards[Home[c]], t, j)
      BY DEF RedisInv, ShardsShaped, IsShard, SameEntry
    <3>. HIDE DEF t
    <3>. QED  BY <3>1, <3>2, OneShard, ZenonT(60) DEF RedisInv
  <2>. QED  BY <1>2, <2>1, <2>2
<1>. QED  BY <1>5, <1>6, StaysAtItsShard DEF RedisInv

LEMMA ExecuteKeeps ==
  ASSUME RedisInv, NEW c \in Conns, NEW i \in DOMAIN cmd[c].calls, Execute(c, i)
  PROVE  RedisInv' /\ \E k : OnlyKey(k)
<1>. DEFINE call == cmd[c].calls[i]
            s    == shards[call.cpu]
            Next(t, r) == /\ shards' = [shards EXCEPT ![call.cpu] = t]
                          /\ cmd' = [cmd EXCEPT ![c].got[i] = <<r>>, ![c].done = @ \cup {i}]
<1>1. \E ch : Next(Handle(s, call, ch).s, Handle(s, call, ch).r)
  BY ZenonT(60) DEF Execute
<1>2. PICK ch : Next(Handle(s, call, ch).s, Handle(s, call, ch).r)
  BY <1>1, ZenonT(60)
<1>3. Routed(call)
  BY DEF RedisInv, CommandsRouted, PlanRouted
<1>. DEFINE t == Handle(s, call, ch).s
<1>4. call.cpu \in Cpus => Touches(s, t, call.k)
  <2>1. call.cpu \in Cpus => IsShard(s)
    BY DEF RedisInv, ShardsShaped
  <2>. HIDE DEF s, call
  <2>. QED  BY <2>1, <1>3, HandleKeeps, ZenonT(60) DEF Keeps
<1>5. shards' = [shards EXCEPT ![call.cpu] = t] /\ cmd' = [cmd EXCEPT ![c].got[i] = <<Handle(s, call, ch).r>>, ![c].done = @ \cup {i}]
  BY <1>2, ZenonT(60)
<1>6. CommandsRouted'
  BY <1>5, ZenonT(60) DEF RedisInv, CommandsRouted, PlanRouted
<1>. HIDE DEF t
<1>7. call.cpu = Owner[call.k]
  BY <1>3 DEF Routed, get_cpu
<1>8. ShardsShaped' /\ OnlyKey(call.k)
  <2>1. call.cpu \in Cpus => IsShard(t) /\ \A j \in Keys : j # call.k => SameEntry(shards[call.cpu], t, j)
    BY <1>4 DEF Touches
  <2>. HIDE DEF call
  <2>. QED  BY <2>1, <1>5, <1>7, OneShard, ZenonT(60) DEF RedisInv
<1>. QED  BY <1>6, <1>8, StaysAtItsShard DEF RedisInv

LEMMA RedisStep ==
  ASSUME RedisInv, [RedisNext]_redisVars
  PROVE  RedisInv' /\ \E k : OnlyKey(k)
<1>1. ASSUME NEW c \in Conns, Submit(c)  PROVE RedisInv' /\ \E k : OnlyKey(k)
  <2>1. \E name, a, garbage, d : Proceed(c, plan(name, a, garbage), d)
    BY <1>1, ZenonT(60) DEF Submit
  <2>. QED  BY <2>1, PlanIsRouted, ProceedKeeps, ZenonT(60)
<1>2. ASSUME NEW c \in Conns, NEW i \in DOMAIN cmd[c].calls, Arrive(c, i)  PROVE RedisInv' /\ \E k : OnlyKey(k)
  <2>1. \/ cmd' = [cmd EXCEPT ![c].order = Append(cmd[c].order, i)] /\ UNCHANGED shards
        \/ \E got, order, d : Proceed(c, continue(cmd[c], got, order), d)
    BY <1>2, ZenonT(60) DEF Arrive
  <2>2. CASE cmd' = [cmd EXCEPT ![c].order = Append(cmd[c].order, i)] /\ UNCHANGED shards
    <3>1. CommandsRouted'
      BY <2>2 DEF RedisInv, CommandsRouted, PlanRouted
    <3>. QED  BY <2>2, <3>1, SameShards, StaysAtItsShard DEF RedisInv
  <2>3. CASE \E got, order, d : Proceed(c, continue(cmd[c], got, order), d)
    <3>1. PlanRouted(cmd[c])
      BY DEF RedisInv, CommandsRouted
    <3>. QED  BY <2>3, <3>1, ContinueIsRouted, ProceedKeeps, ZenonT(60)
  <2>. QED  BY <2>1, <2>2, <2>3
<1>3. CASE UNCHANGED redisVars
  BY <1>3, SameShards, StaysAtItsShard DEF RedisInv, CommandsRouted, PlanRouted, redisVars
<1>. QED  BY <1>1, <1>2, <1>3, ExecuteKeeps, ZenonT(60) DEF RedisNext

(* However many shards, connections and keys there are, however the keys   *)
(* are spread over the shards and whatever clients send in whatever order: *)
(* every call of every command in flight is on its way to the shard that   *)
(* owns its key, and no key is at a shard that does not own it.            *)
THEOREM RedisInvariant == RedisSpec => []RedisInv
<1>1. RedisInit => RedisInv
  BY InitInv
<1>2. RedisInv /\ [RedisNext]_redisVars => RedisInv'
  BY RedisStep
<1>. QED  BY <1>1, <1>2, PTL DEF RedisSpec

(* A key is found where get_cpu looks for it, whichever command wrote it.  *)
THEOREM KeysAtTheirShards == RedisSpec => []KeyAtItsShard
<1>1. RedisInv => KeyAtItsShard
  BY DEF RedisInv
<1>. QED  BY <1>1, RedisInvariant, PTL

(* Shards share nothing: one step of the service, a handler of the         *)
(* database included, changes at most one key, at the shard that owns it.  *)
THEOREM OneKeyAtATime == RedisSpec => [][\E k : OnlyKey(k)]_redisVars
<1>1. RedisInv /\ [RedisNext]_redisVars => [\E k : OnlyKey(k)]_redisVars
  BY RedisStep
<1>. QED  BY <1>1, RedisInvariant, PTL DEF RedisSpec
=============================================================================
