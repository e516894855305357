------------------------------ MODULE Handlers ------------------------------
(***************************************************************************)
(* The handlers of database (db.cc) over the keys of one shard, a record:  *)
(*                                                                         *)
(*   type, val       what _cache holds for a key                           *)
(*   expires, alive  the entry ever_expires(), and is linked in _alive     *)
(*   total           _stat._total_*_entries, by the type they count        *)
(*   status          "up", or why the process is gone: "aborted" by an     *)
(*                   assertion, "undefined" after undefined behaviour      *)
(*                                                                         *)
(* A handler is an operator from the shard s, the key and the arguments to *)
(* the shard after it and its reply [s, r]: it runs to its end without     *)
(* yielding.  Only SET and DEL wait, for the commit log, before they touch *)
(* the cache.  Times are abstract: an entry in _alive may be collected at  *)
(* any moment; module Cache has the clock.                                 *)
(*                                                                         *)
(* Constructors assign to members of a union that hold nothing yet; the    *)
(* memory is taken to be zero, for which that is harmless.                 *)
(***************************************************************************)
EXTENDS Containers, ReplyBuilder

CONSTANT Keys

Reverse(l) == [i \in 1 .. Len(l) |-> l[Len(l) + 1 - i]]

(* Some order of the elements of a set.                                    *)
SetToSeq(S) == CHOOSE l \in [1 .. Cardinality(S) -> S] : IsInjective(l)

Types == {"int64", "bytes", "list", "dict", "set", "sset"}

EmptyShard ==
    [type    |-> [k \in Keys |-> "none"],
     val     |-> [k \in Keys |-> "nothing"],
     expires |-> [k \in Keys |-> FALSE],
     alive   |-> [k \in Keys |-> FALSE],
     total   |-> [t \in Types |-> 0],
     status  |-> "up"]

Reply(s, r) == [s |-> s, r |-> r]
Stop(s, why) == Reply([s EXCEPT !.status = why], no_reply)

exists_direct(s, k) == s.type[k] # "none"

(* The beginning of most handlers: find the key, check its type.           *)
OnType(s, k, type, missing, result) ==
    IF ~exists_direct(s, k) THEN Reply(s, missing)
    ELSE IF s.type[k] # type THEN Reply(s, msg_type_err)
    ELSE result

Create(s, k, type, v) == [s EXCEPT !.type[k] = type, !.val[k] = v, !.total[type] = @ + 1]

FindOrCreate(s, k, type, v) == IF exists_direct(s, k) THEN s ELSE Create(s, k, type, v)

Put(s, k, v) == [s EXCEPT !.val[k] = v]

Dropped(s, k) ==
    [s EXCEPT !.type[k] = "none", !.val[k] = "nothing", !.expires[k] = FALSE, !.alive[k] = FALSE]

Uncount(s, type) == [s EXCEPT !.total[type] = @ - 1]

(* cache::erase by key takes what ever_expires() out of _alive; the        *)
(* destructor of an entry that is still linked there asserts.              *)
erase(s, k) ==
    IF s.alive[k] /\ ~s.expires[k] THEN [s EXCEPT !.status = "aborted"] ELSE Dropped(s, k)

(* cache::erase by reference does not look at _alive.                      *)
erase_entry(s, k) == IF s.alive[k] THEN [s EXCEPT !.status = "aborted"] ELSE Dropped(s, k)

(* What handlers that remove elements do at their end.                     *)
PutOrErase(s, k, v, empty) ==
    IF empty THEN erase(Uncount(s, s.type[k]), k) ELSE Put(s, k, v)

-----------------------------------------------------------------------------
(* Strings and counters.                                                   *)

(* cache::insert_if: what is there is replaced, whatever its type, unless  *)
(* NX forbids it.                                                          *)
insert_if(s, k, v, ttl, nx, xx) ==
    LET there == exists_direct(s, k)
        room  == IF there /\ (xx \/ ~nx) THEN erase(s, k) ELSE s
    IN  IF (xx /\ there) \/ (nx /\ ~there) \/ (~nx /\ ~xx)
        THEN [inserted |-> TRUE,
              s |-> [room EXCEPT !.type[k] = "bytes", !.val[k] = v, !.expires[k] = ttl, !.alive[k] = ttl]]
        ELSE [inserted |-> FALSE, s |-> room]

\* Mutant: SET counts the new string only when the key was not there.
set_direct_CountsNew(s, k, v, ttl, nx, xx) ==
    LET i == insert_if(s, k, v, ttl, nx, xx)
    IN  IF i.inserted /\ ~exists_direct(s, k) THEN Reply([i.s EXCEPT !.total["bytes"] = @ + 1], TRUE)
        ELSE Reply(i.s, i.inserted)

set_direct(s, k, v, ttl, nx, xx) ==
    LET i == insert_if(s, k, v, ttl, nx, xx)
    IN  IF i.inserted THEN Reply([i.s EXCEPT !.total["bytes"] = @ + 1], TRUE)
        ELSE Reply(i.s, FALSE)

(* The part of SET behind the wait for the log.                            *)
set(s, k, v, ttl, nx, xx) ==
    LET d == set_direct(s, k, v, ttl, nx, xx) IN Reply(d.s, IF d.r THEN msg_ok ELSE msg_nil)

del_direct(s, k) ==
    IF ~exists_direct(s, k) THEN Reply(s, FALSE)
    ELSE Reply(erase_entry(Uncount(s, s.type[k]), k), TRUE)

(* The part of DEL behind the wait for the log.                            *)
del(s, k) == LET d == del_direct(s, k) IN Reply(d.s, build_bool(d.r))

exists(s, k) == Reply(s, build_bool(exists_direct(s, k)))

(* A key that is not there is set to the step, also by DECR.               *)
counter_by(s, k, step, incr) ==
    IF ~exists_direct(s, k) THEN Reply(Create(s, k, "int64", step), build_bulk(step))
    ELSE LET n == s.val[k] + (IF incr THEN step ELSE -step)
         IN  OnType(s, k, "int64", msg_nil, Reply(Put(s, k, n), build_bulk(n)))

(* The old value is destroyed before the new one is assigned to it: the    *)
(* memory may still be good or not.                                        *)
append(s, k, v, good) ==
    IF ~exists_direct(s, k) THEN Reply(Create(s, k, "bytes", v), build_size(Len(v)))
    ELSE LET w == s.val[k] \o v
         IN  OnType(s, k, "bytes", msg_nil,
                    IF good THEN Reply(Put(s, k, w), build_size(Len(w))) ELSE Stop(s, "undefined"))

get(s, k) == OnType(s, k, "bytes", msg_nil, Reply(s, build_bulk(s.val[k])))

(* At most one value.                                                      *)
get_direct(s, k) == Reply(s, IF s.type[k] = "bytes" THEN <<s.val[k]>> ELSE <<>>)

strlen(s, k) == OnType(s, k, "bytes", msg_zero, Reply(s, build_size(Len(s.val[k]))))

(* type_name() is empty for every entry.                                   *)
type(s, k) == Reply(s, IF exists_direct(s, k) THEN build_empty ELSE msg_type_none)

(* cache::expire: links the entry in _alive, once; a time of 0 sets the    *)
(* timeout that means never.  The reply says whether the timeout is the    *)
(* earliest one.                                                           *)
expire(s, k, ms, earliest) ==
    IF ~exists_direct(s, k) THEN Reply(s, build_bool(FALSE))
    ELSE IF s.alive[k] THEN Stop(s, "aborted")
    ELSE Reply([s EXCEPT !.expires[k] = ms # 0, !.alive[k] = TRUE], build_bool(earliest))

persist(s, k) ==
    IF s.expires[k] THEN Reply([s EXCEPT !.expires[k] = FALSE, !.alive[k] = FALSE], build_bool(TRUE))
    ELSE Reply(s, build_bool(FALSE))

pttl(s, k, left) ==
    Reply(s, IF ~exists_direct(s, k) THEN msg_neg_two ELSE IF ~s.expires[k] THEN msg_neg_one ELSE build_size(left))

ttl(s, k, left) ==
    Reply(s, IF ~exists_direct(s, k) THEN msg_neg_two ELSE IF ~s.expires[k] THEN msg_neg_one ELSE build_size(left \div 1000))

(* The releaser of the constructor, called for an entry that _alive has    *)
(* handed out.  Dicts are not counted out.                                 *)
release_expired(s, k) ==
    Reply(Dropped(IF s.type[k] = "dict" THEN s ELSE Uncount(s, s.type[k]), k), no_reply)

-----------------------------------------------------------------------------
(* Lists.  LPUSH is push_multi with left FALSE, that is, at the tail.      *)

alignment_index_base_on(size, index) == IF index < 0 THEN index + size ELSE index

push(s, k, v, force, left) ==
    IF ~exists_direct(s, k) /\ ~force THEN Reply(s, msg_err)
    ELSE LET c == FindOrCreate(s, k, "list", <<>>)
             l == IF left THEN insert_head(c.val[k], v) ELSE insert_tail(c.val[k], v)
         IN  OnType(c, k, "list", msg_err, Reply(Put(c, k, l), build_size(Len(l))))

push_multi(s, k, values, force, left) ==
    IF ~exists_direct(s, k) /\ ~force THEN Reply(s, msg_err)
    ELSE LET c == FindOrCreate(s, k, "list", <<>>)
             l == IF left THEN Reverse(values) \o c.val[k] ELSE c.val[k] \o values
         IN  OnType(c, k, "list", msg_err, Reply(Put(c, k, l), build_size(Len(l))))

(* Asserts that a list is never empty.                                     *)
pop(s, k, left) ==
    LET l == s.val[k]
    IN  OnType(s, k, "list", msg_nil,
            IF l = <<>> THEN Stop(s, "aborted")
            ELSE LET rest == IF left THEN Tail(l) ELSE SubSeq(l, 1, Len(l) - 1)
                 IN  Reply(PutOrErase(s, k, rest, rest = <<>>),
                           build_bulk(IF left THEN Head(l) ELSE l[Len(l)])))

llen(s, k) == OnType(s, k, "list", msg_zero, Reply(s, build_size(Len(s.val[k]))))

(* An index of one past the end passes the check and fails the assertion   *)
(* of at().                                                                *)
lindex(s, k, idx) ==
    LET l == s.val[k]
        i == alignment_index_base_on(Len(l), idx)
    IN  OnType(s, k, "list", msg_nil,
            IF index_out_of_range(l, i) THEN Reply(s, msg_nil)
            ELSE IF i = Len(l) THEN Stop(s, "aborted")
            ELSE Reply(s, build_bulk(at(l, i))))

(* The entry at the end index is left out.                                 *)
lrange(s, k, start, end) ==
    LET l == s.val[k]
        b == Max({0, alignment_index_base_on(Len(l), start)})
        e == Min({Len(l) - 1, alignment_index_base_on(Len(l), end)})
    IN  OnType(s, k, "list", msg_err, Reply(s, build_array([i \in 1 .. e - b |-> <<"$", at(l, b + i - 1)>>])))

lrem(s, k, count, v) ==
    OnType(s, k, "list", msg_err,
        IF trem(s.val[k], v, count) = Undefined THEN Stop(s, "undefined")
        ELSE LET t == trem(s.val[k], v, count)
             IN  Reply(PutOrErase(s, k, t.list, t.list = <<>>), build_size(t.erased)))

linsert(s, k, pivot, v, after) ==
    OnType(s, k, "list", msg_zero,
        IF index_of(s.val[k], pivot) = Undefined THEN Stop(s, "undefined")
        ELSE Reply(Put(s, k, IF after THEN insert_tail(s.val[k], v) ELSE insert_head(s.val[k], v)), msg_one))

(* Frees a member of a list node; then asserts with the index as it came.  *)
lset(s, k, idx, v) ==
    OnType(s, k, "list", msg_nokey_err,
        IF index_out_of_range(s.val[k], alignment_index_base_on(Len(s.val[k]), idx))
        THEN Reply(s, msg_out_of_range_err)
        ELSE Stop(s, "undefined"))

ltrim(s, k, start, end) ==
    LET l == s.val[k]
        b == Max({0, alignment_index_base_on(Len(l), start)})
        e == alignment_index_base_on(Len(l), end)
        m == IF b > e \/ b > Len(l) \/ e < 0 THEN <<>> ELSE l
    IN  OnType(s, k, "list", msg_ok,
            IF trim(m, b, e) = Undefined THEN Stop(s, "undefined")
            ELSE Reply(PutOrErase(s, k, m, m = <<>>), msg_ok))

-----------------------------------------------------------------------------
(* Hashes.  A field holds <<"bytes", v>>, <<"integer", n>> or              *)
(* <<"float", x>>.                                                         *)

NoFields == [f \in {} |-> 0]

hset(s, k, f, v) ==
    LET c == FindOrCreate(s, k, "dict", NoFields)
    IN  OnType(c, k, "dict", msg_err,
            Reply(Put(c, k, dict_insert(c.val[k], f, <<"bytes", v>>)), build_bool(f \notin DOMAIN c.val[k])))

(* HINCRBY and HINCRBYFLOAT, which differ in the kind of field.            *)
hincr(s, k, f, delta, kind, wrong) ==
    LET c == FindOrCreate(s, k, "dict", NoFields)
        d == c.val[k]
    IN  OnType(c, k, "dict", msg_err,
            IF f \notin DOMAIN d
            THEN Reply(Put(c, k, dict_insert(d, f, <<kind, delta>>)), build_dict_entry(<<kind, delta>>))
            ELSE IF d[f][1] # kind THEN Reply(c, wrong)
            ELSE Reply(Put(c, k, [d EXCEPT ![f] = <<kind, @[2] + delta>>]), build_dict_entry(<<kind, d[f][2] + delta>>)))

hincrby(s, k, f, delta)      == hincr(s, k, f, delta, "integer", msg_not_integer_err)
hincrbyfloat(s, k, f, delta) == hincr(s, k, f, delta, "float", msg_not_float_err)

(* kvs is a map without order; the loop ends at a field that is there.     *)
(* before: the new fields the loop meets before it.                        *)
hmset(s, k, kvs, before) ==
    LET c   == FindOrCreate(s, k, "dict", NoFields)
        d   == c.val[k]
        all == DOMAIN kvs \cap DOMAIN d = {}
        new == IF all THEN DOMAIN kvs ELSE (before \cap DOMAIN kvs) \ DOMAIN d
    IN  OnType(c, k, "dict", msg_err,
            Reply(Put(c, k, [f \in DOMAIN d \cup new |-> IF f \in DOMAIN d THEN d[f] ELSE <<"bytes", kvs[f]>>]),
                  IF all /\ DOMAIN kvs # {} THEN msg_ok ELSE msg_err))

hget(s, k, f) ==
    OnType(s, k, "dict", msg_err,
        Reply(s, IF f \in DOMAIN s.val[k] THEN build_dict_entry(s.val[k][f]) ELSE msg_nil))

hdel_multi(s, k, fields) ==
    LET d == dict_erase(s.val[k], Range(fields))
    IN  OnType(s, k, "dict", msg_zero,
            Reply(PutOrErase(s, k, d, DOMAIN d = {}), build_size(Cardinality(Range(fields) \cap DOMAIN s.val[k]))))

hdel(s, k, f) ==
    LET d == dict_erase(s.val[k], {f})
    IN  OnType(s, k, "dict", msg_zero,
            Reply(PutOrErase(s, k, d, DOMAIN d = {}), IF f \in DOMAIN s.val[k] THEN msg_ok ELSE msg_err))

hexists(s, k, f) == OnType(s, k, "dict", msg_zero, Reply(s, build_bool(f \in DOMAIN s.val[k])))

(* The size of a number is read from the wrong member of a union.          *)
hstrlen(s, k, f) ==
    LET d == s.val[k]
    IN  OnType(s, k, "dict", msg_zero,
            IF f \notin DOMAIN d THEN Reply(s, msg_zero)
            ELSE IF d[f][1] # "bytes" THEN Stop(s, "undefined")
            ELSE Reply(s, build_size(Len(d[f][2]))))

hlen(s, k) == OnType(s, k, "dict", msg_zero, Reply(s, build_size(Cardinality(DOMAIN s.val[k]))))

(* The tree yields its entries in the order of their keys; the order is    *)
(* left open here.                                                         *)
Fetched(d, fields) ==
    [i \in DOMAIN fields |->
        IF fields[i] \in DOMAIN d THEN [found |-> TRUE, key |-> fields[i], value |-> d[fields[i]][2]]
                                  ELSE [found |-> FALSE, key |-> fields[i], value |-> "nothing"]]

hgetall_impl(s, k, Key, Value) ==
    OnType(s, k, "dict", msg_err,
        Reply(s, build_dict_entries(Key, Value, Fetched(s.val[k], SetToSeq(DOMAIN s.val[k])))))

hmget(s, k, fields) ==
    OnType(s, k, "dict", msg_err, Reply(s, build_dict_entries(FALSE, TRUE, Fetched(s.val[k], fields))))

-----------------------------------------------------------------------------
(* Sets: a dict without values.                                            *)

(* picks: the members that the random indices hit, one may be hit twice.   *)
srandmember(s, k, picks) ==
    OnType(s, k, "set", msg_nil,
        Reply(s, build_dict_entries(TRUE, FALSE, [i \in DOMAIN picks |-> [found |-> TRUE, key |-> picks[i]]])))

sadds_direct(s, k, members) ==
    LET c == FindOrCreate(s, k, "set", {})
    IN  IF c.type[k] # "set" THEN Reply(c, FALSE)
        ELSE Reply(Put(c, k, c.val[k] \cup Range(members)), TRUE)

sadd_direct(s, k, member) == sadds_direct(s, k, <<member>>)

sadds(s, k, members) ==
    LET c == FindOrCreate(s, k, "set", {})
    IN  OnType(c, k, "set", msg_err,
            Reply(Put(c, k, c.val[k] \cup Range(members)), build_size(Cardinality(Range(members) \ c.val[k]))))

scard(s, k) == OnType(s, k, "set", msg_zero, Reply(s, build_size(Cardinality(s.val[k]))))

sismember(s, k, m) == OnType(s, k, "set", msg_zero, Reply(s, build_bool(m \in s.val[k])))

Listed(S) == [i \in 1 .. Cardinality(S) |-> [found |-> TRUE, key |-> SetToSeq(S)[i]]]

smembers(s, k) == OnType(s, k, "set", msg_nil, Reply(s, build_dict_entries(TRUE, FALSE, Listed(s.val[k]))))

smembers_direct(s, k) == Reply(s, IF s.type[k] = "set" THEN s.val[k] ELSE {})

(* An entry that was picked twice is erased twice.                         *)
spop(s, k, picks) ==
    LET rest == s.val[k] \ Range(picks)
        r    == build_dict_entries(TRUE, FALSE, [i \in DOMAIN picks |-> [found |-> TRUE, key |-> picks[i]]])
    IN  OnType(s, k, "set", msg_nil,
            IF ~IsInjective(picks) THEN Stop(s, "undefined")
            ELSE IF picks = <<>> THEN Reply(s, r)
            ELSE Reply(PutOrErase(s, k, rest, rest = {}), r))

srem(s, k, m) ==
    LET rest == s.val[k] \ {m}
    IN  OnType(s, k, "set", msg_zero, Reply(PutOrErase(s, k, rest, rest = {}), build_bool(m \in s.val[k])))

(* A set that is not there counts as success.                              *)
srem_direct(s, k, m) ==
    IF ~exists_direct(s, k) THEN Reply(s, TRUE)
    ELSE IF s.type[k] # "set" THEN Reply(s, FALSE)
    ELSE LET rest == s.val[k] \ {m} IN Reply(PutOrErase(s, k, rest, rest = {}), m \in s.val[k])

\* Mutant: the reply counts the members asked for, not those removed.
srems_CountsAsked(s, k, members) ==
    LET rest == s.val[k] \ Range(members)
    IN  OnType(s, k, "set", msg_zero, Reply(PutOrErase(s, k, rest, rest = {}), build_size(Len(members))))

srems(s, k, members) ==
    LET rest == s.val[k] \ Range(members)
    IN  OnType(s, k, "set", msg_zero,
            Reply(PutOrErase(s, k, rest, rest = {}), build_size(Cardinality(Range(members) \cap s.val[k]))))

-----------------------------------------------------------------------------
(* Sorted sets.  pairs: the members and scores in the order the map yields *)
(* them.                                                                   *)

Added(z, pairs, flags) ==
    CASE flags = "nx" -> insert_if_not_exists(z, pairs)
      [] flags = "xx" -> update_if_only_exists(z, pairs)
      [] flags = "ch" -> insert_or_update(z, pairs)

zadds(s, k, pairs, flags) ==
    LET c == FindOrCreate(s, k, "sset", <<>>)
    IN  OnType(c, k, "sset", msg_err,
            IF flags = "incr" THEN Stop(c, "aborted")
            ELSE LET a == Added(c.val[k], pairs, flags) IN Reply(Put(c, k, a.list), build_size(a.n)))

zadds_direct(s, k, pairs, flags) ==
    LET c == FindOrCreate(s, k, "sset", <<>>)
    IN  IF c.type[k] # "sset" THEN Reply(c, FALSE)
        ELSE IF flags = "incr" THEN Stop(c, "aborted")
        ELSE LET a == Added(c.val[k], pairs, flags) IN Reply(Put(c, k, a.list), a.n > 0)

zcard(s, k) == OnType(s, k, "sset", msg_zero, Reply(s, build_size(Len(s.val[k]))))

zrem(s, k, members) ==
    LET rest == sset_erase(s.val[k], Range(members))
    IN  OnType(s, k, "sset", msg_zero,
            Reply(PutOrErase(s, k, rest, rest = <<>>), build_size(Len(s.val[k]) - Len(rest))))

zcount(s, k, min, max) ==
    OnType(s, k, "sset", msg_zero, Reply(s, build_size(Len(fetch_by_score(s.val[k], min, max)))))

zincrby(s, k, m, delta) ==
    LET c  == FindOrCreate(s, k, "sset", <<>>)
        sc == IF Scored(c.val[k], m) = {} THEN delta ELSE delta + score(c.val[k], m)
    IN  OnType(c, k, "sset", msg_err,
            Reply(Put(c, k, insert_or_update(c.val[k], <<[m |-> m, score |-> sc]>>).list), build_bulk(sc)))

zrange_direct(s, k, begin, end) ==
    Reply(s, IF s.type[k] = "sset" THEN fetch_by_rank(s.val[k], begin, end) ELSE <<>>)

zrange(s, k, begin, end, reverse, with_score) ==
    LET q == fetch_by_rank(s.val[k], begin, end)
    IN  OnType(s, k, "sset", msg_nil, Reply(s, build_sset_entries(IF reverse THEN Reverse(q) ELSE q, with_score)))

zrangebyscore(s, k, min, max, reverse, with_score) ==
    LET q == fetch_by_score(s.val[k], min, max)
    IN  OnType(s, k, "sset", msg_nil, Reply(s, build_sset_entries(IF reverse THEN Reverse(q) ELSE q, with_score)))

(* The reverse rank of the last member is 1.                               *)
zrank(s, k, m, reverse) ==
    LET z == s.val[k]
    IN  OnType(s, k, "sset", msg_nil,
            IF Scored(z, m) = {} THEN Reply(s, msg_nil)
            ELSE Reply(s, build_size(IF reverse THEN Len(z) - rank(z, m) ELSE rank(z, m))))

zscore(s, k, m) ==
    OnType(s, k, "sset", msg_zero,
        Reply(s, IF Scored(s.val[k], m) = {} THEN msg_err ELSE build_bulk(score(s.val[k], m))))

ZRemFetched(s, k, q) ==
    LET rest == sset_erase(s.val[k], {q[i].m : i \in DOMAIN q})
    IN  Reply(PutOrErase(s, k, rest, rest = <<>>), build_size(Len(q)))

zremrangebyscore(s, k, min, max) ==
    OnType(s, k, "sset", msg_zero, ZRemFetched(s, k, fetch_by_score(s.val[k], min, max)))

zremrangebyrank(s, k, begin, end) ==
    OnType(s, k, "sset", msg_zero, ZRemFetched(s, k, fetch_by_rank(s.val[k], begin, end)))

(* The distance is a function of the two scores, left open; it is not      *)
(* there when a score does not decode.                                     *)
geodist(s, k, l, r, decodes) ==
    OnType(s, k, "sset", msg_err,
        IF Scored(s.val[k], l) = {} \/ Scored(s.val[k], r) = {} \/ ~decodes THEN Reply(s, msg_err)
        ELSE Reply(s, build_bulk(<<score(s.val[k], l), score(s.val[k], r)>>)))

(* GEOHASH and GEOPOS: the geohash of every member that is there.          *)
geohash(s, k, members, decodes) ==
    LET q == fetch_by_key(s.val[k], members)
    IN  OnType(s, k, "sset", msg_err,
            IF q # <<>> /\ ~decodes THEN Reply(s, msg_err)
            ELSE Reply(s, build_array([i \in DOMAIN q |-> <<"$", q[i].score>>])))

geopos(s, k, members, decodes) == geohash(s, k, members, decodes)

-----------------------------------------------------------------------------
(* Bitmaps and HyperLogLog.  The constructors for them leave the value     *)
(* unset: a key that is not there gets a null value that is used at once.  *)

(* Behind the end of a string, what = "undefined" unless the byte is in    *)
(* the space for short strings, which holds any bit and does not keep it.  *)
setbit(s, k, offset, value, what) ==
    IF ~exists_direct(s, k) THEN Stop(s, "undefined")
    ELSE OnType(s, k, "bytes", msg_err,
             LET o == bits_set(s.val[k], offset, value)
             IN  IF o # Undefined THEN Reply(Put(s, k, o), build_bool(bit_of(s.val[k], offset) = 1))
                 ELSE IF what = "undefined" THEN Stop(s, what)
                 ELSE Reply(s, build_bool(what = "one")))

getbit(s, k, offset) ==
    OnType(s, k, "bytes", msg_zero, Reply(s, build_bool(bits_get(s.val[k], offset) = 1)))

bitcount(s, k, start, end) ==
    OnType(s, k, "bytes", msg_zero,
        IF bits_count(s.val[k], start, end) = Undefined THEN Stop(s, "undefined")
        ELSE Reply(s, build_size(bits_count(s.val[k], start, end))))

pfadd(s, k) == IF exists_direct(s, k) THEN Reply(s, msg_type_err) ELSE Stop(s, "undefined")

pfcount(s, k) == Reply(s, IF exists_direct(s, k) THEN msg_type_err ELSE msg_zero)

pfmerge(s, k) == IF exists_direct(s, k) THEN Reply(s, msg_type_err) ELSE Stop(s, "undefined")

get_hll_direct(s, k) == Reply(s, "nullptr")
=============================================================================
