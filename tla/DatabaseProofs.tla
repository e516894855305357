--------------------------- MODULE DatabaseProofs ---------------------------
(***************************************************************************)
(* Proofs about the database of a shard, for any finite set of keys, any   *)
(* arguments of commands and any order of the ends of appends to the log:  *)
(* every handler keeps the entry counters and the links of _alive right.   *)
(***************************************************************************)
EXTENDS Database, FiniteSetTheorems, TLAPS

\* A leaf that names no prover is one for the SMT solver.
USE SMTT(60)

Statuses == {"up", "aborted", "undefined"}

Shaped(s) ==
    /\ DOMAIN s = {"type", "val", "expires", "alive", "total", "status"}
    /\ s.type \in [Keys -> Types \cup {"none"}] /\ DOMAIN s.val = Keys
    /\ s.expires \in [Keys -> BOOLEAN] /\ s.alive \in [Keys -> BOOLEAN]
    /\ s.total \in [Types -> Int] /\ s.status \in Statuses

(* Only what is there is linked, which the releaser of expired entries     *)
(* relies on.                                                              *)
Linked(s) == \A k \in Keys : (s.expires[k] => s.alive[k]) /\ (s.alive[k] => s.type[k] # "none")

Covered(s) == s.status = "up" => \A t \in Types : Cardinality(Entries(s, t)) <= s.total[t]

(* What a handler finds and leaves.                                        *)
Good(s) == Shaped(s) /\ Linked(s) /\ Covered(s)

-----------------------------------------------------------------------------
(* The counts.                                                             *)

LEMMA EntriesFinite ==
  ASSUME IsFiniteSet(Keys), NEW s, NEW t
  PROVE  IsFiniteSet(Entries(s, t)) /\ Cardinality(Entries(s, t)) \in Nat
<1>1. Entries(s, t) \subseteq Keys
  BY DEF Entries
<1>. QED  BY <1>1, FS_Subset, FS_CardinalityType

(* An entry of type t where there was none.                                *)
LEMMA OneMore ==
  ASSUME IsFiniteSet(Keys), NEW s, NEW u, NEW k \in Keys, NEW t \in Types,
         s.type[k] = "none", u.type[k] = t, \A j \in Keys : j # k => u.type[j] = s.type[j]
  PROVE  /\ Cardinality(Entries(u, t)) = Cardinality(Entries(s, t)) + 1
         /\ \A x \in Types : x # t => Entries(u, x) = Entries(s, x)
<1>1. Entries(u, t) = Entries(s, t) \cup {k} /\ k \notin Entries(s, t)
  BY DEF Entries, Types
<1>2. \A x \in Types : x # t => Entries(u, x) = Entries(s, x)
  BY DEF Entries, Types
<1>3. Cardinality(Entries(s, t) \cup {k}) = Cardinality(Entries(s, t)) + 1
  BY <1>1, EntriesFinite, FS_AddElement, ZenonT(60)
<1>. QED  BY <1>1, <1>2, <1>3

(* No entry where there was one.                                           *)
LEMMA OneLess ==
  ASSUME IsFiniteSet(Keys), NEW s, NEW u, NEW k \in Keys, s.type[k] \in Types,
         u.type[k] = "none", \A j \in Keys : j # k => u.type[j] = s.type[j]
  PROVE  /\ Cardinality(Entries(s, s.type[k])) = Cardinality(Entries(u, s.type[k])) + 1
         /\ \A x \in Types : x # s.type[k] => Entries(u, x) = Entries(s, x)
BY OneMore

LEMMA SameCounts ==
  ASSUME NEW s, NEW u, \A j \in Keys : u.type[j] = s.type[j], NEW t
  PROVE  Entries(u, t) = Entries(s, t)
BY DEF Entries

-----------------------------------------------------------------------------
(* What handlers are made of.                                              *)

LEMMA StatusKeeps ==
  ASSUME NEW s, Good(s), NEW why \in {"aborted", "undefined"}
  PROVE  Good([s EXCEPT !.status = why])
BY DEF Good, Shaped, Linked, Covered, Statuses

LEMMA PutKeeps ==
  ASSUME NEW s, Good(s), NEW k, NEW v
  PROVE  Good(Put(s, k, v))
<1>. DEFINE u == Put(s, k, v)
<1>1. Shaped(u) /\ u.type = s.type /\ u.expires = s.expires /\ u.alive = s.alive /\ u.total = s.total /\ u.status = s.status
  BY DEF Put, Good, Shaped
<1>. HIDE DEF u
<1>2. \A t : Entries(u, t) = Entries(s, t)
  BY <1>1, SameCounts
<1>. QED  BY <1>1, <1>2 DEF Good, Linked, Covered, u

LEMMA CreateKeeps ==
  ASSUME IsFiniteSet(Keys), NEW s, Good(s), NEW k \in Keys, s.type[k] = "none", NEW t \in Types, NEW v
  PROVE  Good(Create(s, k, t, v))
<1>. DEFINE u == Create(s, k, t, v)
<1>1. /\ Shaped(u) /\ u.expires = s.expires /\ u.alive = s.alive /\ u.status = s.status
      /\ u.type[k] = t /\ \A j \in Keys : j # k => u.type[j] = s.type[j]
      /\ u.total[t] = s.total[t] + 1 /\ \A x \in Types : x # t => u.total[x] = s.total[x]
  BY DEF Create, Good, Shaped
<1>. HIDE DEF u
<1>2. Linked(u)
  BY <1>1 DEF Good, Linked
<1>3. Covered(u)
  BY <1>1, OneMore, EntriesFinite DEF Good, Shaped, Covered
<1>. QED  BY <1>1, <1>2, <1>3 DEF Good, u

(* The entry is gone, and was counted out, or nobody looks any more.       *)
LEMMA DropKeeps ==
  ASSUME IsFiniteSet(Keys), NEW s, Good(s), NEW k \in Keys, s.type[k] \in Types
  PROVE  /\ Good(Dropped(s, k))
         /\ Good(Dropped(Uncount(s, s.type[k]), k))
<1>1. ASSUME NEW u, Shaped(u), u.status = s.status, u.type[k] = "none", ~u.expires[k], ~u.alive[k],
             \A j \in Keys : j # k => u.type[j] = s.type[j] /\ u.expires[j] = s.expires[j] /\ u.alive[j] = s.alive[j],
             u.total[s.type[k]] >= s.total[s.type[k]] - 1, \A x \in Types : x # s.type[k] => u.total[x] = s.total[x]
      PROVE  Good(u)
  <2>1. Linked(u)
    BY <1>1 DEF Good, Linked
  <2>2. Covered(u)
    BY <1>1, OneLess, EntriesFinite DEF Good, Shaped, Covered
  <2>. QED  BY <1>1, <2>1, <2>2 DEF Good
<1>2. Good(Dropped(s, k))
  <2>. DEFINE u == Dropped(s, k)
  <2>1. /\ Shaped(u) /\ u.status = s.status /\ u.type[k] = "none" /\ ~u.expires[k] /\ ~u.alive[k] /\ u.total = s.total
        /\ \A j \in Keys : j # k => u.type[j] = s.type[j] /\ u.expires[j] = s.expires[j] /\ u.alive[j] = s.alive[j]
    BY DEF Dropped, Good, Shaped
  <2>. HIDE DEF u
  <2>. QED  BY <1>1, <2>1 DEF Good, Shaped, u
<1>3. Good(Dropped(Uncount(s, s.type[k]), k))
  <2>. DEFINE u == Dropped(Uncount(s, s.type[k]), k)
  <2>1. /\ Shaped(u) /\ u.status = s.status /\ u.type[k] = "none" /\ ~u.expires[k] /\ ~u.alive[k]
        /\ u.total[s.type[k]] = s.total[s.type[k]] - 1 /\ \A x \in Types : x # s.type[k] => u.total[x] = s.total[x]
        /\ \A j \in Keys : j # k => u.type[j] = s.type[j] /\ u.expires[j] = s.expires[j] /\ u.alive[j] = s.alive[j]
    BY DEF Dropped, Uncount, Good, Shaped
  <2>. HIDE DEF u
  <2>. QED  BY <1>1, <2>1 DEF Good, Shaped, u
<1>. QED  BY <1>2, <1>3

LEMMA EraseKeeps ==
  ASSUME IsFiniteSet(Keys), NEW s, Good(s), NEW k \in Keys, s.type[k] \in Types
  PROVE  /\ Good(erase(s, k))
         /\ Good(erase(Uncount(s, s.type[k]), k))
         /\ Good(erase_entry(Uncount(s, s.type[k]), k))
<1>. DEFINE u == Uncount(s, s.type[k])
<1>1. Good([u EXCEPT !.status = "aborted"])
  BY DEF Good, Shaped, Linked, Covered, Uncount, Statuses
<1>. HIDE DEF u
<1>. QED  BY <1>1, DropKeeps, StatusKeeps, ZenonT(60) DEF erase, erase_entry, u

(* The ends of handlers.                                                   *)
Fine(r) == Good(r.s)

LEMMA Ends ==
  ASSUME IsFiniteSet(Keys), NEW s, Good(s), NEW k \in Keys
  PROVE  /\ \A m : Fine(Reply(s, m))
         /\ Fine(Stop(s, "aborted")) /\ Fine(Stop(s, "undefined"))
         /\ \A v, m : Fine(Reply(Put(s, k, v), m))
         /\ ~exists_direct(s, k) => \A t \in Types : \A v, m : Fine(Reply(Create(s, k, t, v), m))
         /\ exists_direct(s, k) => \A m : Fine(Reply(erase_entry(Uncount(s, s.type[k]), k), m))
         /\ exists_direct(s, k) => \A v, empty, m : Fine(Reply(PutOrErase(s, k, v, empty), m))
<1>1. \A m, t : Good(t) => Fine(Reply(t, m))
  BY DEF Fine, Reply
<1>2. Fine(Stop(s, "aborted")) /\ Fine(Stop(s, "undefined"))
  BY <1>1, StatusKeeps DEF Stop
<1>3. ~exists_direct(s, k) => \A t \in Types : \A v, m : Fine(Reply(Create(s, k, t, v), m))
  BY <1>1, CreateKeeps DEF exists_direct
<1>4. exists_direct(s, k) => s.type[k] \in Types
  BY DEF exists_direct, Good, Shaped
<1>5. exists_direct(s, k) => \A m : Fine(Reply(erase_entry(Uncount(s, s.type[k]), k), m))
  BY <1>1, <1>4, EraseKeeps
<1>6. exists_direct(s, k) => \A v, empty : Good(PutOrErase(s, k, v, empty))
  BY <1>4, EraseKeeps, PutKeeps, ZenonT(60) DEF PutOrErase
<1>. QED  BY <1>1, <1>2, <1>3, <1>5, <1>6, PutKeeps

(* The ends of handlers that have found or made an entry.                  *)
LEMMA EndsFound ==
  ASSUME IsFiniteSet(Keys), NEW s, Good(s), NEW k \in Keys, NEW t \in Types, NEW v, NEW c, c = FindOrCreate(s, k, t, v)
  PROVE  /\ \A m : Fine(Reply(c, m))
         /\ Fine(Stop(c, "aborted"))
         /\ \A w, m : Fine(Reply(Put(c, k, w), m))
<1>1. Good(c)
  BY CreateKeeps DEF FindOrCreate, exists_direct
<1>. QED  BY <1>1, Ends

(* SET: what is there is erased first, uncounted.                          *)
LEMMA SetKeeps ==
  ASSUME IsFiniteSet(Keys), NEW s, Good(s), NEW k \in Keys, s.type[k] = "none" \/ s.status # "up", NEW v, NEW lives \in BOOLEAN
  PROVE  Good([[s EXCEPT !.type[k] = "bytes", !.val[k] = v, !.expires[k] = lives, !.alive[k] = lives]
                 EXCEPT !.total["bytes"] = @ + 1])
<1>. DEFINE u == [[s EXCEPT !.type[k] = "bytes", !.val[k] = v, !.expires[k] = lives, !.alive[k] = lives]
                    EXCEPT !.total["bytes"] = @ + 1]
<1>0. "bytes" \in Types
  BY DEF Types
<1>1. /\ Shaped(u) /\ u.status = s.status /\ u.expires[k] = lives /\ u.alive[k] = lives
      /\ u.type[k] = "bytes"
      /\ \A j \in Keys : j # k => u.type[j] = s.type[j] /\ u.expires[j] = s.expires[j] /\ u.alive[j] = s.alive[j]
      /\ u.total["bytes"] = s.total["bytes"] + 1 /\ \A x \in Types : x # "bytes" => u.total[x] = s.total[x]
  BY <1>0 DEF Good, Shaped
<1>. HIDE DEF u
<1>2. Linked(u)
  BY <1>1 DEF Good, Linked
<1>3. Covered(u)
  <2>1. CASE s.status # "up"
    BY <1>1, <2>1 DEF Covered
  <2>2. CASE s.type[k] = "none"
    BY <1>0, <1>1, <2>2, OneMore, EntriesFinite DEF Good, Shaped, Covered
  <2>. QED  BY <2>1, <2>2
<1>. QED  BY <1>1, <1>2, <1>3 DEF Good, u

LEMMA Insertions ==
  ASSUME IsFiniteSet(Keys), NEW s, Good(s), NEW k \in Keys, NEW v, NEW lives \in BOOLEAN, NEW nx, NEW xx
  PROVE  Fine(set_direct(s, k, v, lives, nx, xx)) /\ Fine(set(s, k, v, lives, nx, xx))
<1>. DEFINE In(t)  == [t EXCEPT !.type[k] = "bytes", !.val[k] = v, !.expires[k] = lives, !.alive[k] = lives]
            One(t) == [t EXCEPT !.total["bytes"] = @ + 1]
            e      == erase(s, k)
<1>1. \/ set_direct(s, k, v, lives, nx, xx).s = s
      \/ exists_direct(s, k) /\ set_direct(s, k, v, lives, nx, xx).s \in {e, One(In(e))}
      \/ ~exists_direct(s, k) /\ set_direct(s, k, v, lives, nx, xx).s = One(In(s))
  BY ZenonT(60) DEF set_direct, insert_if, Reply
<1>2. exists_direct(s, k) => Good(e) /\ (e.type[k] = "none" \/ e.status # "up")
  <2>1. exists_direct(s, k) => s.type[k] \in Types
    BY DEF exists_direct, Good, Shaped
  <2>2. e.type[k] = "none" \/ e.status # "up"
    BY DEF erase, Dropped, Good, Shaped
  <2>. QED  BY <2>1, <2>2, EraseKeeps
<1>. HIDE DEF e
<1>3. exists_direct(s, k) => Good(One(In(e)))
  BY <1>2, SetKeeps, ZenonT(30)
<1>4. ~exists_direct(s, k) => Good(One(In(s)))
  BY SetKeeps, ZenonT(30) DEF exists_direct
<1>. HIDE DEF In, One
<1>5. Good(set_direct(s, k, v, lives, nx, xx).s)
  BY <1>1, <1>2, <1>3, <1>4
<1>. QED  BY <1>5 DEF Fine, set, Reply

-----------------------------------------------------------------------------
(* The handlers.                                                           *)

LEMMA StringHandlers ==
  ASSUME IsFiniteSet(Keys), NEW s, Good(s), NEW k \in Keys
  PROVE  /\ \A step, incr : Fine(counter_by(s, k, step, incr))
         /\ \A v, good : Fine(append(s, k, v, good))
         /\ \A offset, value, what : Fine(setbit(s, k, offset, value, what))
         /\ Fine(pfadd(s, k))
         /\ Fine(pfmerge(s, k))
         /\ Fine(del_direct(s, k))
BY Ends, ZenonT(60) DEF OnType, Types, counter_by, append, setbit, pfadd, pfmerge, del_direct

LEMMA TimeoutHandlers ==
  ASSUME IsFiniteSet(Keys), NEW s, Good(s), NEW k \in Keys
  PROVE  /\ \A ms, earliest : Fine(expire(s, k, ms, earliest))
         /\ Fine(persist(s, k))
         /\ s.alive[k] => Fine(release_expired(s, k))
<1>1. ASSUME NEW x \in BOOLEAN, NEW y \in BOOLEAN, x => y, exists_direct(s, k)
      PROVE  Good([s EXCEPT !.expires[k] = x, !.alive[k] = y])
  <2>. DEFINE u == [s EXCEPT !.expires[k] = x, !.alive[k] = y]
  <2>1. Shaped(u) /\ u.type = s.type /\ u.total = s.total /\ u.status = s.status
    BY DEF Good, Shaped
  <2>2. Linked(u)
    BY <1>1 DEF Good, Shaped, Linked, exists_direct
  <2>. HIDE DEF u
  <2>3. Covered(u)
    BY <2>1, SameCounts DEF Good, Covered
  <2>. QED  BY <2>1, <2>2, <2>3 DEF Good, u
<1>2. \A t, m : Good(t) => Fine(Reply(t, m))
  BY DEF Fine, Reply
<1>3. \A ms, earliest : Fine(expire(s, k, ms, earliest))
  <2>1. exists_direct(s, k) => \A ms : Good([s EXCEPT !.expires[k] = (ms # 0), !.alive[k] = TRUE])
    BY <1>1, ZenonT(60)
  <2>. QED  BY <1>2, <2>1, Ends, ZenonT(60) DEF expire
<1>4. Fine(persist(s, k))
  <2>1. s.expires[k] => exists_direct(s, k)
    BY DEF Good, Linked, exists_direct
  <2>. QED  BY <1>1, <1>2, <2>1, Ends, ZenonT(60) DEF persist
<1>5. s.alive[k] => Fine(release_expired(s, k))
  <2>1. s.alive[k] => s.type[k] \in Types
    BY DEF Good, Shaped, Linked
  <2>. QED  BY <1>2, <2>1, DropKeeps, ZenonT(60) DEF release_expired
<1>. QED  BY <1>3, <1>4, <1>5

LEMMA ListPushes ==
  ASSUME IsFiniteSet(Keys), NEW s, Good(s), NEW k \in Keys
  PROVE  /\ \A v, force, left : Fine(push(s, k, v, force, left))
         /\ \A values, force, left : Fine(push_multi(s, k, values, force, left))
<1>1. "list" \in Types
  BY DEF Types
<1>. QED  BY <1>1, Ends, EndsFound, ZenonT(60) DEF OnType, push, push_multi

LEMMA ListEdits ==
  ASSUME IsFiniteSet(Keys), NEW s, Good(s), NEW k \in Keys
  PROVE  /\ \A left : Fine(pop(s, k, left))
         /\ \A count, v : Fine(lrem(s, k, count, v))
         /\ \A pivot, v, after : Fine(linsert(s, k, pivot, v, after))
         /\ \A idx, v : Fine(lset(s, k, idx, v))
         /\ \A start, end : Fine(ltrim(s, k, start, end))
BY Ends, ZenonT(60) DEF OnType, pop, lrem, linsert, lset, ltrim

LEMMA HashWriters ==
  ASSUME IsFiniteSet(Keys), NEW s, Good(s), NEW k \in Keys
  PROVE  /\ \A f, v : Fine(hset(s, k, f, v))
         /\ \A kvs, before : Fine(hmset(s, k, kvs, before))
<1>1. "dict" \in Types
  BY DEF Types
<1>. QED  BY <1>1, EndsFound, ZenonT(60) DEF OnType, hset, hmset

LEMMA HashCounters ==
  ASSUME IsFiniteSet(Keys), NEW s, Good(s), NEW k \in Keys
  PROVE  /\ \A f, delta : Fine(hincrby(s, k, f, delta))
         /\ \A f, delta : Fine(hincrbyfloat(s, k, f, delta))
<1>1. "dict" \in Types
  BY DEF Types
<1>. QED  BY <1>1, EndsFound, ZenonT(60) DEF OnType, hincr, hincrby, hincrbyfloat

LEMMA HashRemovals ==
  ASSUME IsFiniteSet(Keys), NEW s, Good(s), NEW k \in Keys
  PROVE  /\ \A f : Fine(hdel(s, k, f))
         /\ \A fields : Fine(hdel_multi(s, k, fields))
BY Ends, ZenonT(60) DEF OnType, hdel, hdel_multi

LEMMA SetWriters ==
  ASSUME IsFiniteSet(Keys), NEW s, Good(s), NEW k \in Keys
  PROVE  /\ \A members : Fine(sadds_direct(s, k, members))
         /\ \A members : Fine(sadds(s, k, members))
<1>1. "set" \in Types
  BY DEF Types
<1>. QED  BY <1>1, EndsFound, ZenonT(60) DEF OnType, sadds_direct, sadds

LEMMA SetRemovals ==
  ASSUME IsFiniteSet(Keys), NEW s, Good(s), NEW k \in Keys
  PROVE  /\ \A members : Fine(srems(s, k, members))
         /\ \A m : Fine(srem(s, k, m))
         /\ \A m : Fine(srem_direct(s, k, m))
         /\ \A picks : Fine(spop(s, k, picks))
BY Ends, ZenonT(60) DEF OnType, srems, srem, srem_direct, spop

LEMMA SortedSetWriters ==
  ASSUME IsFiniteSet(Keys), NEW s, Good(s), NEW k \in Keys
  PROVE  /\ \A pairs, flags : Fine(zadds(s, k, pairs, flags))
         /\ \A m, delta : Fine(zincrby(s, k, m, delta))
<1>1. "sset" \in Types
  BY DEF Types
<1>. QED  BY <1>1, EndsFound, ZenonT(60) DEF OnType, zadds, zincrby

LEMMA SortedSetRemovals ==
  ASSUME IsFiniteSet(Keys), NEW s, Good(s), NEW k \in Keys
  PROVE  /\ \A members : Fine(zrem(s, k, members))
         /\ \A min, max : Fine(zremrangebyscore(s, k, min, max))
         /\ \A begin, end : Fine(zremrangebyrank(s, k, begin, end))
BY Ends, ZenonT(60) DEF OnType, ZRemFetched, zrem, zremrangebyscore, zremrangebyrank

-----------------------------------------------------------------------------
(* The shard.                                                              *)

Requests == [op : {"set", "del"}, k : Keys, v : Strings \cup {<<>>}, ttl : BOOLEAN, nx : BOOLEAN, xx : BOOLEAN]

ShardInv == Good(shard) /\ pending \in Seq(Requests)

LEMMA InitInv ==
  ASSUME IsFiniteSet(Keys), Init  PROVE ShardInv
<1>1. Good(EmptyShard)
  <2>1. Shaped(EmptyShard) /\ Linked(EmptyShard)
    BY DEF EmptyShard, Shaped, Linked, Statuses
  <2>2. \A t \in Types : Entries(EmptyShard, t) = {} /\ EmptyShard.total[t] = 0
    BY DEF EmptyShard, Entries, Types
  <2>3. Covered(EmptyShard)
    BY <2>2, FS_EmptySet DEF Covered
  <2>. QED  BY <2>1, <2>3 DEF Good
<1>. QED  BY <1>1 DEF Init, ShardInv

LEMMA DoKeeps ==
  ASSUME ShardInv, NEW r, Fine(r), Do(r)  PROVE ShardInv'
BY DEF ShardInv, Fine, Do

LEMMA BeginKeeps ==
  ASSUME ShardInv, NEW q \in Requests, Begin(q)  PROVE ShardInv'
BY DEF ShardInv, Begin

LEMMA AppendedKeeps ==
  ASSUME IsFiniteSet(Keys), ShardInv, NEW i \in DOMAIN pending, Appended(i)  PROVE ShardInv'
<1>. DEFINE q == pending[i]
<1>1. q \in Requests
  BY DEF ShardInv
<1>. HIDE DEF q
<1>2. /\ shard' \in {set(shard, q.k, q.v, q.ttl, q.nx, q.xx).s, del(shard, q.k).s}
      /\ pending' = RemoveAt(pending, i)
  BY DEF Appended, q
<1>3. Fine(set(shard, q.k, q.v, q.ttl, q.nx, q.xx)) /\ Fine(del(shard, q.k))
  <2>1. q.k \in Keys /\ q.ttl \in BOOLEAN
    BY <1>1 DEF Requests
  <2>2. Fine(set(shard, q.k, q.v, q.ttl, q.nx, q.xx))
    BY <2>1, Insertions, ZenonT(60) DEF ShardInv
  <2>3. Fine(del_direct(shard, q.k))
    BY <2>1, StringHandlers, ZenonT(60) DEF ShardInv
  <2>. QED  BY <2>2, <2>3 DEF del, Fine, Reply
<1>4. RemoveAt(pending, i) \in Seq(Requests)
  BY DEF RemoveAt, ShardInv
<1>. QED  BY <1>2, <1>3, <1>4 DEF ShardInv, Fine

LEMMA ShardStep ==
  ASSUME IsFiniteSet(Keys), ShardInv, [Next]_vars  PROVE ShardInv'
<1>0. Good(shard)
  BY DEF ShardInv
<1>1. ASSUME NEW k \in Keys, StringCommand(k)  PROVE ShardInv'
  <2>1. ASSUME NEW v \in Strings, NEW expiring \in BOOLEAN, NEW nx \in BOOLEAN, NEW xx \in BOOLEAN
        PROVE  [op |-> "set", k |-> k, v |-> v, ttl |-> expiring, nx |-> nx, xx |-> xx] \in Requests
    BY DEF Requests
  <2>2. [op |-> "del", k |-> k, v |-> <<>>, ttl |-> FALSE, nx |-> FALSE, xx |-> FALSE] \in Requests
    BY DEF Requests
  <2>3. \A v : Fine(set_direct(shard, k, v, FALSE, FALSE, FALSE))
    BY <1>0, Insertions, ZenonT(60)
  <2>. QED  BY <1>0, <1>1, <2>1, <2>2, <2>3, DoKeeps, BeginKeeps, StringHandlers, ZenonT(60) DEF StringCommand
<1>2. ASSUME NEW k \in Keys, ExpiryCommand(k)  PROVE ShardInv'
  BY <1>0, <1>2, DoKeeps, TimeoutHandlers, ZenonT(60) DEF ExpiryCommand
<1>3. ASSUME NEW k \in Keys, ListCommand(k)  PROVE ShardInv'
  BY <1>0, <1>3, DoKeeps, ListPushes, ListEdits, ZenonT(60) DEF ListCommand
<1>4. ASSUME NEW k \in Keys, HashCommand(k)  PROVE ShardInv'
  BY <1>0, <1>4, DoKeeps, HashWriters, HashCounters, HashRemovals, ZenonT(60) DEF HashCommand
<1>5. ASSUME NEW k \in Keys, SetCommand(k)  PROVE ShardInv'
  BY <1>0, <1>5, DoKeeps, SetWriters, SetRemovals, ZenonT(60) DEF SetCommand
<1>6. ASSUME NEW k \in Keys, ZCommand(k)  PROVE ShardInv'
  BY <1>0, <1>6, DoKeeps, SortedSetWriters, SortedSetRemovals, ZenonT(60) DEF ZCommand
<1>7. CASE UNCHANGED vars
  BY <1>7 DEF vars, ShardInv
<1>. QED  BY <1>1, <1>2, <1>3, <1>4, <1>5, <1>6, <1>7, AppendedKeeps, ZenonT(60) DEF Next

(* Whatever commands run on whichever keys, in whatever order, with the    *)
(* timer taking expired entries out between them and SETs and DELs ending  *)
(* late: the counters cover the entries, and _alive links only entries     *)
(* that are there, among them all that expire.                             *)
THEOREM ShardInvariant ==
  ASSUME IsFiniteSet(Keys)
  PROVE  Spec => []ShardInv
<1>1. Init => ShardInv
  BY InitInv
<1>2. ShardInv /\ [Next]_vars => ShardInv'
  BY ShardStep
<1>. QED  BY <1>1, <1>2, PTL DEF Spec

(* The unsigned counters of entries never wrap, and an entry that expires  *)
(* is linked in _alive.                                                    *)
THEOREM ConsistentShard ==
  ASSUME IsFiniteSet(Keys)
  PROVE  Spec => []ShardConsistent
<1>1. ShardInv => ShardConsistent
  BY DEF ShardInv, Good, Linked, Covered, ShardConsistent, CountersCover, ExpiringIsLinked
<1>. QED  BY <1>1, ShardInvariant, PTL
=============================================================================
