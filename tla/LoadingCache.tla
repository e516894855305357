----------------------------- MODULE LoadingCache -----------------------------
(***************************************************************************)
(* utils/loading_cache.hh: values that are loaded on the first get() and    *)
(* reloaded in the background by a timer, with an expiry and a maximal      *)
(* size.                                                                    *)
(*                                                                         *)
(* Continuations of one shard interleave at every future: a get() that      *)
(* waits for the mutex of its key or for its load, and the timer's reloads, *)
(* which hold references to entries.  Entries are numbered, so that an      *)
(* entry that was erased and made again is not the same.  A value is the    *)
(* time its load ended.  Buckets and their rehashing are left out.          *)
(***************************************************************************)
EXTENDS Integers, Sequences, FiniteSets, Functions

CONSTANTS Keys, Getters,
          Expiry, Refresh,   \* _expiry and _refresh, not zero: caching is on
          MaxSize,           \* _max_size
          MaxTime,           \* the clock stops here
          MaxGets            \* calls of get() in all

ASSUME LoadingCacheAssumption ==
    /\ IsFiniteSet(Keys) /\ Keys # {}
    /\ Expiry \in Nat /\ Refresh \in Nat /\ MaxSize \in Nat

VARIABLES now,
          set,               \* _set: key |-> [id, value (<<>> or <<v>>), loaded, lastRead]
          lru,               \* _lru_list: keys, the most recently used first
          mutexMap,          \* _write_mutex_map: key |-> mutex
          queues,            \* mutex |-> the getters inside, the holder first
          getter,            \* getter |-> [phase, key, mutex]
          reloads,           \* [key, id] of the entries the timer is reloading
          timer,             \* when _timer fires, <<>> when it is not armed
          start,             \* when on_timer was called last
          stopped,           \* stop() was called: the gate is closed
          gets, made,        \* get() calls and entries so far
          status             \* "up", or why the cache cannot go on

lcVars == <<now, set, lru, mutexMap, queues, getter, reloads, timer, start, stopped, gets, made, status>>

Idle == [phase |-> "idle", key |-> CHOOSE k \in Keys : TRUE, mutex |-> 0]

\* A sequence without its entry i.
RemoveAt(s, i) == SubSeq(s, 1, i - 1) \o SubSeq(s, i + 1, Len(s))

\* The list without k, if it is linked, and with k at the front.
Unlink(list, k) ==
    IF k \in Range(list) THEN RemoveAt(list, CHOOSE i \in DOMAIN list : list[i] = k) ELSE list
Touch(list, k) == <<k>> \o Unlink(list, k)
Without(f, S) == [k \in DOMAIN f \ S |-> f[k]]
With(f, k, v) == [j \in DOMAIN f \cup {k} |-> IF j = k THEN v ELSE f[j]]

LoadingCacheInit ==
    /\ now = 0 /\ set = <<>> /\ lru = <<>> /\ mutexMap = <<>> /\ queues = <<>>
    /\ getter = [g \in Getters |-> Idle]
    /\ reloads = {} /\ timer = <<Refresh>> /\ start = 0
    /\ stopped = FALSE /\ gets = 0 /\ made = 0 /\ status = "up"

\* The set with an entry for k, which is new and empty if there was none.
find_or_create(k) ==
    IF k \in DOMAIN set THEN set
    ELSE With(set, k, [id |-> made + 1, value |-> <<>>, loaded |-> now, lastRead |-> now])

Created(k) == made' = IF k \in DOMAIN set THEN made ELSE made + 1

\* timestamped_val::value()
Read(s, k) == [s EXCEPT ![k].lastRead = now]

Served(g, s, k) ==
    /\ set' = Read(s, k) /\ lru' = Touch(lru, k)
    /\ getter' = [getter EXCEPT ![g] = Idle]

\* A value is returned at once; otherwise the getter queues for the key's mutex,
\* and if it is the first it goes on to load.
get(g, k) ==
    LET s == find_or_create(k) IN
    /\ getter[g].phase = "idle" /\ gets < MaxGets
    /\ gets' = gets + 1 /\ Created(k)
    /\ IF s[k].value # <<>>
       THEN Served(g, s, k) /\ UNCHANGED <<mutexMap, queues>>
       ELSE LET m == IF k \in DOMAIN mutexMap THEN mutexMap[k] ELSE Cardinality(DOMAIN queues) + 1
                q == IF m \in DOMAIN queues THEN queues[m] ELSE <<>>
            IN  /\ mutexMap' = With(mutexMap, k, m)
                /\ queues' = With(queues, m, Append(q, g))
                /\ getter' = [getter EXCEPT ![g] =
                                 [phase |-> IF q = <<>> THEN "loading" ELSE "queued", key |-> k, mutex |-> m]]
                /\ set' = s /\ UNCHANGED lru
    /\ UNCHANGED <<now, reloads, timer, start, stopped, status>>

\* Leaving the mutex: the next getter in it can enter.
Leave(g) == queues' = [queues EXCEPT ![getter[g].mutex] = Tail(@)]

\* slow_load inside the critical section, for a getter that had to queue.
slow_load(g) ==
    LET k == getter[g].key
        s == find_or_create(k)
    IN
    /\ getter[g].phase = "queued" /\ Head(queues[getter[g].mutex]) = g
    /\ Created(k)
    /\ IF s[k].value # <<>>
       THEN Served(g, s, k) /\ Leave(g)
       ELSE getter' = [getter EXCEPT ![g].phase = "loading"] /\ set' = s /\ UNCHANGED <<lru, queues>>
    /\ UNCHANGED <<now, mutexMap, reloads, timer, start, stopped, gets, status>>

\* The load of a getter ends. The entry is looked up again; a load that fails
\* leaves an entry without a value behind, in the set and not in the list.
\* Mutant: the mutex is left only by a load that succeeds.
LoadDone_Held(g, ok) ==
    LET k == getter[g].key IN
    /\ getter[g].phase = "loading"
    /\ IF ok
       THEN /\ Created(k) /\ Served(g, [find_or_create(k) EXCEPT ![k].value = <<now>>, ![k].loaded = now], k)
            /\ Leave(g)
       ELSE getter' = [getter EXCEPT ![g] = Idle] /\ UNCHANGED <<set, lru, made, queues>>
    /\ UNCHANGED <<now, mutexMap, reloads, timer, start, stopped, gets, status>>

LoadDone(g, ok) ==
    LET k == getter[g].key IN
    /\ getter[g].phase = "loading" /\ Leave(g)
    /\ IF ok
       THEN Created(k) /\ Served(g, [find_or_create(k) EXCEPT ![k].value = <<now>>, ![k].loaded = now], k)
       ELSE getter' = [getter EXCEPT ![g] = Idle] /\ UNCHANGED <<set, lru, made>>
    /\ UNCHANGED <<now, mutexMap, reloads, timer, start, stopped, gets, status>>

\* Entries of the list that were not read, or not loaded, for too long.
\* Mutant: only those that were not read.
drop_expired_Read(s) == {k \in Range(lru) : Expiry < now - s[k].lastRead}

drop_expired(s) == {k \in Range(lru) : Expiry < now - s[k].lastRead \/ Expiry < now - s[k].loaded}

\* remove_and_dispose_if: what is left of the first i entries of the list.
Kept(list, S) ==
    LET kept[i \in 0 .. Len(list)] ==
            IF i = 0 THEN <<>>
            ELSE IF list[i] \in S THEN kept[i - 1] ELSE Append(kept[i - 1], list[i])
    IN  kept

\* How many entries shrink() takes off the end of the list.
shrink(s) == IF Cardinality(DOMAIN s) > MaxSize THEN Cardinality(DOMAIN s) - MaxSize ELSE 0

Rearm(r) == IF r = {} THEN timer' = <<start' + Refresh>> ELSE timer' = <<>>

\* Forgets the mutexes, drops what has expired and, from the end of the list,
\* what is too much -- which presumes that the list is long enough -- and starts
\* the reloads, unless the gate is closed. It is armed again when they are done.
on_timer ==
    LET gone == drop_expired(set)
        left == Kept(lru, gone)[Len(lru)]
        n == shrink(Without(set, gone))
        out == gone \cup {left[i] : i \in {j \in DOMAIN left : j > Len(left) - n}}
        due == {k \in DOMAIN set \ out : set[k].value # <<>> /\ set[k].loaded + Refresh < now}
    IN
    /\ status = "up" /\ timer # <<>> /\ timer[1] <= now
    /\ mutexMap' = <<>> /\ start' = now
    /\ IF n > Len(left) THEN status' = "shrink" /\ UNCHANGED <<set, lru, reloads, timer>>
       ELSE /\ set' = Without(set, out) /\ lru' = SubSeq(left, 1, Len(left) - n)
            /\ IF stopped THEN timer' = <<>> /\ UNCHANGED reloads
               ELSE reloads' = {[key |-> k, id |-> set[k].id] : k \in due} /\ Rearm(reloads')
            /\ UNCHANGED status
    /\ UNCHANGED <<now, queues, getter, stopped, gets, made>>

\* A reload ends: the entry it refers to gets the value, or keeps its own.
reload(r, ok) ==
    /\ r \in reloads
    /\ reloads' = reloads \ {r} /\ start' = start /\ Rearm(reloads')
    /\ set' = IF ok /\ r.key \in DOMAIN set
              THEN [set EXCEPT ![r.key].value = <<now>>, ![r.key].loaded = now] ELSE set
    /\ UNCHANGED <<now, lru, mutexMap, queues, getter, stopped, gets, made, status>>

stop ==
    /\ ~stopped /\ stopped' = TRUE
    /\ UNCHANGED <<now, set, lru, mutexMap, queues, getter, reloads, timer, start, gets, made, status>>

\* The gate is closed and empty.
Stopped ==
    /\ stopped /\ reloads = {} /\ timer # <<>> /\ timer' = <<>>
    /\ UNCHANGED <<now, set, lru, mutexMap, queues, getter, reloads, start, stopped, gets, made, status>>

\* The reactor fires a timer that is due before time goes on.
Tick ==
    /\ now < MaxTime /\ (timer # <<>> => now < timer[1])
    /\ now' = now + 1
    /\ UNCHANGED <<set, lru, mutexMap, queues, getter, reloads, timer, start, stopped, gets, made, status>>

LoadingCacheNext ==
    \/ \E g \in Getters, k \in Keys : get(g, k)
    \/ \E g \in Getters : slow_load(g)
    \/ \E g \in Getters, ok \in BOOLEAN : LoadDone(g, ok)
    \/ \E r \in reloads, ok \in BOOLEAN : reload(r, ok)
    \/ on_timer \/ stop \/ Stopped \/ Tick

LoadingCacheSpec == LoadingCacheInit /\ [][LoadingCacheNext]_lcVars

\* Loads end, well or not, and the reactor runs what is ready.
LoadingCacheFairness ==
    \A g \in Getters : WF_lcVars(slow_load(g)) /\ WF_lcVars(\E ok \in BOOLEAN : LoadDone(g, ok))

--------------------------------------------------------------------------------
(* Properties. *)

\* The references the timer's reloads hold are to entries that are still there
\* (only the timer erases entries, and it is not armed while it reloads), and
\* the list that drop_expired and shrink work on holds each entry that has a
\* value once, and nothing else.
ReferencesValid ==
    /\ \A r \in reloads : r.key \in DOMAIN set /\ set[r.key].id = r.id
    /\ Range(lru) = {k \in DOMAIN set : set[k].value # <<>>}
    /\ Cardinality(Range(lru)) = Len(lru)

\* No value is older than the expiry and one period of the timer, except while
\* a background load keeps the timer from being armed, or when it has just
\* become due, or after stop(); and what is loaded and dropped then is what it
\* was meant to be (ReferencesValid).
FreshUnlessReloading ==
    /\ ReferencesValid
    /\ (status = "up" /\ reloads = {} /\ ~stopped /\ timer # <<>> /\ now < timer[1])
          => \A k \in Range(lru) : now - set[k].loaded <= Expiry + Refresh

\* Every get() is answered, by a value or a failure, although loads fail, mutexes
\* are forgotten and entries erased while it waits.
GetAnswered == \A g \in Getters : getter[g].phase # "idle" ~> getter[g].phase = "idle"
================================================================================
