------------------------------- MODULE Cache -------------------------------
(***************************************************************************)
(* The cache of a shard (cache.hh): the entries, the ones with a time to   *)
(* live that are linked in _alive, and the one timer that collects them.   *)
(*                                                                         *)
(*   expiry  the entries of _store, by key, each with its _expiry._time    *)
(*   alive   the keys whose entry is linked in _alive                      *)
(*   next    the earliest timeout _alive has promised to report            *)
(*   timer   when _timer fires, Forever when it is not armed               *)
(*   now     the clock                                                     *)
(*   asked   the keys the command of the last step named (auxiliary)       *)
(*   status  "up", "stopped", or the handler an assertion of the intrusive *)
(*           hooks stopped: freeing an entry whose hook is linked, linking *)
(*           a hook twice, unlinking one that is not linked                *)
(*                                                                         *)
(* A shard runs each of these operations without yielding.  _alive is a    *)
(* seastar::timer_set, which is not part of the repository; it is modelled *)
(* from how cache.hh uses it.                                              *)
(***************************************************************************)
EXTENDS Integers, FiniteSets, FiniteSetsExt

CONSTANTS Keys,     \* the keys clients use
          Ttls,     \* the times to live clients use; 0 and negative ones too
          MaxTime,  \* bound: no timeout and no clock beyond it
          Never,    \* never_expire_timepoint, before any other time
          Forever   \* a time that does not come

ASSUME CacheAssumption ==
    /\ IsFiniteSet(Keys)
    /\ Ttls \subseteq Int
    /\ MaxTime \in Nat
    /\ Never \in Int /\ Never < 0 /\ \A t \in Ttls : Never < t
    /\ Forever \in Int /\ Forever > MaxTime

VARIABLES expiry, alive, next, timer, now, asked, status

vars == <<expiry, alive, next, timer, now, asked, status>>

store == DOMAIN expiry

ever_expires(k) == expiry[k] # Never

expiration(s) == IF s = 0 THEN Never ELSE now + s

Init ==
    /\ expiry = [k \in {} |-> Never]
    /\ alive = {}
    /\ next = Forever
    /\ timer = Forever
    /\ now = 0
    /\ asked = {}
    /\ status = "up"

-----------------------------------------------------------------------------
(* Entry k linked in _alive at time t: the timer moves when t comes before *)
(* every timeout _alive knows of.                                          *)
alive_insert(t) ==
    IF t < next THEN next' = t /\ timer' = t ELSE UNCHANGED <<next, timer>>

(* The store with entry k put into it, replacing one of that key.          *)
Stored(k, t) == [x \in store \cup {k} |-> IF x = k THEN t ELSE expiry[x]]

Without(K) == [x \in store \ K |-> expiry[x]]

(* Removing k's entry takes it out of _alive only if it ever expires; when *)
(* its hook stays linked, freeing the entry trips the assertion.           *)
DisposeTrips(k) == k \in store /\ (k \in alive) # ever_expires(k)

Trip(handler) == status' = handler /\ UNCHANGED <<expiry, alive, next, timer, now, asked>>

-----------------------------------------------------------------------------
(* SET, MSET.  nx and xx are the flags of the command.                     *)
insert_if(k, s, nx, xx) ==
    LET found   == k \in store
        erases  == found /\ (xx \/ ~nx)
        inserts == (xx /\ found) \/ (nx /\ ~found) \/ (~nx /\ ~xx)
    IN  /\ status = "up"
        /\ inserts
        /\ IF erases /\ DisposeTrips(k) THEN Trip("set")
           ELSE IF s > 0
           THEN /\ asked' = {k}
                /\ now + s <= MaxTime
                /\ expiry' = Stored(k, expiration(s))
                /\ alive' = alive \cup {k}
                /\ alive_insert(expiration(s))
                /\ UNCHANGED <<now, status>>
           ELSE /\ asked' = {k}
                /\ expiry' = Stored(k, Never)
                /\ alive' = alive \ {k}
                /\ UNCHANGED <<next, timer, now, status>>

(* The handlers that create a key they did not find: a counter, a list, a  *)
(* hash, a set, a sorted set, a bitmap, a HyperLogLog.                     *)
insert(k) ==
    /\ status = "up"
    /\ k \notin store
    /\ asked' = {k}
    /\ expiry' = Stored(k, Never)
    /\ UNCHANGED <<alive, next, timer, now, status>>

(* erase(const redis_key&): the handlers that drop an emptied container.   *)
erase_key(k) ==
    /\ status = "up"
    /\ k \in store
    /\ IF DisposeTrips(k) THEN Trip("erase")
       ELSE /\ asked' = {k}
            /\ expiry' = Without({k})
            /\ alive' = alive \ {k}
            /\ UNCHANGED <<next, timer, now, status>>

(* DEL, through erase(cache_entry&), which does not look at _alive.        *)
del(k) ==
    /\ status = "up"
    /\ k \in store
    /\ IF k \in alive THEN Trip("del")
       ELSE /\ asked' = {k}
            /\ expiry' = Without({k})
            /\ UNCHANGED <<alive, next, timer, now, status>>

\* Mutant: the timer is not moved forward for the new timeout.
expire_NoRearm(k, s) ==
    /\ status = "up"
    /\ k \in store
    /\ now + s <= MaxTime
    /\ IF k \in alive THEN Trip("expire")
       ELSE /\ asked' = {k}
            /\ expiry' = Stored(k, expiration(s))
            /\ alive' = alive \cup {k}
            /\ next' = Min({next, expiration(s)})
            /\ UNCHANGED <<timer, now, status>>

(* EXPIRE, PEXPIRE.                                                        *)
expire(k, s) ==
    /\ status = "up"
    /\ k \in store
    /\ now + s <= MaxTime
    /\ IF k \in alive THEN Trip("expire")
       ELSE /\ asked' = {k}
            /\ expiry' = Stored(k, expiration(s))
            /\ alive' = alive \cup {k}
            /\ alive_insert(expiration(s))
            /\ UNCHANGED <<now, status>>

(* PERSIST.                                                                *)
never_expired(k) ==
    /\ status = "up"
    /\ k \in store
    /\ ever_expires(k)
    /\ IF k \notin alive THEN Trip("persist")
       ELSE /\ asked' = {k}
            /\ expiry' = Stored(k, Never)
            /\ alive' = alive \ {k}
            /\ UNCHANGED <<next, timer, now, status>>

Due == {k \in alive : expiry[k] <= now}

Timeouts(K) == {expiry[k] : k \in K} \cup {Forever}

\* Mutant: the timer is not armed again after a collection.
erase_expired_entries_NoArm ==
    /\ status = "up"
    /\ timer <= now
    /\ asked' = {}
    /\ expiry' = Without(Due)
    /\ alive' = alive \ Due
    /\ next' = Min(Timeouts(alive \ Due))
    /\ timer' = Forever
    /\ UNCHANGED <<now, status>>

\* Mutant: everything in _alive is collected when the timer fires.
erase_expired_entries_All ==
    /\ status = "up"
    /\ timer <= now
    /\ asked' = {}
    /\ expiry' = Without(alive)
    /\ alive' = {}
    /\ next' = Forever
    /\ timer' = next'
    /\ UNCHANGED <<now, status>>

(* The callback of _timer, with the releaser of database, which erases the *)
(* entry without looking at _alive: expire() has unlinked it already.      *)
erase_expired_entries ==
    /\ status = "up"
    /\ timer <= now
    /\ asked' = {}
    /\ expiry' = Without(Due)
    /\ alive' = alive \ Due
    /\ next' = Min(Timeouts(alive \ Due))
    /\ timer' = next'
    /\ UNCHANGED <<now, status>>

(* ~database.                                                              *)
flush_all ==
    /\ status = "up"
    /\ IF \E k \in store : DisposeTrips(k) THEN Trip("flush_all")
       ELSE /\ asked' = Keys
            /\ expiry' = Without(store)
            /\ alive' = {}
            /\ status' = "stopped"
            /\ UNCHANGED <<next, timer, now>>

Tick ==
    /\ status = "up"
    /\ now < MaxTime
    /\ now' = now + 1
    /\ asked' = {}
    /\ UNCHANGED <<expiry, alive, next, timer, status>>

Next ==
    \/ \E k \in Keys, s \in Ttls, nx, xx \in BOOLEAN : insert_if(k, s, nx, xx)
    \/ \E k \in Keys : \/ insert(k)
                       \/ erase_key(k)
                       \/ del(k)
                       \/ never_expired(k)
    \/ \E k \in Keys, s \in Ttls : expire(k, s)
    \/ erase_expired_entries
    \/ flush_all
    \/ Tick

(* The reactor polls its timers and the clock goes on.                     *)
Fairness == WF_vars(erase_expired_entries) /\ WF_vars(Tick)

Spec == Init /\ [][Next]_vars /\ Fairness

-----------------------------------------------------------------------------
TypeOK ==
    /\ store \in SUBSET Keys
    /\ \A k \in store : expiry[k] \in Never .. MaxTime
    /\ alive \in SUBSET Keys
    /\ next \in Never .. Forever
    /\ timer \in Never .. Forever
    /\ now \in 0 .. MaxTime
    /\ asked \in SUBSET Keys
    /\ status \in {"up", "stopped", "set", "erase", "del", "expire", "persist", "flush_all"}

(* _alive never holds a freed entry, and an entry that ever_expires() is   *)
(* linked in it: erase, replace and insert_if decide by ever_expires()     *)
(* alone whether to call _alive.remove, which must not be given an entry   *)
(* that is not linked.                                                     *)
ExpiringIsAlive ==
    /\ alive \subseteq store
    /\ \A k \in store : ever_expires(k) => k \in alive

(* Whatever was linked, unlinked, replaced or persisted since the timer    *)
(* was last armed, it fires no later than the first timeout in _alive.     *)
TimerCovers == \A k \in alive : timer <= expiry[k]

(* A time to live is never forgotten: an entry linked in _alive with some  *)
(* timeout does not keep it for ever (it is collected, replaced, persisted *)
(* or deleted), unless the process stops.                                  *)
EventuallyCollected ==
    \A k \in Keys, t \in Never .. MaxTime :
        (k \in alive /\ expiry[k] = t)
            ~> (~(k \in alive /\ expiry[k] = t) \/ status # "up")

(* The cache is an expiring map: the timer takes away all the entries that *)
(* are due and none that is not, and no operation on one key touches the   *)
(* presence or the deadline of another one.                                *)
Map == INSTANCE ExpiringMap WITH
           Deadlines <- Never .. Forever,
           deadline  <- [k \in store |-> IF k \in alive THEN expiry[k] ELSE Forever]

IsExpiringMap == Map!Spec

(* DEL, EXPIRE and PEXPIRE are supported commands: none of them stops the  *)
(* server, whatever the key went through before.                           *)
KeyCommandsKeepServing == status \notin {"del", "expire"}
=============================================================================
