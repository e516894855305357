----------------------------- MODULE MCDatabase -----------------------------
(***************************************************************************)
(* A shard: the times to live of its cache with the timer and the clock,    *)
(* and the commands on one key, for which time is abstract.  A behaviour is *)
(* one of one of them, `lib`.                                               *)
(***************************************************************************)
EXTENDS Cache, TLC

CONSTANTS Undefined

VARIABLES lib, shard, pending

(* Of the cache: two keys, so that one timer serves both; a negative, a zero *)
(* and two positive times to live.                                           *)
MCTtls == {-1, 0, 1, 2}
MCNever == -2

D == INSTANCE Database WITH Keys <- {"k1"}, Members <- {"a", "b"}, Strings <- {<<3>>}, Numbers <- {-1, 0, 1},
                            Offsets <- {7, 8, 16}, MaxSize <- 2, MaxNumber <- 1, MaxCounters <- 1, MaxDrift <- 1,
                            MaxPending <- 1

MCInit ==
    /\ lib \in {"cache", "commands"}
    /\ Init
    /\ D!Init /\ shard.type["k1"] = "none"

MCNext ==
    \/ lib = "cache" /\ Next /\ UNCHANGED <<lib, shard, pending>>
    \/ lib = "commands" /\ D!Next /\ UNCHANGED <<lib, vars>>

MCSpec ==
    /\ MCInit /\ [][MCNext]_<<lib, vars, shard, pending>>
    /\ WF_vars(lib = "cache" /\ erase_expired_entries) /\ WF_vars(lib = "cache" /\ Tick)

-----------------------------------------------------------------------------
\* Entry counters never wrap, and what expires is linked: ShardConsistent of
\* Database.
ShardConsistent == D!ShardConsistent

\* Replies count what a command changed, also when it leaves nothing: a list or
\* hash that has been emptied is gone. ReplyCountsChange and NoEmptyContainer of
\* Database.
RepliesHonest == D!ReplyCountsChange /\ D!NoEmptyContainer
=============================================================================
