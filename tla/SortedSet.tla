----------------------------- MODULE SortedSet -----------------------------
(***************************************************************************)
(* One sorted-set key of a shard: the two intrusive containers of sset_lsa *)
(* (structures/sset_lsa.hh) that hold the same entries, and the commands   *)
(* of db.cc that change them.                                              *)
(*                                                                         *)
(*   dict   the entries linked in _dict, an ordered tree keyed by member   *)
(*   list   the entries linked in _list, in the order of the list          *)
(*   score  the allocated entries, each with its _score field              *)
(*   found  whether the cache holds an entry for the key                   *)
(*   cmd    the command the shard is executing, with what is left of its   *)
(*          loop; a shard runs a command to its end before the next one    *)
(*                                                                         *)
(* An entry is named by its member.  Looping commands take one member per  *)
(* step, in any order: the members arrive in an std::unordered_map.        *)
(***************************************************************************)
EXTENDS Integers, Sequences, SequencesExt, FiniteSets

CONSTANTS Members,   \* the member names clients use
          Scores,    \* the scores clients use; also bounds what ZINCRBY reaches
          Ranks      \* the ranks clients use, negative ones count from the end

ASSUME SortedSetAssumption ==
    /\ IsFiniteSet(Members)
    /\ Scores \subseteq Int
    /\ Ranks \subseteq Int

VARIABLES found, dict, list, score, cmd

vars == <<found, dict, list, score, cmd>>

Adding   == {"nx", "xx", "ch"}
Removing == {"erase_keys", "erase_entries"}

(* args: the score given for each member; n: the running result; size: the *)
(* number of entries when the command began (auxiliary).                   *)
NoScores == [m \in {} |-> 0]

Idle == [op |-> "idle", todo |-> {}, args |-> NoScores, n |-> 0, size |-> 0]

Begin(op, todo, args) ==
    cmd' = [op |-> op, todo |-> todo, args |-> args, n |-> 0, size |-> Cardinality(dict)]

Init ==
    /\ found = FALSE
    /\ dict = {}
    /\ list = <<>>
    /\ score = NoScores
    /\ cmd = Idle

-----------------------------------------------------------------------------
(* The index the scan of insert_ordered stops at: the first entry with a   *)
(* greater score, or one past the end.                                     *)
FirstAbove(l, sc, s) ==
    CHOOSE i \in 1 .. Len(l) + 1 :
        /\ \A j \in 1 .. i - 1 : sc[l[j]] <= s
        /\ i <= Len(l) => sc[l[i]] > s

insert_ordered(l, sc, e) == InsertAt(l, FirstAbove(l, sc, sc[e]), e)

Unlink(l, e) == RemoveAt(l, CHOOSE i \in 1 .. Len(l) : l[i] = e)

insert(e, s) ==
    /\ score' = [m \in DOMAIN score \cup {e} |-> IF m = e THEN s ELSE score[m]]
    /\ list' = insert_ordered(list, score', e)
    /\ dict' = dict \cup {e}

update(e, s) ==
    /\ score' = [score EXCEPT ![e] = s]
    /\ list' = insert_ordered(Unlink(list, e), score', e)
    /\ UNCHANGED dict

\* Mutant: the entry is freed and leaves _dict but stays linked in _list.
erase_LeavesList(e) ==
    /\ dict' = dict \ {e}
    /\ score' = Restrict(score, DOMAIN score \ {e})
    /\ UNCHANGED list

erase(e) ==
    /\ dict' = dict \ {e}
    /\ list' = Unlink(list, e)
    /\ score' = Restrict(score, DOMAIN score \ {e})

Keep == UNCHANGED <<dict, list, score>>

(* One turn of the loop of the command, for member m, worth k of result.   *)
Turn(m, k) == cmd' = [cmd EXCEPT !.todo = @ \ {m}, !.n = @ + k]

-----------------------------------------------------------------------------
\* Mutant: the ends of the range taken as exclusive.
score_out_of_range_Exclusive(min, max) ==
    min >= score[list[Len(list)]] \/ max <= score[list[1]]

score_out_of_range(min, max) ==
    min > score[list[Len(list)]] \/ max < score[list[1]]

(* The scan stops at the first entry above max.                            *)
fetch_by_score(min, max) ==
    IF list = <<>> \/ score_out_of_range(min, max) THEN {}
    ELSE {list[i] : i \in {k \in 1 .. FirstAbove(list, score, max) - 1 : score[list[k]] >= min}}

rank_out_of_range(begin, end) == begin > Len(list) \/ end <= 0

(* begin and end count from 0; a negative one counts from the end of the   *)
(* list, and end is moved up by the size until it is not negative.         *)
fetch_by_rank(begin, end) ==
    LET size == Len(list)
        b    == IF begin < 0 THEN Max({begin + size, 0}) ELSE begin
        e    == IF end < 0 THEN end % size ELSE end
    IN  IF list = <<>> \/ b > e \/ rank_out_of_range(Min({b, size}), e) THEN {}
        ELSE {list[i + 1] : i \in {r \in 0 .. size - 1 : b <= r /\ r <= e}}

-----------------------------------------------------------------------------
(* ZADD: creates the key before it looks at the flags.                     *)
zadds(op, args) ==
    /\ cmd.op = "idle"
    /\ found' = TRUE
    /\ Begin(op, DOMAIN args, args)
    /\ Keep

insert_if_not_exists(m) ==
    /\ cmd.op = "nx"
    /\ \/ m \notin dict /\ insert(m, cmd.args[m]) /\ Turn(m, 1)
       \/ m \in dict /\ Keep /\ Turn(m, 0)
    /\ UNCHANGED found

update_if_only_exists(m) ==
    /\ cmd.op = "xx"
    /\ \/ m \in dict /\ update(m, cmd.args[m]) /\ Turn(m, 1)
       \/ m \notin dict /\ Keep /\ Turn(m, 0)
    /\ UNCHANGED found

insert_or_update(m) ==
    /\ cmd.op = "ch"
    /\ \/ m \in dict /\ update(m, cmd.args[m])
       \/ m \notin dict /\ insert(m, cmd.args[m])
    /\ Turn(m, 1)
    /\ UNCHANGED found

zincrby(m, delta) ==
    /\ cmd.op = "idle"
    /\ found' = TRUE
    /\ \/ m \in dict /\ score[m] + delta \in Scores /\ update(m, score[m] + delta)
       \/ m \notin dict /\ insert(m, delta)
    /\ UNCHANGED cmd

-----------------------------------------------------------------------------
zrem(members) ==
    /\ cmd.op = "idle"
    /\ found
    /\ Begin("erase_keys", members, NoScores)
    /\ Keep
    /\ UNCHANGED found

zremrangebyscore(min, max) ==
    /\ cmd.op = "idle"
    /\ found
    /\ Begin("erase_entries", fetch_by_score(min, max), NoScores)
    /\ Keep
    /\ UNCHANGED found

zremrangebyrank(begin, end) ==
    /\ cmd.op = "idle"
    /\ found
    /\ Begin("erase_entries", fetch_by_rank(begin, end), NoScores)
    /\ Keep
    /\ UNCHANGED found

\* Mutant: a member that is not in the set counts as removed.
erase_keys_CountsAbsent(m) ==
    /\ cmd.op = "erase_keys"
    /\ \/ m \in dict /\ erase(m)
       \/ m \notin dict /\ Keep
    /\ Turn(m, 1)
    /\ UNCHANGED found

erase_keys(m) ==
    /\ cmd.op = "erase_keys"
    /\ \/ m \in dict /\ erase(m) /\ Turn(m, 1)
       \/ m \notin dict /\ Keep /\ Turn(m, 0)
    /\ UNCHANGED found

erase_entries(m) ==
    /\ cmd.op = "erase_entries"
    /\ erase(m)
    /\ Turn(m, 1)
    /\ UNCHANGED found

(* The loop is over: a removing command drops the key of an emptied set,   *)
(* and the result goes to the client.                                      *)
Done ==
    /\ cmd.op # "idle"
    /\ cmd.todo = {}
    /\ found' = (found /\ ~(cmd.op \in Removing /\ list = <<>>))
    /\ cmd' = Idle
    /\ Keep

MemberScores == UNION {[S -> Scores] : S \in SUBSET Members \ {{}}}

Next ==
    \/ \E op \in Adding, args \in MemberScores : zadds(op, args)
    \/ \E m \in Members, d \in Scores : zincrby(m, d)
    \/ \E ms \in SUBSET Members \ {{}} : zrem(ms)
    \/ \E min, max \in Scores : zremrangebyscore(min, max)
    \/ \E b, e \in Ranks : zremrangebyrank(b, e)
    \/ \E m \in cmd.todo : \/ insert_if_not_exists(m)
                           \/ update_if_only_exists(m)
                           \/ insert_or_update(m)
                           \/ erase_keys(m)
                           \/ erase_entries(m)
    \/ Done

Spec == Init /\ [][Next]_vars

-----------------------------------------------------------------------------
TypeOK ==
    /\ found \in BOOLEAN
    /\ dict \in SUBSET Members
    /\ list \in Seq(Members)
    /\ DOMAIN score \in SUBSET Members
    /\ \A m \in DOMAIN score : score[m] \in Scores
    /\ cmd \in [op : {"idle"} \cup Adding \cup Removing, todo : SUBSET Members,
               args : MemberScores \cup {NoScores}, n : Nat, size : Nat]
    /\ cmd.op \in Adding => cmd.args \in MemberScores /\ cmd.todo \subseteq DOMAIN cmd.args

(* sset_lsa keeps every entry in two containers that are changed by        *)
(* separate calls (insert_ordered then _dict.insert, _dict.erase then      *)
(* _list.erase_and_dispose, _list.erase then insert_ordered).  After every *)
(* turn of every command each allocated entry is linked in both, exactly   *)
(* once in the list, and nothing else is: no entry is lost or freed while  *)
(* linked.                                                                 *)
DictListAgree ==
    /\ DOMAIN score = dict
    /\ ToSet(list) = dict
    /\ \A i, j \in 1 .. Len(list) : list[i] = list[j] => i = j

(* _list is in ascending order of score through any sequence of inserts,   *)
(* score changes and removals: the early exits of the range scans rely on  *)
(* it.                                                                     *)
ListSorted ==
    \A i, j \in 1 .. Len(list) : i < j => score[list[i]] <= score[list[j]]

(* erase(entries) walks over pointers collected by a range scan: every     *)
(* pointer it has still to visit is an entry that is still linked, so that *)
(* s_iterator_to is never applied to a freed entry.                        *)
FetchedStillLinked == cmd.op = "erase_entries" => cmd.todo \subseteq dict

(* The scan of fetch_by_score, with its range test on the two ends of the  *)
(* list and its early exit, finds every entry whose score is in the        *)
(* inclusive range and no other one (ZRANGEBYSCORE, ZREMRANGEBYSCORE,      *)
(* ZCOUNT).                                                                *)
FetchByScoreExact ==
    \A min, max \in Scores :
        fetch_by_score(min, max) = {m \in dict : min <= score[m] /\ score[m] <= max}

(* The integer a command replies with is what it did to the set: ZADD NX   *)
(* counts the entries it added, ZADD XX adds none, and the removing        *)
(* commands count the entries they took away.                              *)
ReplyCountsChange ==
    LET now == Cardinality(dict)
    IN  /\ cmd.op = "nx" => now = cmd.size + cmd.n
        /\ cmd.op = "xx" => now = cmd.size
        /\ cmd.op = "ch" => now <= cmd.size + cmd.n
        /\ cmd.op \in Removing => now = cmd.size - cmd.n
=============================================================================
