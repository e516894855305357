---------------------------- MODULE ExpiringMap ----------------------------
(***************************************************************************)
(* What the cache of a shard promises about time: a map from keys to       *)
(* deadlines.  A command changes the key it names and no other one, and a  *)
(* key that no command names disappears exactly when the timer finds its   *)
(* deadline passed.                                                        *)
(***************************************************************************)
EXTENDS Integers

CONSTANTS Keys,      \* the keys clients use
          Deadlines  \* the deadlines a key can have; one that never comes
                     \* stands for a key without a time to live

VARIABLES deadline,  \* the keys present, each with its deadline
          now,       \* the clock
          asked      \* the keys named by the command of the last step

mapVars == <<deadline, now, asked>>

Init == deadline = [k \in {} |-> 0] /\ now = 0 /\ asked = {}

Put(k, d) ==
    /\ asked' = {k}
    /\ deadline' = [x \in DOMAIN deadline \cup {k} |-> IF x = k THEN d ELSE deadline[x]]
    /\ UNCHANGED now

Remove(k) ==
    /\ asked' = {k}
    /\ deadline' = [x \in DOMAIN deadline \ {k} |-> deadline[x]]
    /\ UNCHANGED now

Clear ==
    /\ asked' = Keys
    /\ deadline' = [x \in {} |-> 0]
    /\ UNCHANGED now

Expire ==
    /\ asked' = {}
    /\ deadline' = [x \in {k \in DOMAIN deadline : deadline[k] > now} |-> deadline[x]]
    /\ UNCHANGED now

Tick ==
    /\ asked' = {}
    /\ now' = now + 1
    /\ UNCHANGED deadline

Next ==
    \/ \E k \in Keys : Remove(k) \/ \E d \in Deadlines : Put(k, d)
    \/ Clear
    \/ Expire
    \/ Tick

Spec == Init /\ [][Next]_mapVars
=============================================================================
