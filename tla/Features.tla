------------------------------ MODULE Features ------------------------------
(***************************************************************************)
(* Gossip features (gms/feature.hh and the end of gms/gossiper.cc): objects *)
(* that become enabled once every node of the map announces their name.     *)
(* Shard 0 owns the map; a round copies it to the other shards, which look  *)
(* through their own registered features.                                   *)
(***************************************************************************)
EXTENDS Integers, Sequences, SequencesExt, Functions

CONSTANTS
    Shards,    \* with 0
    Peers,     \* the other nodes
    Names,     \* feature names
    Local,     \* SUPPORTED_FEATURES of this node
    Announced, \* what a peer may announce
    Objects    \* feature objects

VARIABLES
    known,      \* shard |-> endpoint_state_map: SUPPORTED_FEATURES of the endpoints known there
    shadow,     \* shadow_endpoint_state_map
    copying,    \* the shards a round has still to copy the map to
    object,     \* feature objects
    registered  \* shard |-> name |-> _registered_features

featureVars == <<known, shadow, copying, object, registered>>

Self == "self"
Unnamed == "unnamed"
Absent == [shard |-> 0, name |-> Unnamed, enabled |-> FALSE, live |-> FALSE]

(* What all the endpoints of the map support; nothing if one of them announces nothing *)
get_supported_features(map) ==
    IF \E e \in DOMAIN map : map[e] = {} THEN {}
    ELSE {f \in Names : \A e \in DOMAIN map : f \in map[e]}

(* The features of a shard, as one state: its objects and the registry *)
State(s) == [object |-> object, registered |-> registered[s]]

register_feature(st, s, o) ==
    LET f == st.object[o]
    IN IF f.name \in get_supported_features(known[s])
       THEN [st EXCEPT !.object[o].enabled = TRUE]
       ELSE [st EXCEPT !.registered[f.name] = Append(@, o)]

unregister_feature(st, o) ==
    LET fs == st.registered[st.object[o].name]
    IN IF Contains(fs, o)
       THEN [st EXCEPT !.registered[st.object[o].name] = RemoveFirst(fs, o)] ELSE st

maybe_enable_features(st, map) ==
    LET on == get_supported_features(map)
        hit(o) == \E n \in on : Contains(st.registered[n], o)
    IN [object |-> [o \in Objects |-> [st.object[o] EXCEPT !.enabled = @ \/ hit(o)]],
        registered |-> [n \in DOMAIN st.registered |-> IF n \in on THEN <<>> ELSE st.registered[n]]]

Become(s, st) == object' = st.object /\ registered' = [registered EXCEPT ![s] = st.registered]

construct(st, s, o, name, enabled) ==
    LET made == [st EXCEPT !.object[o] = [shard |-> s, name |-> name, enabled |-> enabled, live |-> TRUE]]
    IN IF enabled THEN made ELSE register_feature(made, s, o)

destroy(st, o) ==
    LET left == IF st.object[o].enabled THEN st ELSE unregister_feature(st, o)
    IN [left EXCEPT !.object[o] = Absent]

FeaturesInit ==
    /\ known = [s \in Shards |-> Self :> Local] /\ shadow = Self :> Local /\ copying = {}
    /\ object = [o \in Objects |-> Absent]
    /\ registered = [s \in Shards |-> [n \in Names \cup {Unnamed} |-> <<>>]]

(* The constructors: unnamed ones are not registered, and copies register themselves *)
feature(o, s, name) ==
    /\ ~object[o].live
    /\ IF name = Unnamed
       THEN object' = [object EXCEPT ![o] = [Absent EXCEPT !.shard = s, !.live = TRUE]] /\ UNCHANGED registered
       ELSE Become(s, construct(State(s), s, o, name, FALSE))
    /\ UNCHANGED <<known, shadow, copying>>

not_feature(o) ==
    /\ object[o].live
    /\ Become(object[o].shard, destroy(State(object[o].shard), o))
    /\ UNCHANGED <<known, shadow, copying>>

(* operator=(feature other): the parameter is a copy, that registers itself and is destroyed at the end *)
assign(o, p, tmp) ==
    LET s == object[o].shard
        other == construct(State(s), s, tmp, object[p].name, object[p].enabled)
        gone == IF other.object[o].enabled THEN other ELSE unregister_feature(other, o)
        named == [gone EXCEPT !.object[o].name = gone.object[tmp].name, !.object[o].enabled = gone.object[tmp].enabled]
        there == IF named.object[o].enabled THEN named ELSE register_feature(named, s, o)
    IN /\ object[o].live /\ object[p].live /\ o # p /\ object[p].shard = s
       /\ ~object[tmp].live
       /\ Become(s, destroy(there, tmp))
       /\ UNCHANGED <<known, shadow, copying>>

(* The handlers of messages change the map of shard 0: a peer comes, announces, or is evicted *)
Announce(e, fs) ==
    /\ known' = [known EXCEPT ![0] = (e :> fs) @@ @]
    /\ UNCHANGED <<shadow, copying, object, registered>>
Evict(e) ==
    /\ known' = [known EXCEPT ![0] = Restrict(@, DOMAIN @ \ {e})]
    /\ UNCHANGED <<shadow, copying, object, registered>>

(* The end of a round: its heart beat has changed the map; the next one waits for the copies *)
run ==
    /\ copying = {}
    /\ shadow' = known[0] /\ copying' = Shards \ {0}
    /\ Become(0, maybe_enable_features(State(0), known[0]))
    /\ UNCHANGED known

copy(s) ==
    /\ s \in copying /\ copying' = copying \ {s}
    /\ known' = [known EXCEPT ![s] = shadow]
    /\ Become(s, maybe_enable_features(State(s), shadow))
    /\ UNCHANGED shadow

FeaturesNext ==
    \/ \E o \in Objects, s \in Shards, n \in Names \cup {Unnamed} : feature(o, s, n)
    \/ \E o \in Objects : not_feature(o)
    \/ \E o, p, tmp \in Objects : assign(o, p, tmp)
    \/ \E e \in Peers, fs \in Announced : Announce(e, fs)
    \/ \E e \in Peers : Evict(e)
    \/ run \/ \E s \in Shards : copy(s)

(* The gossip timer is armed again by every round, and the other shards answer *)
FeaturesFairness == WF_featureVars(run) /\ \A s \in Shards : WF_featureVars(copy(s))

(* The registry of a shard holds its named features that are not enabled, each once and  *)
(* under its name, and besides them at most unnamed ones that were assigned to:          *)
(* maybe_enable_features follows no pointer to a feature that was destroyed or renamed   *)
(* (feature::operator=, ~feature).                                                       *)
RegistryExact ==
    \A s \in Shards, n \in Names \cup {Unnamed} :
        LET fs == registered[s][n]
        IN /\ IsInjective(fs)
           /\ LET waiting == {o \in Objects : /\ object[o].live /\ ~object[o].enabled
                                              /\ object[o].shard = s /\ object[o].name = n}
              IN Range(fs) \subseteq waiting /\ (n # Unnamed => Range(fs) = waiting)

(* A feature that every known node supports from some time on does not stay disabled, on *)
(* whatever shard and whenever it was made (gossiper::run, register_feature).            *)
SupportedIsEnabled ==
    \A o \in Objects, n \in Names :
        ~<>[](object[o].live /\ object[o].name = n /\ ~object[o].enabled /\ n \in get_supported_features(known[0]))
=============================================================================
