------------------------------- MODULE Gossip -------------------------------
(***************************************************************************)
(* The gossiper (gms/gossiper.cc): every node keeps a map from endpoints    *)
(* to what it knows about them and brings it up to date by exchanges of     *)
(* SYN, ACK and ACK2.  All handlers run on shard 0 of their node.           *)
(*                                                                         *)
(* A handler runs to its end unless it waits; the one wait in them is the   *)
(* echo in mark_alive.  A fiber is what is left of apply_state_locally and  *)
(* of the continuation behind it; other handlers run while it waits.        *)
(* Messages may be lost, delayed and reordered, nodes may crash.  Clocks    *)
(* are left out: an endpoint may be found silent, or out of quarantine, at  *)
(* any status check.  The body of start_gossiping is commented out in the   *)
(* source, so nothing enables a gossiper; the model enables it at start-up. *)
(***************************************************************************)
EXTENDS Integers, FiniteSets, FiniteSetsExt, Sequences, Functions

CONSTANTS
    Nodes,         \* addresses
    Seeds,         \* get_seeds()
    RingMembers,   \* the endpoints of the ring: not fat clients
    MaxVersion,    \* node |-> bound of its version_generator::version
    MaxGeneration, \* node |-> bound of the generations it starts with
    Publishers,    \* nodes that publish application states
    MaxMessages,   \* bound of the messages in flight
    MaxLost,       \* bound of the messages lost
    Statuses,      \* values of STATUS a node may publish
    MAX_GENERATION_DIFFERENCE

ASSUME GossipAssumption ==
    /\ Seeds \subseteq Nodes /\ RingMembers \subseteq Nodes
    /\ MaxGeneration \in [Nodes -> Nat] /\ MaxVersion \in [Nodes -> Nat] /\ Publishers \subseteq Nodes
    /\ {MaxMessages, MaxLost, MAX_GENERATION_DIFFERENCE} \subseteq Nat

(* std::numeric_limits<int32_t>::max(), behind every version given out *)
HighestVersion == 1 + Max({MaxVersion[n] : n \in Nodes})

None == "none"
STATUS == "STATUS"
LOAD == "LOAD"
AppKeys == {STATUS, LOAD}
DEAD_STATES == {"LEFT", "hibernate"}

VARIABLES
    gossiper,      \* node |-> its gossiper, as far as the process is up
    generation,    \* node |-> the generation of its current or last start
    version,       \* node |-> version_generator::version
    net,           \* messages in flight
    fibers,        \* applications of received states that have not ended
    lost           \* how many messages have been lost

vars == <<gossiper, generation, version, net, fibers, lost>>

(***************************************************************************)
(* Endpoint states and the digests and deltas computed from them.           *)
(***************************************************************************)
NoApp == [k \in AppKeys |-> [ver |-> 0, val |-> ""]]
(* since and whole are history: the digest a delta answers, and whether every delta *)
(* that went into a view was applied to what its digest was about                  *)
EndpointState(gen, ver, app, since) ==
    [gen |-> gen, ver |-> ver, app |-> app, alive |-> TRUE, since |-> since, whole |-> TRUE]

With(eps, e, st) == [x \in DOMAIN eps \cup {e} |-> IF x = e THEN st ELSE eps[x]]

get_max_endpoint_state_version(st) == Max({st.ver} \cup {st.app[k].ver : k \in AppKeys})

get_gossip_status(st) == st.app[STATUS].val

is_dead_state(st) == get_gossip_status(st) \in DEAD_STATES

is_shutdown(g, e) == e \in DOMAIN g.eps /\ get_gossip_status(g.eps[e]) = "shutdown"

make_random_gossip_digest(g) ==
    [e \in DOMAIN g.eps |-> [gen |-> g.eps[e].gen, ver |-> get_max_endpoint_state_version(g.eps[e])]]

(* The heart beat and the application states behind a version, if there are any; *)
(* a received endpoint_state is alive, that field is not serialized              *)
has_state_bigger_than(g, e, v) == e \in DOMAIN g.eps /\ get_max_endpoint_state_version(g.eps[e]) > v
get_state_for_version_bigger_than_OffByOne(g, e, v) ==
    LET st == g.eps[e]
        newer == [k \in AppKeys |-> IF st.app[k].ver > v + 1 THEN st.app[k] ELSE NoApp[k]]
    IN [EndpointState(st.gen, st.ver, newer, v) EXCEPT !.whole = st.whole]

get_state_for_version_bigger_than(g, e, v) ==
    LET st == g.eps[e]
        newer == [k \in AppKeys |-> IF st.app[k].ver > v THEN st.app[k] ELSE NoApp[k]]
    IN [EndpointState(st.gen, st.ver, newer, v) EXCEPT !.whole = st.whole]

(* What to ask for, and what to send, given the digests of a SYN; an empty SYN asks for all *)
examine_gossiper(g, syn) ==
    LET digests == IF DOMAIN syn = {} THEN [e \in DOMAIN g.eps |-> [gen |-> 0, ver |-> 0]] ELSE syn
        known(e) == e \in DOMAIN g.eps
        maxv(e) == get_max_endpoint_state_version(g.eps[e])
        all(e) == ~known(e) \/ digests[e].gen > g.eps[e].gen
        ask == {e \in DOMAIN digests : all(e) \/ (digests[e].gen = g.eps[e].gen /\ digests[e].ver > maxv(e))}
        since(e) == IF digests[e].gen < g.eps[e].gen THEN 0 ELSE digests[e].ver
        send == {e \in DOMAIN digests \ ask : has_state_bigger_than(g, e, since(e))}
    IN [digests |-> [e \in ask |-> [gen |-> digests[e].gen, ver |-> IF all(e) THEN 0 ELSE maxv(e)]],
        states  |-> [e \in send |-> get_state_for_version_bigger_than(g, e, since(e))]]

mark_dead_StaysLive(g, e) ==
    [g EXCEPT !.eps[e].alive = FALSE, !.unreachable = @ \cup {e}]

(***************************************************************************)
(* Steps of one gossiper, as functions of its state.                        *)
(***************************************************************************)
mark_dead(g, e) ==
    [g EXCEPT !.eps[e].alive = FALSE, !.live = @ \ {e},
              !.just_added = SelectSeq(@, LAMBDA x : x # e), !.unreachable = @ \cup {e}]

(* mark_as_shutdown ends in force_conviction, which finds the endpoint dead *)
mark_as_shutdown(g, e) ==
    IF e \in DOMAIN g.eps THEN mark_dead([g EXCEPT !.eps[e].ver = HighestVersion], e) ELSE g

convict(g, e) ==
    IF e \in DOMAIN g.eps /\ g.eps[e].alive
    THEN IF is_shutdown(g, e) THEN mark_as_shutdown(g, e) ELSE mark_dead(g, e)
    ELSE g

real_mark_alive(g, e) ==
    [g EXCEPT !.eps[e].alive = TRUE, !.live = @ \cup {e}, !.unreachable = @ \ {e},
              !.just_added = IF e \in Range(@) THEN @ ELSE Append(@, e)]

(* The part of mark_alive before the echo, and what is behind it *)
mark_alive(g, e) ==
    IF e \in g.pending THEN g ELSE [g EXCEPT !.pending = @ \cup {e}, !.eps[e].alive = FALSE]
echo_done(g, e, answered) ==
    LET h == IF answered /\ e \in DOMAIN g.eps THEN real_mark_alive(g, e) ELSE g
    IN [h EXCEPT !.pending = @ \ {e}]

build_seeds_list(g, n) == [g EXCEPT !.seeds = @ \cup (Seeds \ {n})]

remove_endpoint(g, n, e) ==
    LET h == IF e \in g.seeds THEN [build_seeds_list(g, n) EXCEPT !.seeds = @ \ {e}] ELSE g
    IN [h EXCEPT !.live = @ \ {e}, !.just_added = SelectSeq(@, LAMBDA x : x # e),
                 !.unreachable = @ \ {e}, !.removed = @ \cup {e}]

evict_from_membership(g, e) ==
    [g EXCEPT !.unreachable = @ \ {e}, !.eps = RestrictDomain(@, LAMBDA x : x # e),
              !.samples = @ \ {e}, !.removed = @ \cup {e}]

is_gossip_only_member(g, e) == e \in DOMAIN g.eps /\ ~is_dead_state(g.eps[e]) /\ e \notin RingMembers

(* A round's status check: who is found silent, convicted or out of quarantine is open. *)
(* An expire time is only set by removals, which are not modelled, and never passes.    *)
check_endpoint(g, n, e, convicted, silent) ==
    LET h == IF e \in convicted THEN convict(g, e) ELSE g
    IN IF is_gossip_only_member(h, e) /\ e \notin h.removed /\ e \in silent
       THEN evict_from_membership(remove_endpoint(h, n, e), e) ELSE h

do_status_check(g, n, convicted, silent, released) ==
    LET checked == FoldSet(LAMBDA e, h : check_endpoint(h, n, e, convicted, silent), g, DOMAIN g.eps \ {n})
    IN [checked EXCEPT !.removed = @ \ released]

(* Reports to the failure detector: an endpoint it has samples of can be convicted *)
notify_failure_detector(g, states) ==
    LET newer(e) == \/ states[e].gen > g.eps[e].gen
                    \/ states[e].gen = g.eps[e].gen /\ states[e].ver > get_max_endpoint_state_version(g.eps[e])
    IN [g EXCEPT !.samples = @ \cup {e \in DOMAIN states \cap DOMAIN g.eps : newer(e)}]

apply_new_states(st, r) ==
    [st EXCEPT !.ver = r.ver, !.whole = @ /\ r.whole /\ r.since <= get_max_endpoint_state_version(st),
               !.app = [k \in AppKeys |-> IF r.app[k].ver > 0 THEN r.app[k] ELSE @[k]]]

(* Steps on one endpoint that may end in an echo: the new state, and whether to wait for it *)
Done(g) == [g |-> g, waits |-> FALSE]
start_mark_alive(g, e) == [g |-> mark_alive(g, e), waits |-> e \notin g.pending]

after_major_change(g, e) == IF is_shutdown(g, e) THEN mark_as_shutdown(g, e) ELSE g

handle_major_state_change(g, e, r) ==
    LET h == [g EXCEPT !.eps = With(@, e, [r EXCEPT !.whole = @ /\ r.since = 0, !.since = 0])]
        a == IF is_dead_state(r) THEN Done(mark_dead(h, e)) ELSE start_mark_alive(h, e)
    IN IF g.shadow THEN Done(h)
       ELSE IF a.waits THEN a ELSE Done(after_major_change(a.g, e))

is_major(g, e, r) == e \notin DOMAIN g.eps \/ r.gen > g.eps[e].gen

apply_entry_AnyVersion(g, n, e, r) ==
    IF e = n \/ e \in g.removed THEN Done(g)
    ELSE IF is_major(g, e, r) THEN handle_major_state_change(g, e, r)
    ELSE Done([g EXCEPT !.eps[e] = apply_new_states(@, r)])

(* One turn of the loop of apply_state_locally *)
apply_entry(g, n, e, r) ==
    LET loc == g.eps[e]
        merged == IF get_max_endpoint_state_version(r) > get_max_endpoint_state_version(loc)
                  THEN [g EXCEPT !.eps[e] = apply_new_states(@, r)] ELSE g
    IN IF (e = n /\ ~g.shadow) \/ e \in g.removed THEN Done(g)
       ELSE IF e \notin DOMAIN g.eps
       THEN handle_major_state_change([g EXCEPT !.samples = @ \cup {e}], e, r)
       ELSE IF loc.gen # 0 /\ r.gen > loc.gen + MAX_GENERATION_DIFFERENCE THEN Done(g)
       ELSE IF r.gen > loc.gen THEN handle_major_state_change(g, e, r)
       ELSE IF r.gen < loc.gen THEN Done(g)
       ELSE IF ~merged.eps[e].alive /\ ~is_dead_state(merged.eps[e]) THEN start_mark_alive(merged, e)
       ELSE Done(merged)

(***************************************************************************)
(* The system.                                                              *)
(***************************************************************************)
NoStates == [e \in {} |-> None]
Message(type, from, to, digests, states) ==
    [type |-> type, from |-> from, to |-> to, digests |-> digests, states |-> states]
Fiber(n, todo, to, req, acks) ==
    [node |-> n, todo |-> todo, echo |-> None, major |-> FALSE, to |-> to, req |-> req, acks |-> acks]

Room(msgs) == Cardinality(net \cup msgs) + Cardinality(fibers) <= MaxMessages

Up(n) == gossiper[n].up
Runs(f) == f.echo = None /\ DOMAIN f.todo # {}
Idle(n) == \A f \in fibers : f.node = n => ~Runs(f)
Enabled(n) == Up(n) /\ Idle(n) /\ gossiper[n].enabled

Down == [up |-> FALSE, enabled |-> FALSE, shadow |-> FALSE, eps |-> NoStates, live |-> {}, just_added |-> <<>>,
         unreachable |-> {}, pending |-> {}, samples |-> {}, removed |-> {}, seeds |-> {}]

Init ==
    /\ gossiper = [n \in Nodes |-> Down] /\ generation = [n \in Nodes |-> 0] /\ version = [n \in Nodes |-> 0]
    /\ net = {} /\ fibers = {} /\ lost = 0

(* A process starts, with a generation above its last one *)
start(n) ==
    /\ ~Up(n) /\ generation[n] < MaxGeneration[n]
    /\ generation' = [generation EXCEPT ![n] = @ + 1]
    /\ gossiper' = [gossiper EXCEPT ![n].up = TRUE]
    /\ UNCHANGED <<version, net, fibers, lost>>

(* do_shadow_round: an empty SYN to every seed *)
do_shadow_round(n) ==
    /\ Up(n) /\ Idle(n) /\ ~gossiper[n].enabled /\ ~gossiper[n].shadow /\ gossiper[n].eps = NoStates
    /\ LET g == [build_seeds_list(gossiper[n], n) EXCEPT !.shadow = TRUE]
           syns == {Message("syn", n, e, NoStates, NoStates) : e \in g.seeds}
       IN /\ Room(syns)
          /\ gossiper' = [gossiper EXCEPT ![n] = g] /\ net' = net \cup syns
    /\ UNCHANGED <<generation, version, fibers, lost>>

(* reset_endpoint_state_map behind a shadow round, and start_gossiping as its comment has it *)
start_gossiping(n) ==
    /\ Up(n) /\ Idle(n) /\ ~gossiper[n].enabled /\ ~gossiper[n].shadow
    /\ gossiper' = [gossiper EXCEPT ![n] =
           [build_seeds_list(@, n) EXCEPT !.enabled = TRUE,
                !.eps = [e \in {n} |-> EndpointState(generation[n], 0, NoApp, 0)]]]
    /\ UNCHANGED <<generation, version, net, fibers, lost>>

(* The members a round gossips to: a live one, perhaps an unreachable one, perhaps a seed *)
gossip_to_live_member(g) ==
    IF g.live = {} THEN {{}} ELSE IF g.just_added # <<>> THEN {{Head(g.just_added)}} ELSE {{e} : e \in g.live}
gossip_to_unreachable_member(g) ==
    LET addrs == {e \in g.unreachable : e \notin DOMAIN g.eps \/ get_gossip_status(g.eps[e]) # "LEFT"}
        may_skip == addrs = {} \/ Cardinality(g.unreachable) < Cardinality(g.live) + 1
    IN {{e} : e \in addrs} \cup (IF may_skip THEN {{}} ELSE {})
gossip_to_seed(g, n, gossiped_to_seed) ==
    LET others == Cardinality(g.live \cup g.unreachable)
        may_skip == g.live # {} /\ Cardinality(g.seeds) < others
    IN IF g.seeds = {} \/ g.seeds = {n} \/ (gossiped_to_seed /\ Cardinality(g.live) >= Cardinality(g.seeds))
       THEN {{}} ELSE {{e} : e \in g.seeds} \cup (IF may_skip THEN {{}} ELSE {})

(* A round: heart beat, SYNs, status check *)
run(n) ==
    LET g == [gossiper[n] EXCEPT !.eps[n].ver = version[n] + 1]
        sent == [g EXCEPT !.just_added = IF g.live # {} /\ @ # <<>> THEN Tail(@) ELSE @]
        others == DOMAIN g.eps \ {n}
    IN /\ Enabled(n) /\ version[n] < MaxVersion[n]
       /\ \E to_live \in gossip_to_live_member(g), to_unreachable \in gossip_to_unreachable_member(g) :
             LET last == IF to_unreachable # {} THEN to_unreachable ELSE to_live
                 gossiped_to_seed == last # {} /\ last \subseteq g.seeds
             IN \E to_seed \in gossip_to_seed(g, n, gossiped_to_seed) :
                LET syns == {Message("syn", n, e, make_random_gossip_digest(g), NoStates) :
                                e \in to_live \cup to_unreachable \cup to_seed}
                IN Room(syns) /\ net' = net \cup syns
       /\ version' = [version EXCEPT ![n] = @ + 1]
       /\ \E convicted \in SUBSET (others \cap g.samples), silent \in SUBSET (others \ RingMembers),
             released \in SUBSET g.removed :
             gossiper' = [gossiper EXCEPT ![n] = do_status_check(sent, n, convicted, silent, released)]
       /\ UNCHANGED <<generation, fibers, lost>>

(* Messages are taken from the network by handlers that may do nothing with them *)
Receive(m) == m \in net /\ Up(m.to) /\ Idle(m.to)
Ignore(m) == net' = net \ {m} /\ UNCHANGED <<gossiper, generation, version, fibers, lost>>

handle_syn_msg(m) ==
    LET ack == examine_gossiper(gossiper[m.to], m.digests)
    IN /\ Receive(m) /\ m.type = "syn"
       /\ IF gossiper[m.to].enabled
          THEN /\ net' = (net \ {m}) \cup {Message("ack", m.to, m.from, ack.digests, ack.states)}
               /\ UNCHANGED <<gossiper, generation, version, fibers, lost>>
          ELSE Ignore(m)

handle_ack_msg(m) ==
    LET g == gossiper[m.to]
    IN /\ Receive(m) /\ m.type = "ack"
       /\ IF g.enabled \/ g.shadow
          THEN /\ net' = net \ {m}
               /\ gossiper' = [gossiper EXCEPT ![m.to] = notify_failure_detector(g, m.states)]
               /\ fibers' = fibers \cup {Fiber(m.to, m.states, m.from, m.digests, TRUE)}
               /\ UNCHANGED <<generation, version, lost>>
          ELSE Ignore(m)

handle_ack2_msg(m) ==
    /\ Receive(m) /\ m.type = "ack2"
    /\ IF gossiper[m.to].enabled
       THEN /\ net' = net \ {m}
            /\ gossiper' = [gossiper EXCEPT ![m.to] = notify_failure_detector(@, m.states)]
            /\ fibers' = fibers \cup {Fiber(m.to, m.states, m.from, NoStates, FALSE) : e \in DOMAIN m.states}
            /\ UNCHANGED <<generation, version, lost>>
       ELSE Ignore(m)

handle_shutdown_msg(m) ==
    /\ Receive(m) /\ m.type = "shutdown"
    /\ IF gossiper[m.to].enabled
       THEN /\ net' = net \ {m}
            /\ gossiper' = [gossiper EXCEPT ![m.to] = mark_as_shutdown(@, m.from)]
            /\ UNCHANGED <<generation, version, fibers, lost>>
       ELSE Ignore(m)

(* A fiber goes on as f2, unless it has come to its end *)
GoOn(f, f2) ==
    fibers' = (fibers \ {f}) \cup (IF f2.acks \/ f2.echo # None \/ DOMAIN f2.todo # {} THEN {f2} ELSE {})

(* apply_state_locally takes the next entry *)
apply_state_locally(f, e) ==
    LET n == f.node
        g == gossiper[n]
        r == f.todo[e]
        a == apply_entry(g, n, e, r)
        rest == Restrict(f.todo, DOMAIN f.todo \ {e})
    IN /\ Runs(f) /\ e \in DOMAIN f.todo
       /\ gossiper' = [gossiper EXCEPT ![n] = a.g]
       /\ GoOn(f, [f EXCEPT !.todo = rest, !.echo = IF a.waits THEN e ELSE None,
                            !.major = a.waits /\ is_major(g, e, r)])
       /\ UNCHANGED <<generation, version, net, lost>>

(* The echo is answered by a process that is up, or fails *)
handle_echo_msg(f, answered) ==
    LET n == f.node
        g == echo_done(gossiper[n], f.echo, answered)
    IN /\ f.echo # None /\ Idle(n) /\ (answered => Up(f.echo))
       /\ gossiper' = [gossiper EXCEPT ![n] = IF f.major THEN after_major_change(g, f.echo) ELSE g]
       /\ GoOn(f, [f EXCEPT !.echo = None, !.major = FALSE])
       /\ UNCHANGED <<generation, version, net, lost>>

(* The continuation of handle_ack_msg: what the peer asked for, whatever has changed since *)
send_ack2(f) ==
    LET n == f.node
        g == gossiper[n]
        wanted == {e \in DOMAIN f.req : has_state_bigger_than(g, e, f.req[e].ver)}
        delta == [e \in wanted |-> get_state_for_version_bigger_than(g, e, f.req[e].ver)]
    IN /\ f.echo = None /\ DOMAIN f.todo = {} /\ Idle(n)
       /\ fibers' = fibers \ {f}
       /\ IF ~g.shadow
          THEN net' = net \cup {Message("ack2", n, f.to, NoStates, delta)}
          ELSE net' = net
       /\ gossiper' = [gossiper EXCEPT ![n].shadow = FALSE]
       /\ UNCHANGED <<generation, version, lost>>

add_local_application_state(n, k, val) ==
    LET value == [ver |-> version[n] + 1, val |-> val]
    IN /\ Enabled(n) /\ n \in DOMAIN gossiper[n].eps /\ version[n] < MaxVersion[n]
       /\ version' = [version EXCEPT ![n] = @ + 1]
       /\ gossiper' = [gossiper EXCEPT ![n].eps[n].app[k] = value]
       /\ UNCHANGED <<generation, net, fibers, lost>>

Gone(n) ==
    /\ gossiper' = [gossiper EXCEPT ![n] = Down] /\ version' = [version EXCEPT ![n] = 0]
    /\ fibers' = {f \in fibers : f.node # n}
    /\ UNCHANGED <<generation, lost>>

(* An orderly stop tells the live members, unless the status is a silent one *)
do_stop_gossiping(n) ==
    LET g == gossiper[n]
        announced == IF is_dead_state(g.eps[n]) THEN {} ELSE g.live
        msgs == {Message("shutdown", n, e, NoStates, NoStates) : e \in announced}
    IN /\ Enabled(n) /\ Room(msgs)
       /\ net' = net \cup msgs
       /\ Gone(n)

Crash(n) == Up(n) /\ net' = net /\ Gone(n)

Lose(m) ==
    /\ m \in net /\ lost < MaxLost
    /\ net' = net \ {m} /\ lost' = lost + 1
    /\ UNCHANGED <<gossiper, generation, version, fibers>>

Step(f) ==
    \/ \E e \in DOMAIN f.todo : apply_state_locally(f, e)
    \/ \E answered \in BOOLEAN : handle_echo_msg(f, answered)
    \/ send_ack2(f)

Handle(m) == handle_syn_msg(m) \/ handle_ack_msg(m) \/ handle_ack2_msg(m) \/ handle_shutdown_msg(m)

Next ==
    \/ \E n \in Nodes : start(n) \/ do_shadow_round(n) \/ start_gossiping(n) \/ run(n)
    \/ \E n \in Nodes : do_stop_gossiping(n) \/ Crash(n)
    \/ \E n \in Publishers, k \in AppKeys, val \in Statuses : add_local_application_state(n, k, val)
    \/ \E m \in net : Handle(m) \/ Lose(m)
    \/ \E f \in fibers : Step(f)

Spec == Init /\ [][Next]_vars

(***************************************************************************)
(* Properties.                                                              *)
(***************************************************************************)
States == [gen : Nat, ver : 0..HighestVersion, alive : BOOLEAN,
           since : 0..HighestVersion, whole : BOOLEAN,
           app : [AppKeys -> [ver : 0..HighestVersion, val : Statuses \cup {""}]]]

(* Every gossiper holds well-formed states of endpoints, and every fiber belongs to a *)
(* process that is up.                                                                *)
TypeOK ==
    /\ \A n \in Nodes : Up(n) =>
          /\ DOMAIN gossiper[n].eps \subseteq Nodes
          /\ \A e \in DOMAIN gossiper[n].eps : gossiper[n].eps[e] \in States
    /\ \A f \in fibers : Up(f.node) /\ f.echo \in Nodes \cup {None}
    /\ Cardinality(net) + Cardinality(fibers) <= MaxMessages

(* Nobody knows more of a node than it has said: a view is never ahead of the node in *)
(* generation, or in version unless a shutdown was announced (examine_gossiper,       *)
(* apply_new_states).                                                                 *)
ViewNotAhead ==
    \A n \in Nodes : Up(n) => \A e \in DOMAIN gossiper[n].eps :
        LET st == gossiper[n].eps[e]
        IN /\ st.gen <= generation[e]
           /\ Up(e) /\ st.gen = generation[e] /\ st.ver # HighestVersion => get_max_endpoint_state_version(st) <= version[e]

(* An endpoint is not at the same time in _live_endpoints and in _unreachable_endpoints, *)
(* and both hold endpoints of endpoint_state_map (mark_dead, real_mark_alive,            *)
(* remove_endpoint, evict_from_membership).                                              *)
LiveOrUnreachable ==
    \A n \in Nodes : Up(n) =>
        /\ gossiper[n].live \cap gossiper[n].unreachable = {}
        /\ gossiper[n].live \cup gossiper[n].unreachable \subseteq DOMAIN gossiper[n].eps

(* A view holds all the application states its node published up to the view's    *)
(* version: no delta (get_state_for_version_bigger_than) skips one, as long as it *)
(* is applied to the state it was asked for.                                      *)
ViewComplete ==
    \A n, e \in Nodes : Up(n) /\ Enabled(e) /\ e \in DOMAIN gossiper[n].eps =>
        LET st == gossiper[n].eps[e]
            app == gossiper[e].eps[e].app
        IN st.whole /\ st.gen = generation[e] /\ st.ver # HighestVersion =>
              \A k \in AppKeys : app[k].ver <= get_max_endpoint_state_version(st) => st.app[k] = app[k]

(* While a node runs and knows an endpoint, its view of it never goes back. *)
ViewForward ==
    [][\A n \in Nodes : Up(n) /\ gossiper'[n].up /\ generation'[n] = generation[n] =>
         \A e \in DOMAIN gossiper[n].eps \cap DOMAIN gossiper'[n].eps :
            LET a == gossiper[n].eps[e]
                b == gossiper'[n].eps[e]
            IN \/ b.gen > a.gen
               \/ b.gen = a.gen /\ get_max_endpoint_state_version(b) >= get_max_endpoint_state_version(a)]_vars

=============================================================================
