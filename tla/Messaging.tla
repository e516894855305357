----------------------------- MODULE Messaging -----------------------------
(***************************************************************************)
(* message/messaging_service.cc: the connections to other nodes, one per    *)
(* node and class of verbs, that calls share; transport errors, retries,    *)
(* and stop().  A connection is an rpc::protocol::client (external): it is  *)
(* "open", in "error", or "stopped".  A call that has failed may hear of it  *)
(* long after its connection was replaced by another one.                   *)
(***************************************************************************)
EXTENDS Integers, Sequences, FiniteSets

CONSTANTS
    Peers,         \* other nodes
    Broadcast,     \* whether a second address is listened to
    Encrypt,       \* whether there are servers for encrypted connections, too
    nr_retry,      \* attempts of a call that is retried
    MaxCalls, MaxConnections, MaxFailures

VARIABLES
    _clients,      \* per class of verbs and node: <<>>, or <<connection>>
    connection,    \* states of the connections, in the order they were made
    calls,         \* the calls, in the order they were made
    _server,       \* the addresses listened to, and of them those that were stopped
    _stopping,
    known,         \* the nodes that gossip knows
    dropped,       \* _dropped_messages, per class of verbs
    failures       \* connections that have broken so far

msgVars == <<_clients, connection, calls, _server, _stopping, known, dropped, failures>>

Verbs == {"echo", "ack"}

(* GOSSIP_DIGEST_ACK is not among the verbs of the gossip connection *)
get_rpc_client_idx == [verb \in Verbs |-> IF verb = "echo" THEN 1 ELSE 0]

MsgInit ==
    /\ _clients = [x \in (0..1) \X Peers |-> <<>>]
    /\ connection = <<>> /\ calls = <<>>
    /\ _server = [listening |-> {}, stopped |-> {}]
    /\ _stopping = FALSE /\ known = Peers /\ dropped = [i \in 0..1 |-> 0] /\ failures = 0

(* Only what is not listened to yet *)
start_listen ==
    /\ _server.listening = {}
    /\ _server' = [_server EXCEPT !.listening = (IF Encrypt THEN {"plain", "tls"} ELSE {"plain"}) \X (IF Broadcast THEN {0, 1} ELSE {0})]
    /\ UNCHANGED <<_clients, connection, calls, _stopping, known, dropped, failures>>

error(c) == connection[c] # "open"

(* remove_rpc_client_one on the connections and the map: nothing while stop() is at work *)
remove_one_Any(cl, cn, x, dead_only) ==
    IF ~_stopping /\ cl[x] # <<>>
    THEN [clients |-> [cl EXCEPT ![x] = <<>>], connection |-> [cn EXCEPT ![cl[x][1]] = "stopped"]]
    ELSE [clients |-> cl, connection |-> cn]

remove_one_Leak(cl, cn, x, dead_only) ==
    IF ~_stopping /\ cl[x] # <<>> /\ (dead_only => cn[cl[x][1]] # "open")
    THEN [clients |-> [cl EXCEPT ![x] = <<>>], connection |-> cn]
    ELSE [clients |-> cl, connection |-> cn]

remove_one(cl, cn, x, dead_only) ==
    IF ~_stopping /\ cl[x] # <<>> /\ (dead_only => cn[cl[x][1]] # "open")
    THEN [clients |-> [cl EXCEPT ![x] = <<>>], connection |-> [cn EXCEPT ![cl[x][1]] = "stopped"]]
    ELSE [clients |-> cl, connection |-> cn]

remove_rpc_client(peer) ==
    /\ LET one == remove_one(_clients, connection, <<0, peer>>, FALSE)
           both == remove_one(one.clients, one.connection, <<1, peer>>, FALSE)
       IN both.clients # _clients /\ _clients' = both.clients /\ connection' = both.connection
    /\ UNCHANGED <<calls, _server, _stopping, known, dropped, failures>>

(* get_rpc_client: the connection of the class, or a new one in place of one in error *)
get_rpc_client(x) ==
    LET gone == remove_one(_clients, connection, x, TRUE)
    IN IF _clients[x] # <<>> /\ ~error(_clients[x][1])
       THEN [clients |-> _clients, connection |-> connection, c |-> _clients[x][1]]
       ELSE [clients |-> [gone.clients EXCEPT ![x] = <<Len(connection) + 1>>],
             connection |-> Append(gone.connection, "open"), c |-> Len(connection) + 1]

(* The failure of a call with closed_error: an end, or another attempt after a while *)
Closed_Again(call) ==
    IF call.kind = "retry" /\ call.peer \in known
    THEN [call EXCEPT !.state = "sleeping"] ELSE [call EXCEPT !.state = "closed"]

Closed(call) ==
    IF call.kind = "retry" /\ call.retry - 1 # 0 /\ ~_stopping /\ call.peer \in known
    THEN [call EXCEPT !.state = "sleeping", !.retry = @ - 1]
    ELSE [call EXCEPT !.state = "closed"]

is_stopping == _stopping

(* An attempt to send call k, which is `call` *)
Attempt(k, call) ==
    LET got == get_rpc_client(<<get_rpc_client_idx[call.verb], call.peer>>)
        put(c) == IF k \in DOMAIN calls THEN [calls EXCEPT ![k] = c] ELSE Append(calls, c)
    IN IF is_stopping
       THEN calls' = put(Closed(call)) /\ UNCHANGED <<_clients, connection>>
       ELSE /\ calls' = put([call EXCEPT !.state = "sent", !.conn = got.c])
            /\ _clients' = got.clients /\ connection' = got.connection
            /\ Len(got.connection) <= MaxConnections

send_message(kind, verb, peer) ==
    /\ Len(calls) < MaxCalls
    /\ Attempt(Len(calls) + 1, [kind |-> kind, verb |-> verb, peer |-> peer, state |-> "new", conn |-> 0, retry |-> nr_retry])
    /\ UNCHANGED <<_server, _stopping, known, dropped, failures>>

(* sleep_abortable is over, or aborted because the program stops *)
Wake(k) ==
    /\ calls[k].state = "sleeping"
    /\ Attempt(k, calls[k])
    /\ UNCHANGED <<_server, _stopping, known, dropped, failures>>
Abort(k) ==
    /\ calls[k].state = "sleeping" /\ _stopping
    /\ calls' = [calls EXCEPT ![k].state = "aborted"]
    /\ UNCHANGED <<_clients, connection, _server, _stopping, known, dropped, failures>>

(* The continuation of a call: an answer, an error of the handler, or a timeout *)
Answer(k, how) ==
    /\ calls[k].state = "sent" /\ (how = "timeout" => calls[k].kind # "plain") /\ (how = "ok" => ~error(calls[k].conn))
    /\ calls' = [calls EXCEPT ![k].state = how]
    /\ dropped' = IF how = "ok" THEN dropped ELSE [dropped EXCEPT ![get_rpc_client_idx[calls[k].verb]] = @ + 1]
    /\ UNCHANGED <<_clients, connection, _server, _stopping, known, failures>>

(* The connection of a call is gone; the client of its class is removed if it is in error *)
CallClosed(k) ==
    /\ calls[k].state = "sent" /\ error(calls[k].conn)
    /\ LET x == <<get_rpc_client_idx[calls[k].verb], calls[k].peer>>
           gone == remove_one(_clients, connection, x, TRUE)
       IN /\ calls' = [calls EXCEPT ![k] = Closed(@)]
          /\ _clients' = gone.clients /\ connection' = gone.connection
          /\ dropped' = [dropped EXCEPT ![x[1]] = @ + 1]
    /\ UNCHANGED <<_server, _stopping, known, failures>>

(* stop(): of the servers of a kind only the first is stopped *)
stop ==
    /\ ~_stopping /\ _stopping' = TRUE
    /\ _server' = [_server EXCEPT !.stopped = {s \in _server.listening : s[2] = 0}]
    /\ connection' = [c \in DOMAIN connection |-> IF \E x \in DOMAIN _clients : _clients[x] = <<c>> THEN "stopped" ELSE connection[c]]
    /\ UNCHANGED <<_clients, calls, known, dropped, failures>>

Break(c) ==
    /\ connection[c] = "open" /\ failures < MaxFailures
    /\ connection' = [connection EXCEPT ![c] = "error"] /\ failures' = failures + 1
    /\ UNCHANGED <<_clients, calls, _server, _stopping, known, dropped>>

on_remove(peer) ==
    /\ peer \in known /\ known' = known \ {peer}
    /\ UNCHANGED <<_clients, connection, calls, _server, _stopping, dropped, failures>>

MsgNext ==
    \/ start_listen \/ stop
    \/ \E peer \in Peers : remove_rpc_client(peer) \/ on_remove(peer)
    \/ \E kind \in {"plain", "timeout", "retry"}, verb \in Verbs, peer \in Peers : send_message(kind, verb, peer)
    \/ \E k \in DOMAIN calls : Wake(k) \/ Abort(k) \/ CallClosed(k) \/ \E how \in {"ok", "failed", "timeout"} : Answer(k, how)
    \/ \E c \in DOMAIN connection : Break(c)

MsgSpec == MsgInit /\ [][MsgNext]_msgVars

(* The reactor runs continuations, sleeps end, and a call with a timeout times out *)
MsgFairness ==
    /\ \A k \in 1..MaxCalls :
        /\ WF_msgVars(k \in DOMAIN calls /\ CallClosed(k))
        /\ WF_msgVars(k \in DOMAIN calls /\ Wake(k))
        /\ WF_msgVars(k \in DOMAIN calls /\ Answer(k, "timeout"))

(* A connection is taken out of service only when it is in error, by remove_rpc_client, which *)
(* is for both classes, or at the end: a call that hears late that its connection was lost    *)
(* does not take down the one that has replaced it (send_message, remove_rpc_client_one).     *)
HealthyKept ==
    [][\A x \in DOMAIN _clients :
          _clients[x] # <<>> /\ _clients'[x] # _clients[x] /\ connection[_clients[x][1]] = "open"
            => _clients'[<<0, x[2]>>] = <<>> /\ _clients'[<<1, x[2]>>] = <<>> /\ UNCHANGED calls]_msgVars

(* Every connection that is open is the one of its class and node, so that stop() reaches all *)
(* of them, and after it none is open or opened, though calls are retried                     *)
(* (get_rpc_client, stop_client).                                                             *)
StopReachesAll ==
    \A c \in DOMAIN connection : connection[c] = "open" => ~_stopping /\ \E x \in DOMAIN _clients : _clients[x] = <<c>>

(* A call with a timeout, retried or not, ends, unless the bound on connections is what it    *)
(* waits for (send_message_timeout_and_retry).                                                *)
RetriesEnd ==
    \A k \in 1..MaxCalls :
        [](k \in DOMAIN calls /\ calls[k].kind # "plain"
            => <>(k \in DOMAIN calls => calls[k].state \notin {"sent", "sleeping"} \/ Len(connection) = MaxConnections))
=============================================================================
