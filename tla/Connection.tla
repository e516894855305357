----------------------------- MODULE Connection -----------------------------
(***************************************************************************)
(* The server of a shard (server.cc): the accept loop, and for the         *)
(* connection it serves the fiber that reads and executes requests, the    *)
(* fiber that writes replies, and the bounded queue between them.          *)
(*                                                                         *)
(* A request is the client's number of it.  A read from the socket may end *)
(* within a request; the parser then takes the part for a request,         *)
(* and finds an error at the beginning of the other part.                  *)
(***************************************************************************)
EXTENDS Integers, Sequences

CONSTANTS Clients,
          MaxRequests,  \* bound: the requests of a connection
          QueueSize,    \* reply_queue_size
          MaxSplits,    \* bound: the reads of a connection that end within one
          None          \* no client

ASSUME ConnectionAssumption ==
    /\ MaxRequests \in Nat /\ QueueSize \in Nat \ {0} /\ MaxSplits \in Nat
    /\ None \notin Clients

VARIABLES
    client,   \* what each client is up to
    conn,     \* the client of the connection that is served, or None
    asked,    \* the number of requests it has sent
    answers,  \* the replies it has received
    current,  \* _connections_current
    total,    \* _connections_total
    socket,   \* the pieces of requests that have arrived
    buf,      \* the pieces that have been read and not yet parsed
    eof,      \* the end of the stream has been read
    splits,   \* history: the reads that ended within a request
    rq,       \* the request fiber
    req,      \* the request it has parsed
    replies,  \* _replies
    rp,       \* the reply fiber
    reply     \* the reply it writes

clientVars == <<client, asked, answers>>
counters == <<current, total>>
input == <<socket, buf, eof, splits>>
fibers == <<rq, req, replies, rp, reply>>
vars == <<clientVars, conn, counters, input, fibers>>

Piece(n, part) == [n |-> n, part |-> part]

NoRequest == Piece(0, "none")

(* No connection has been accepted yet.                                    *)
NoConnectionYet ==
    /\ asked = 0 /\ answers = <<>>
    /\ conn = None /\ current = 0 /\ total = 0
    /\ socket = <<>> /\ buf = <<>> /\ eof = FALSE /\ splits = 0
    /\ rq = "none" /\ req = NoRequest
    /\ replies = <<>> /\ rp = "none" /\ reply = NoRequest

Init == client = [c \in Clients |-> "waiting"] /\ NoConnectionYet

-----------------------------------------------------------------------------
(* The clients, which have connected and wait until they are served.       *)
send(c) ==
    /\ client[c] = "open" /\ conn = c
    /\ asked < MaxRequests
    /\ asked' = asked + 1
    /\ socket' = Append(socket, Piece(asked + 1, "full"))
    /\ UNCHANGED <<client, answers, conn, counters, buf, eof, splits, fibers>>

(* The client closes the connection, in order or with a reset.             *)
close(c) ==
    /\ client[c] = "open" /\ conn = c
    /\ \E how \in {"closed", "reset"} : client' = [client EXCEPT ![c] = how]
    /\ UNCHANGED <<asked, answers, conn, counters, input, fibers>>

-----------------------------------------------------------------------------
(* start: the next connection is accepted when process() of the last one   *)
(* is done.                                                                *)
accept(c) ==
    /\ conn = None
    /\ client[c] = "waiting"
    /\ client' = [client EXCEPT ![c] = "open"]
    /\ conn' = c /\ asked' = 0 /\ answers' = <<>>
    /\ current' = current + 1
    /\ total' = total + 1
    /\ socket' = <<>> /\ buf' = <<>> /\ eof' = FALSE /\ splits' = 0
    /\ rq' = "top" /\ req' = NoRequest
    /\ replies' = <<>> /\ rp' = "pop" /\ reply' = NoRequest

(* Both fibers are done, with an error or not.                             *)
processed ==
    /\ rq = "done" /\ rp = "done"
    /\ conn' = None
    /\ current' = current - 1
    /\ rq' = "none" /\ rp' = "none"
    /\ UNCHANGED <<clientVars, total, input, req, replies, reply>>

(* The top of the loop of request().                                       *)
not_full ==
    /\ rq = "top"
    /\ Len(replies) < QueueSize
    /\ rq' = "read"
    /\ UNCHANGED <<clientVars, conn, counters, input, req, replies, rp, reply>>

(* consume() finds its buffer empty and reads from the socket: some of the *)
(* pieces that have arrived, perhaps with a part of the next one; the end  *)
(* of the stream; or an error, which ends the fiber.                       *)
read ==
    /\ rq = "read"
    /\ buf = <<>> /\ ~eof
    /\ \/ /\ client[conn] # "reset"
          /\ \E k \in 1 .. Len(socket) :
               \/ /\ buf' = SubSeq(socket, 1, k)
                  /\ socket' = SubSeq(socket, k + 1, Len(socket))
                  /\ UNCHANGED splits
               \/ /\ splits < MaxSplits /\ socket[k].part = "full"
                  /\ splits' = splits + 1
                  /\ buf' = Append(SubSeq(socket, 1, k - 1), Piece(socket[k].n, "head"))
                  /\ socket' = <<Piece(socket[k].n, "tail")>>
                                   \o SubSeq(socket, k + 1, Len(socket))
          /\ UNCHANGED <<eof, rq>>
       \/ /\ client[conn] = "closed" /\ socket = <<>>
          /\ eof' = TRUE
          /\ UNCHANGED <<socket, buf, splits, rq>>
       \/ /\ client[conn] = "reset"
          /\ rq' = "done"
          /\ UNCHANGED input
    /\ UNCHANGED <<clientVars, conn, counters, req, replies, rp, reply>>

\* Mutant: what follows a request in the buffer is dropped.
parse_DropsRest ==
    /\ rq = "read"
    /\ buf # <<>> \/ eof
    /\ req' = IF buf = <<>> \/ Head(buf).part = "tail" THEN Piece(0, "error") ELSE Head(buf)
    /\ buf' = <<>>
    /\ rq' = "parsed"
    /\ UNCHANGED <<clientVars, conn, counters, socket, eof, splits, replies, rp, reply>>

(* The parser is started afresh on the buffer.  It stops behind a request, *)
(* or at the end of the buffer with what it has of one.  At an error it    *)
(* drops the buffer; it sees one at the end of the stream too.             *)
parse ==
    /\ rq = "read"
    /\ buf # <<>> \/ eof
    /\ IF buf = <<>> \/ Head(buf).part = "tail"
       THEN req' = Piece(0, "error") /\ buf' = <<>>
       ELSE req' = Head(buf) /\ buf' = Tail(buf)
    /\ rq' = "parsed"
    /\ UNCHANGED <<clientVars, conn, counters, socket, eof, splits, replies, rp, reply>>

(* not_full() in handle(), then do_handle_one begins.                      *)
handle ==
    /\ rq = "parsed"
    /\ Len(replies) < QueueSize
    /\ rq' = "run"
    /\ UNCHANGED <<clientVars, conn, counters, input, req, replies, rp, reply>>

(* _replies.push drops what it has no room for.                            *)
push(r) == IF Len(replies) < QueueSize THEN Append(replies, r) ELSE replies

(* The command is executed and its reply queued.  An exception of the      *)
(* handler ends the fiber; a request that could not be parsed has none.    *)
do_handle_one ==
    /\ rq = "run"
    /\ \/ rq' = "top" /\ replies' = push(req)
       \/ req.part # "error" /\ rq' = "done" /\ UNCHANGED replies
    /\ UNCHANGED <<clientVars, conn, counters, input, req, rp, reply>>

\* Mutant: the latest reply is taken first.
pop_Last ==
    /\ rp = "pop"
    /\ replies # <<>>
    /\ reply' = replies[Len(replies)]
    /\ replies' = SubSeq(replies, 1, Len(replies) - 1)
    /\ rp' = "write"
    /\ UNCHANGED <<clientVars, conn, counters, input, rq, req>>

(* The reply fiber takes a reply.                                          *)
pop ==
    /\ rp = "pop"
    /\ replies # <<>>
    /\ reply' = Head(replies)
    /\ replies' = Tail(replies)
    /\ rp' = "write"
    /\ UNCHANGED <<clientVars, conn, counters, input, rq, req>>

\* Mutant: the fiber ends after a reply.
write_Once ==
    /\ rp = "write"
    /\ \/ /\ client[conn] = "open"
          /\ answers' = Append(answers, reply)
          /\ rp' = "done"
       \/ client[conn] = "closed" /\ rp' = "pop" /\ UNCHANGED answers
       \/ client[conn] # "open" /\ rp' = "done" /\ UNCHANGED answers
    /\ UNCHANGED <<client, asked, conn, counters, input, rq, req, replies, reply>>

(* It writes it: to the client, to a client that is gone while the         *)
(* connection does not know yet, or with an error, which ends the fiber.   *)
write ==
    /\ rp = "write"
    /\ \/ /\ client[conn] = "open"
          /\ answers' = Append(answers, reply)
          /\ rp' = "pop"
       \/ client[conn] = "closed" /\ rp' = "pop" /\ UNCHANGED answers
       \/ client[conn] # "open" /\ rp' = "done" /\ UNCHANGED answers
    /\ UNCHANGED <<client, asked, conn, counters, input, rq, req, replies, reply>>

Server ==
    \/ processed
    \/ not_full
    \/ read
    \/ parse
    \/ handle
    \/ do_handle_one
    \/ pop
    \/ write

Next ==
    \/ \E c \in Clients : send(c) \/ close(c) \/ accept(c)
    \/ Server

(* The reactor runs every fiber that can go on, the accept loop too; a     *)
(* command ends.                                                           *)
Fairness ==
    /\ WF_vars(processed \/ \E c \in Clients : accept(c))
    /\ WF_vars(not_full \/ read \/ parse \/ handle \/ do_handle_one)
    /\ WF_vars(pop \/ write)

Spec == Init /\ [][Next]_vars /\ Fairness

-----------------------------------------------------------------------------
Pieces == [n : 0 .. MaxRequests, part : {"none", "full", "head", "tail", "error"}]

TypeOK ==
    /\ client \in [Clients -> {"waiting", "open", "closed", "reset"}]
    /\ asked \in 0 .. MaxRequests /\ answers \in Seq(Pieces)
    /\ conn \in Clients \cup {None} /\ current \in Nat /\ total \in Nat
    /\ socket \in Seq(Pieces) /\ buf \in Seq(Pieces) /\ eof \in BOOLEAN /\ splits \in 0 .. MaxSplits
    /\ rq \in {"none", "top", "read", "parsed", "run", "done"} /\ req \in Pieces
    /\ replies \in Seq(Pieces) /\ rp \in {"none", "pop", "write", "done"} /\ reply \in Pieces

(* The requests of a pipeline are answered one by one and in their order,  *)
(* however full the queue is, as long as reads end between requests.       *)
AnsweredInOrder ==
    splits = 0 => \A i \in DOMAIN answers : answers[i] = Piece(i, "full")

(* The same wherever reads end, as a client of a byte stream expects.      *)
AnsweredAsSent ==
    \A i \in DOMAIN answers : answers[i] = Piece(i, "full")

(* Even when reads end within requests, no request is executed twice or    *)
(* answered after a later one: a client that finds its answer knows that   *)
(* the earlier requests are over.                                          *)
ExecutedOnceInOrder ==
    \A i, j \in DOMAIN answers :
        (i < j /\ answers[i].n # 0 /\ answers[j].n # 0) => answers[i].n < answers[j].n

(* A client that sends a pipeline of requests and waits has all of them    *)
(* answered, unless the handler of one throws or a read ends within one.   *)
RequestAnswered ==
    (conn # None /\ Len(answers) < asked)
        ~> \/ conn = None
           \/ Len(answers) >= asked \/ client[conn] # "open" \/ rq = "done" \/ splits > 0

(* "Total number of connections current opened.": a connection whose       *)
(* client is gone is not counted for ever.                                 *)
GoneIsNotCounted ==
    \A c \in Clients :
        (conn = c /\ client[c] \in {"closed", "reset"}) ~> conn # c
=============================================================================
