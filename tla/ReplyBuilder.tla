---------------------------- MODULE ReplyBuilder ----------------------------
(***************************************************************************)
(* The replies that reply_builder.hh writes.  The text of a reply is       *)
(* abstracted to the value a client reads from it, in the form of the wire *)
(* protocol:                                                               *)
(*                                                                         *)
(*   <<"+", m>>, <<"-", m>>   a status, an error                           *)
(*   <<":", n>>               an integer                                   *)
(*   <<"$", v>>               a bulk string: a length and that many bytes  *)
(*   <<"*", n, q>>            the announcement of n values, followed by    *)
(*                            the values q                                 *)
(*   <<"bare", v>>            a bulk string without its tag                *)
(*   <<"empty">>              no bytes at all                              *)
(***************************************************************************)
EXTENDS Integers, Sequences

msg_ok               == <<"+", "OK">>
msg_pong             == <<"+", "PONG">>
msg_nil              == <<"+", "(nil)">>
msg_type_none        == <<"+", "none">>
msg_err              == <<"-", "ERR">>
msg_type_err         == <<"-", "WRONGTYPE">>
msg_nokey_err        == <<"-", "no such key">>
msg_nocmd_err        == <<"-", "no such command">>
msg_syntax_err       == <<"-", "syntax error">>
msg_same_object_err  == <<"-", "same objects">>
msg_out_of_range_err == <<"-", "index out of range">>
msg_not_integer_err  == <<"-", "not an integer">>
msg_not_float_err    == <<"-", "not a float">>
msg_neg_one          == <<":", -1>>
msg_neg_two          == <<":", -2>>
msg_zero             == <<":", 0>>
msg_one              == <<":", 1>>

(* Set by a handler that does not get as far as a reply.                   *)
no_reply             == <<"none">>

(* msg_one or msg_zero.                                                    *)
build_bool(b) == IF b THEN msg_one ELSE msg_zero

build_size(n) == <<":", n>>

(* A double, a managed_bytes, and the value of a string or counter entry.  *)
build_bulk(v) == <<"$", v>>

build_array(q) == <<"*", Len(q), q>>

(* The text of a key's type, which type_name() leaves empty.               *)
build_empty == <<"empty">>

(* A field of a hash, <<kind, value>>: only strings get the tag of a bulk. *)
build_dict_entry(fv) == IF fv[1] = "bytes" THEN <<"$", fv[2]>> ELSE <<"bare", fv[2]>>

(* What the parts of a reply come to, one behind the other.                *)
Joined(parts) ==
    LET upto[i \in 0 .. Len(parts)] == IF i = 0 THEN <<>> ELSE upto[i - 1] \o parts[i]
    IN  upto[Len(parts)]

(* Fields of a hash or members of a set: each is [key, value], or absent.  *)
build_dict_entries(Key, Value, entries) ==
    LET Part(e, v) == IF e.found THEN <<"$", v>> ELSE msg_nil
        Parts(e)   == (IF Key THEN <<Part(e, e.key)>> ELSE <<>>)
                         \o (IF Value THEN <<Part(e, e.value)>> ELSE <<>>)
    IN  IF entries = <<>> THEN msg_nil
        ELSE <<"*", (IF Key /\ Value THEN 2 ELSE 1) * Len(entries), Joined([i \in DOMAIN entries |-> Parts(entries[i])])>>

build_sset_entries(entries, with_score) ==
    LET Parts(e) == <<<<"$", e.m>>>> \o (IF with_score THEN <<<<"$", e.score>>>> ELSE <<>>)
    IN  IF entries = <<>> THEN msg_nil
        ELSE <<"*", (IF with_score THEN 2 ELSE 1) * Len(entries), Joined([i \in DOMAIN entries |-> Parts(entries[i])])>>

(* The values that MGET has found, in their order.                         *)
build_found(q) ==
    IF q = <<>> THEN msg_nil ELSE build_array([i \in DOMAIN q |-> <<"$", q[i]>>])

(* The points of GEORADIUS, in units that the flags choose.                *)
build_points(points, wd, wc, wh) ==
    LET Opt(b, v) == IF b THEN <<v>> ELSE <<>>
        Point(p)  == <<"*", 1 + (IF wd THEN 1 ELSE 0) + (IF wh THEN 1 ELSE 0) + (IF wc THEN 1 ELSE 0),
                       <<<<"$", p.key>>>>
                         \o Opt(wd, <<"$", p.dist>>)
                         \o Opt(wc, <<"*", 2, <<<<"$", p.longitude>>, <<"$", p.latitude>>>>>>)
                         \o Opt(wh, <<"$", p.score>>)>>
    IN  build_array([i \in DOMAIN points |-> Point(points[i])])

(* A client takes the reply for exactly one value: every element that is   *)
(* announced follows, nothing else does.  Replies nest twice at most.      *)
one_value(r) == r[1] \in {"+", "-", ":", "$"}

framed(r, Inner(_)) ==
    one_value(r) \/ (r[1] = "*" /\ r[2] = Len(r[3]) /\ \A i \in DOMAIN r[3] : Inner(r[3][i]))

WellFramed(r) == framed(r, LAMBDA x : framed(x, LAMBDA y : framed(y, one_value)))
=============================================================================
