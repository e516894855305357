-------------------------- MODULE ConnectionProofs --------------------------
(***************************************************************************)
(* Proofs about Connection.  What the client has sent and nobody has       *)
(* dropped yet forms one sequence, Chain: the replies it has received, the *)
(* one being written, the queue, the request being executed, the buffer    *)
(* and the socket.  The fibers move pieces along it; they never exchange   *)
(* two.                                                                    *)
(***************************************************************************)
EXTENDS Connection, SequenceTheorems, TLAPS

\* A leaf that names no prover is one for the SMT solver.
USE SMTT(60)

(* p may be ahead of q: requests in their order, and the parts of one.     *)
Before(p, q) ==
    (p.n # 0 /\ q.n # 0) => (p.n < q.n \/ (p.n = q.n /\ p.part = "head" /\ q.part = "tail"))

InOrder(s) == \A i, j \in DOMAIN s : i < j => Before(s[i], s[j])

Ahead(s, t) == \A i \in DOMAIN s, j \in DOMAIN t : Before(s[i], t[j])

AtMost(s, k) == \A i \in DOMAIN s : s[i].n <= k

Numbered(s) == \A i \in DOMAIN s : s[i] = Piece(i, "full")

Writing == IF rp = "write" THEN <<reply>> ELSE <<>>
Running == IF rq \in {"parsed", "run"} THEN <<req>> ELSE <<>>
Out == answers \o (Writing \o replies)
In == Running \o (buf \o socket)
Chain == Out \o In

(* Types, and what the program counters say.                               *)
Phases ==
    /\ (conn = None) <=> (rq = "none")
    /\ (conn = None) <=> (rp = "none")
    /\ conn # None => client[conn] # "waiting"
    /\ eof => (conn = None \/ client[conn] # "open")
    /\ rq = "run" => Len(replies) < QueueSize
    /\ current = IF conn = None THEN 0 ELSE 1

(* A part that is not the first of its request is never executed.          *)
NoTails ==
    /\ \A i \in DOMAIN answers : answers[i].part # "tail"
    /\ \A i \in DOMAIN replies : replies[i].part # "tail"
    /\ req.part # "tail" /\ reply.part # "tail"

Ordered == InOrder(Chain) /\ AtMost(Chain, asked)

(* Without a split read, the client is sure of more: nothing is missing.   *)
Served == conn # None /\ client[conn] = "open"
Complete ==
    splits = 0 =>
      /\ Numbered(answers)
      /\ Served => Numbered(Out)
      /\ Served /\ rq # "done" => Numbered(Chain) /\ Len(Chain) = asked

ConnectionInv == TypeOK /\ Phases /\ NoTails /\ Ordered /\ Complete

-----------------------------------------------------------------------------
(* Order is a matter of pairs: of a concatenation, of its parts and of     *)
(* each pair of parts.                                                     *)
LEMMA InOrderConcat ==
  ASSUME NEW s \in Seq(Pieces), NEW t \in Seq(Pieces)
  PROVE  InOrder(s \o t) <=> InOrder(s) /\ InOrder(t) /\ Ahead(s, t)
<1>. DEFINE u == s \o t
            m == Len(s)
            l == Len(t)
<1>1. /\ m \in Nat /\ l \in Nat
      /\ DOMAIN s = 1 .. m /\ DOMAIN t = 1 .. l
  BY LenProperties
<1>2. /\ DOMAIN u = 1 .. m + l
      /\ \A i \in 1 .. m : u[i] = s[i]
      /\ \A i \in 1 .. l : u[m + i] = t[i]
  <2>1. /\ u \in Seq(Pieces) /\ Len(u) = m + l
        /\ \A i \in 1 .. m + l : u[i] = IF i <= m THEN s[i] ELSE t[i - m]
    BY ConcatProperties
  <2>2. DOMAIN u = 1 .. m + l
    BY <2>1, LenProperties
  <2>. HIDE DEF u, m, l
  <2>. QED  BY <1>1, <2>1, <2>2
<1>. HIDE DEF u, m, l
<1>3. ASSUME InOrder(u)  PROVE InOrder(s) /\ InOrder(t) /\ Ahead(s, t)
  <2>1. \A i, j \in 1 .. m + l : i < j => Before(u[i], u[j])
    BY <1>2, <1>3 DEF InOrder
  <2>2. InOrder(s)
    BY <1>1, <1>2, <2>1 DEF InOrder
  <2>3. ASSUME NEW i \in 1 .. l, NEW j \in 1 .. l, i < j  PROVE Before(t[i], t[j])
    <3>1. Before(u[m + i], u[m + j])
      BY <1>1, <2>1, <2>3
    <3>. QED  BY <1>2, <3>1
  <2>4. ASSUME NEW i \in 1 .. m, NEW j \in 1 .. l  PROVE Before(s[i], t[j])
    <3>1. Before(u[i], u[m + j])
      BY <1>1, <2>1
    <3>. QED  BY <1>2, <3>1
  <2>. QED  BY <1>1, <2>2, <2>3, <2>4 DEF InOrder, Ahead
<1>4. ASSUME InOrder(s), InOrder(t), Ahead(s, t)  PROVE InOrder(u)
  <2>1. SUFFICES ASSUME NEW i \in 1 .. m + l, NEW j \in 1 .. m + l, i < j
                 PROVE  Before(u[i], u[j])
    BY <1>2 DEF InOrder
  <2>2. CASE j <= m
    BY <1>1, <1>2, <1>4, <2>1, <2>2 DEF InOrder
  <2>3. CASE i <= m /\ ~(j <= m)
    <3>1. j - m \in 1 .. l /\ m + (j - m) = j
      BY <1>1, <2>3
    <3>2. u[j] = t[j - m] /\ u[i] = s[i]
      BY <1>1, <1>2, <2>3, <3>1
    <3>3. i \in DOMAIN s
      BY <1>1, <2>3
    <3>. QED  BY <1>1, <1>4, <3>1, <3>2, <3>3 DEF Ahead
  <2>4. CASE ~(i <= m)
    <3>1. /\ j - m \in 1 .. l /\ m + (j - m) = j
          /\ i - m \in 1 .. l /\ m + (i - m) = i
          /\ i - m < j - m
      BY <1>1, <2>1, <2>4
    <3>2. u[j] = t[j - m] /\ u[i] = t[i - m]
      BY <1>2, <3>1
    <3>. QED  BY <1>1, <1>4, <3>1, <3>2 DEF InOrder
  <2>. QED  BY <1>1, <2>2, <2>3, <2>4
<1>. QED  BY <1>3, <1>4 DEF u

(* The elements of a concatenation are those of its parts.                 *)
ElementsOf(u, s, t) ==
    /\ \A i \in DOMAIN u : (\E k \in DOMAIN s : u[i] = s[k]) \/ (\E k \in DOMAIN t : u[i] = t[k])
    /\ \A k \in DOMAIN s : \E i \in DOMAIN u : u[i] = s[k]
    /\ \A k \in DOMAIN t : \E i \in DOMAIN u : u[i] = t[k]

LEMMA ConcatElements ==
  ASSUME NEW S, NEW s \in Seq(S), NEW t \in Seq(S)
  PROVE  ElementsOf(s \o t, s, t)
<1>. DEFINE u == s \o t
            m == Len(s)
            l == Len(t)
<1>1. /\ m \in Nat /\ l \in Nat
      /\ DOMAIN s = 1 .. m /\ DOMAIN t = 1 .. l
  BY LenProperties
<1>2. /\ u \in Seq(S) /\ Len(u) = m + l
      /\ \A i \in 1 .. m + l : u[i] = IF i <= m THEN s[i] ELSE t[i - m]
  BY ConcatProperties
<1>3. DOMAIN u = 1 .. m + l
  BY <1>2, LenProperties
<1>. HIDE DEF u, m, l
<1>4. ASSUME NEW i \in 1 .. m + l
      PROVE  (\E k \in 1 .. m : u[i] = s[k]) \/ (\E k \in 1 .. l : u[i] = t[k])
  <2>1. CASE i <= m
    BY <1>1, <1>2, <2>1
  <2>2. CASE ~(i <= m)
    <3>1. i - m \in 1 .. l
      BY <1>1, <2>2
    <3>. QED  BY <1>2, <2>2, <3>1
  <2>. QED  BY <2>1, <2>2
<1>5. ASSUME NEW k \in 1 .. m  PROVE \E i \in 1 .. m + l : u[i] = s[k]
  <2>1. k \in 1 .. m + l /\ u[k] = s[k]
    BY <1>1, <1>2
  <2>. QED  BY <2>1
<1>6. ASSUME NEW k \in 1 .. l  PROVE \E i \in 1 .. m + l : u[i] = t[k]
  <2>1. m + k \in 1 .. m + l /\ ~(m + k <= m) /\ m + k - m = k
    BY <1>1
  <2>2. u[m + k] = t[k]
    BY <1>1, <1>2, <2>1
  <2>. QED  BY <2>1, <2>2
<1>. QED  BY <1>1, <1>3, <1>4, <1>5, <1>6, ZenonT(60) DEF ElementsOf, u

(* What is ahead of a concatenation, or behind one.                        *)
LEMMA AheadConcat ==
  ASSUME NEW s \in Seq(Pieces), NEW t \in Seq(Pieces), NEW u \in Seq(Pieces)
  PROVE  /\ Ahead(u, s \o t) <=> Ahead(u, s) /\ Ahead(u, t)
         /\ Ahead(s \o t, u) <=> Ahead(s, u) /\ Ahead(t, u)
<1>1. ElementsOf(s \o t, s, t)
  BY ConcatElements
<1>2. ASSUME NEW p  PROVE
        /\ (\A i \in DOMAIN (s \o t) : Before(p, (s \o t)[i]))
              <=> (\A i \in DOMAIN s : Before(p, s[i])) /\ (\A i \in DOMAIN t : Before(p, t[i]))
        /\ (\A i \in DOMAIN (s \o t) : Before((s \o t)[i], p))
              <=> (\A i \in DOMAIN s : Before(s[i], p)) /\ (\A i \in DOMAIN t : Before(t[i], p))
  BY <1>1, ZenonT(60) DEF ElementsOf
<1>. QED  BY <1>2, ZenonT(60) DEF Ahead

LEMMA AtMostConcat ==
  ASSUME NEW s \in Seq(Pieces), NEW t \in Seq(Pieces), NEW k
  PROVE  AtMost(s \o t, k) <=> AtMost(s, k) /\ AtMost(t, k)
<1>1. ElementsOf(s \o t, s, t)
  BY ConcatElements
<1>. QED  BY <1>1, ZenonT(60) DEF ElementsOf, AtMost

(* One piece, or none.                                                     *)
LEMMA SmallOrders ==
  ASSUME NEW p \in Pieces, NEW s \in Seq(Pieces)
  PROVE  /\ <<p>> \in Seq(Pieces) /\ Len(<<p>>) = 1
         /\ <<>> \in Seq(Pieces) /\ Len(<<>>) = 0
         /\ InOrder(<<p>>) /\ InOrder(<<>>)
         /\ Ahead(<<p>>, s) <=> \A i \in DOMAIN s : Before(p, s[i])
         /\ Ahead(s, <<p>>) <=> \A i \in DOMAIN s : Before(s[i], p)
         /\ \A k : AtMost(<<p>>, k) <=> p.n <= k
<1>1. /\ <<p>> \in Seq(Pieces) /\ Len(<<p>>) = 1 /\ DOMAIN <<p>> = {1} /\ <<p>>[1] = p
      /\ <<>> \in Seq(Pieces) /\ Len(<<>>) = 0 /\ DOMAIN <<>> = {}
  <2>1. 1 .. 1 = {1} /\ 1 .. 0 = {}
    OBVIOUS
  <2>. QED  BY <2>1, LenProperties
<1>2. InOrder(<<p>>) /\ InOrder(<<>>)
  BY <1>1 DEF InOrder
<1>3. /\ Ahead(<<p>>, s) <=> \A i \in DOMAIN s : Before(p, s[i])
      /\ Ahead(s, <<p>>) <=> \A i \in DOMAIN s : Before(s[i], p)
  BY <1>1, ZenonT(60) DEF Ahead
<1>4. \A k : AtMost(<<p>>, k) <=> p.n <= k
  BY <1>1, ZenonT(60) DEF AtMost
<1>. QED  BY <1>1, <1>2, <1>3, <1>4

(* A sequence without its middle is still in order.                        *)
LEMMA DropMiddle ==
  ASSUME NEW s \in Seq(Pieces), NEW t \in Seq(Pieces), NEW u \in Seq(Pieces), NEW k,
         InOrder(s \o (t \o u)), AtMost(s \o (t \o u), k)
  PROVE  InOrder(s \o u) /\ AtMost(s \o u, k)
<1>1. t \o u \in Seq(Pieces)
  BY ConcatProperties
<1>2. InOrder(s) /\ InOrder(u) /\ Ahead(s, u)
  <2>1. InOrder(s) /\ InOrder(t \o u) /\ Ahead(s, t \o u)
    BY <1>1, InOrderConcat, ZenonT(60)
  <2>. QED  BY <2>1, InOrderConcat, AheadConcat
<1>3. AtMost(s, k) /\ AtMost(u, k)
  <2>1. AtMost(s, k) /\ AtMost(t \o u, k)
    BY <1>1, AtMostConcat, ZenonT(60)
  <2>. QED  BY <2>1, AtMostConcat, ZenonT(60)
<1>. QED  BY <1>2, <1>3, InOrderConcat, AtMostConcat

(* So is one whose middle has become an error, which is no request.        *)
LEMMA ErrorMiddle ==
  ASSUME NEW s \in Seq(Pieces), NEW u \in Seq(Pieces), NEW p \in Pieces, p.n = 0, NEW k \in Nat,
         InOrder(s \o u), AtMost(s \o u, k)
  PROVE  InOrder(s \o (<<p>> \o u)) /\ AtMost(s \o (<<p>> \o u), k)
<1>1. <<p>> \in Seq(Pieces) /\ <<p>> \o u \in Seq(Pieces)
  BY SmallOrders, ConcatProperties
<1>2. InOrder(s) /\ InOrder(u) /\ Ahead(s, u) /\ InOrder(<<p>>)
  BY InOrderConcat, SmallOrders
<1>3. Ahead(s, <<p>>) /\ Ahead(<<p>>, u)
  BY SmallOrders DEF Before
<1>4. InOrder(<<p>> \o u) /\ Ahead(s, <<p>> \o u)
  BY <1>1, <1>2, <1>3, InOrderConcat, AheadConcat, ZenonT(60)
<1>5. AtMost(s, k) /\ AtMost(u, k) /\ AtMost(<<p>>, k)
  BY AtMostConcat, SmallOrders
<1>. QED  BY <1>1, <1>2, <1>4, <1>5, InOrderConcat, AtMostConcat, ZenonT(60)

(* The pairs that order in a sequence of four or five parts comes to.      *)
LEMMA OrderOfFour ==
  ASSUME NEW s \in Seq(Pieces), NEW t \in Seq(Pieces), NEW m \in Seq(Pieces), NEW u \in Seq(Pieces), NEW k,
         InOrder(s \o (t \o (m \o u))), AtMost(s \o (t \o (m \o u)), k)
  PROVE  /\ InOrder(s) /\ InOrder(t) /\ InOrder(m) /\ InOrder(u)
         /\ Ahead(s, t) /\ Ahead(s, m) /\ Ahead(s, u)
         /\ Ahead(t, m) /\ Ahead(t, u) /\ Ahead(m, u)
         /\ AtMost(s, k) /\ AtMost(t, k) /\ AtMost(m, k) /\ AtMost(u, k)
<1>. DEFINE v == m \o u
            w == t \o v
<1>1. v \in Seq(Pieces)
  BY ConcatProperties
<1>2. /\ InOrder(v) <=> InOrder(m) /\ InOrder(u) /\ Ahead(m, u)
      /\ \A x \in Seq(Pieces) : Ahead(x, v) <=> Ahead(x, m) /\ Ahead(x, u)
      /\ AtMost(v, k) <=> AtMost(m, k) /\ AtMost(u, k)
  BY InOrderConcat, AheadConcat, AtMostConcat
<1>. HIDE DEF v
<1>3. w \in Seq(Pieces)
  BY <1>1, ConcatProperties
<1>4. /\ InOrder(w) <=> InOrder(t) /\ InOrder(v) /\ Ahead(t, v)
      /\ \A x \in Seq(Pieces) : Ahead(x, w) <=> Ahead(x, t) /\ Ahead(x, v)
      /\ AtMost(w, k) <=> AtMost(t, k) /\ AtMost(v, k)
  BY <1>1, InOrderConcat, AheadConcat, AtMostConcat
<1>5. InOrder(s \o w) /\ AtMost(s \o w, k)
  BY DEF v
<1>. HIDE DEF w
<1>6. InOrder(s) /\ InOrder(w) /\ Ahead(s, w) /\ AtMost(s, k) /\ AtMost(w, k)
  BY <1>3, <1>5, InOrderConcat, AtMostConcat
<1>. QED  BY <1>2, <1>4, <1>6

LEMMA OrderOfFive ==
  ASSUME NEW s \in Seq(Pieces), NEW t \in Seq(Pieces), NEW h \in Seq(Pieces), NEW l \in Seq(Pieces),
         NEW u \in Seq(Pieces), NEW k,
         InOrder(s) /\ InOrder(t) /\ InOrder(h) /\ InOrder(l) /\ InOrder(u),
         Ahead(s, t) /\ Ahead(s, h) /\ Ahead(s, l) /\ Ahead(s, u),
         Ahead(t, h) /\ Ahead(t, l) /\ Ahead(t, u),
         Ahead(h, l) /\ Ahead(h, u) /\ Ahead(l, u),
         AtMost(s, k) /\ AtMost(t, k) /\ AtMost(h, k) /\ AtMost(l, k) /\ AtMost(u, k)
  PROVE  InOrder(s \o ((t \o h) \o (l \o u))) /\ AtMost(s \o ((t \o h) \o (l \o u)), k)
<1>. DEFINE a == t \o h
            b == l \o u
            v == a \o b
<1>1. a \in Seq(Pieces) /\ b \in Seq(Pieces)
  BY ConcatProperties
<1>2. InOrder(a) /\ Ahead(s, a) /\ AtMost(a, k)
  BY InOrderConcat, AheadConcat, AtMostConcat
<1>3. InOrder(b) /\ Ahead(s, b) /\ Ahead(t, b) /\ Ahead(h, b) /\ AtMost(b, k)
  BY InOrderConcat, AheadConcat, AtMostConcat
<1>. HIDE DEF b
<1>4. Ahead(a, b)
  BY <1>1, <1>3, AheadConcat
<1>. HIDE DEF a
<1>5. v \in Seq(Pieces)
  BY <1>1, ConcatProperties
<1>6. InOrder(v) /\ Ahead(s, v) /\ AtMost(v, k)
  BY <1>1, <1>2, <1>3, <1>4, InOrderConcat, AheadConcat, AtMostConcat
<1>. HIDE DEF v
<1>7. InOrder(s \o v) /\ AtMost(s \o v, k)
  BY <1>5, <1>6, InOrderConcat, AtMostConcat
<1>. QED  BY <1>7 DEF v, a, b

(* A read that ends within a request puts its two parts in its place.      *)
LEMMA SplitMiddle ==
  ASSUME NEW s \in Seq(Pieces), NEW t \in Seq(Pieces), NEW u \in Seq(Pieces), NEW k,
         NEW p \in Pieces, p.part = "full",
         NEW h \in Pieces, h = Piece(p.n, "head"), NEW l \in Pieces, l = Piece(p.n, "tail"),
         InOrder(s \o (t \o (<<p>> \o u))), AtMost(s \o (t \o (<<p>> \o u)), k)
  PROVE  /\ InOrder(s \o ((t \o <<h>>) \o (<<l>> \o u)))
         /\ AtMost(s \o ((t \o <<h>>) \o (<<l>> \o u)), k)
<1>1. h.n = p.n /\ l.n = p.n /\ h.part = "head" /\ l.part = "tail" /\ p.n \in Nat
  BY ConnectionAssumption DEF Pieces, Piece
<1>2. <<h>> \in Seq(Pieces) /\ <<l>> \in Seq(Pieces) /\ <<p>> \in Seq(Pieces)
  OBVIOUS
<1>3. /\ InOrder(s) /\ InOrder(t) /\ InOrder(u)
      /\ Ahead(s, t) /\ Ahead(s, <<p>>) /\ Ahead(s, u)
      /\ Ahead(t, <<p>>) /\ Ahead(t, u) /\ Ahead(<<p>>, u)
      /\ AtMost(s, k) /\ AtMost(t, k) /\ AtMost(<<p>>, k) /\ AtMost(u, k)
  BY <1>2, OrderOfFour, ZenonT(60)
<1>4. /\ \A q \in Pieces : Before(q, p) => Before(q, h) /\ Before(q, l)
      /\ \A q \in Pieces : Before(p, q) => Before(h, q) /\ Before(l, q)
      /\ Before(h, l)
  BY <1>1 DEF Before, Pieces
<1>5. \A q \in Seq(Pieces) : \A i \in DOMAIN q : q[i] \in Pieces
  BY LenProperties, ElementOfSeq
<1>6. /\ \A i \in DOMAIN s : Before(s[i], h) /\ Before(s[i], l)
      /\ \A i \in DOMAIN t : Before(t[i], h) /\ Before(t[i], l)
      /\ \A i \in DOMAIN u : Before(h, u[i]) /\ Before(l, u[i])
  <2>1. /\ \A i \in DOMAIN s : Before(s[i], p)
        /\ \A i \in DOMAIN t : Before(t[i], p)
        /\ \A i \in DOMAIN u : Before(p, u[i])
    BY <1>3, SmallOrders
  <2>. QED  BY <1>4, <1>5, <2>1, ZenonT(60)
<1>7. Ahead(<<h>>, <<l>>)
  <2>1. (\A i \in DOMAIN <<h>> : <<h>>[i] = h) /\ (\A i \in DOMAIN <<l>> : <<l>>[i] = l)
    OBVIOUS
  <2>. QED  BY <1>4, <2>1, ZenonT(60) DEF Ahead
<1>8. /\ Ahead(s, <<h>>) /\ Ahead(s, <<l>>) /\ Ahead(t, <<h>>) /\ Ahead(t, <<l>>)
      /\ Ahead(<<h>>, u) /\ Ahead(<<l>>, u)
  BY <1>6, SmallOrders
<1>9. InOrder(<<h>>) /\ InOrder(<<l>>) /\ AtMost(<<h>>, k) /\ AtMost(<<l>>, k)
  BY <1>1, <1>3, SmallOrders
<1>. QED  BY <1>2, <1>3, <1>7, <1>8, <1>9, OrderOfFive, ZenonT(60)

(* The same, of the sequences of one piece.                                *)
LEMMA SplitOne ==
  ASSUME NEW s \in Seq(Pieces), NEW t \in Seq(Pieces), NEW u \in Seq(Pieces), NEW k,
         NEW p \in Pieces, p.part = "full",
         NEW hs, hs = <<Piece(p.n, "head")>>, NEW ls, ls = <<Piece(p.n, "tail")>>, NEW ps, ps = <<p>>,
         InOrder(s \o (t \o (ps \o u))), AtMost(s \o (t \o (ps \o u)), k)
  PROVE  /\ InOrder(s \o ((t \o hs) \o (ls \o u)))
         /\ AtMost(s \o ((t \o hs) \o (ls \o u)), k)
<1>1. Piece(p.n, "head") \in Pieces /\ Piece(p.n, "tail") \in Pieces
  BY DEF Piece, Pieces
<1>. QED  BY <1>1, SplitMiddle

-----------------------------------------------------------------------------
(* The parts of the chain are sequences of pieces.                         *)
LEMMA ChainTypes ==
  ASSUME TypeOK
  PROVE  /\ Writing \in Seq(Pieces) /\ Running \in Seq(Pieces)
         /\ answers \in Seq(Pieces) /\ replies \in Seq(Pieces)
         /\ buf \in Seq(Pieces) /\ socket \in Seq(Pieces)
         /\ Writing \o replies \in Seq(Pieces) /\ buf \o socket \in Seq(Pieces)
         /\ Out \in Seq(Pieces) /\ In \in Seq(Pieces) /\ Chain \in Seq(Pieces)
<1>1. Writing \in Seq(Pieces) /\ Running \in Seq(Pieces)
  BY DEF TypeOK, Writing, Running
<1>2. answers \in Seq(Pieces) /\ replies \in Seq(Pieces) /\ buf \in Seq(Pieces) /\ socket \in Seq(Pieces)
  BY DEF TypeOK
<1>3. Writing \o replies \in Seq(Pieces) /\ buf \o socket \in Seq(Pieces)
  BY <1>1, <1>2, ConcatProperties
<1>4. Out \in Seq(Pieces) /\ In \in Seq(Pieces)
  BY <1>1, <1>2, <1>3, ConcatProperties DEF Out, In
<1>5. Chain \in Seq(Pieces)
  BY <1>4, ConcatProperties DEF Chain
<1>. QED  BY <1>1, <1>2, <1>3, <1>4, <1>5

(* A prefix of a numbered sequence is numbered, and the next number goes on. *)
LEMMA NumberedConcat ==
  ASSUME NEW s \in Seq(Pieces), NEW t \in Seq(Pieces)
  PROVE  /\ Numbered(s \o t) => Numbered(s)
         /\ Numbered(s) /\ t = <<Piece(Len(s) + 1, "full")>> => Numbered(s \o t)
<1>1. /\ Len(s) \in Nat /\ Len(t) \in Nat
      /\ DOMAIN s = 1 .. Len(s) /\ DOMAIN (s \o t) = 1 .. Len(s) + Len(t)
      /\ \A i \in 1 .. Len(s) + Len(t) : (s \o t)[i] = IF i <= Len(s) THEN s[i] ELSE t[i - Len(s)]
  BY LenProperties, ConcatProperties
<1>2. ASSUME Numbered(s \o t)  PROVE Numbered(s)
  <2>1. \A i \in 1 .. Len(s) : i \in 1 .. Len(s) + Len(t) /\ (s \o t)[i] = s[i]
    BY <1>1
  <2>. QED  BY <1>1, <1>2, <2>1, ZenonT(60) DEF Numbered
<1>3. ASSUME Numbered(s), t = <<Piece(Len(s) + 1, "full")>>  PROVE Numbered(s \o t)
  <2>1. Len(t) = 1 /\ t[1] = Piece(Len(s) + 1, "full")
    BY <1>3
  <2>2. ASSUME NEW i \in 1 .. Len(s) + Len(t)  PROVE (s \o t)[i] = Piece(i, "full")
    <3>1. CASE i <= Len(s)
      BY <1>1, <1>3, <3>1 DEF Numbered
    <3>2. CASE ~(i <= Len(s))
      <4>1. i = Len(s) + 1 /\ i - Len(s) = 1
        BY <1>1, <2>1, <3>2
      <4>. QED  BY <1>1, <2>1, <3>2, <4>1
    <3>. QED  BY <3>1, <3>2
  <2>. QED  BY <1>1, <2>2, ZenonT(60) DEF Numbered
<1>. QED  BY <1>2, <1>3

(* Steps that leave the chain and the number of requests as they are.      *)
LEMMA ChainKept ==
  ASSUME Ordered, Chain' = Chain, asked' = asked
  PROVE  Ordered'
BY DEF Ordered

(* Types and program counters.                                             *)
LEMMA PhasesStep ==
  ASSUME TypeOK, Phases, NoTails, [Next]_vars
  PROVE  TypeOK' /\ Phases' /\ NoTails'
<1>. USE ConnectionAssumption
<1>a. \A s \in Seq(Pieces) : Len(s) \in Nat /\ DOMAIN s = 1 .. Len(s)
  BY LenProperties
<1>1. ASSUME NEW c \in Clients, send(c)  PROVE TypeOK' /\ Phases' /\ NoTails'
  <2>1. Piece(asked + 1, "full") \in Pieces
    BY <1>1 DEF TypeOK, send, Piece, Pieces
  <2>2. socket' \in Seq(Pieces)
    BY <1>1, <2>1, AppendProperties DEF TypeOK, send
  <2>. QED  BY <1>1, <2>2 DEF TypeOK, Phases, NoTails, send, counters, fibers
<1>2. ASSUME NEW c \in Clients, close(c)  PROVE TypeOK' /\ Phases' /\ NoTails'
  BY <1>2 DEF TypeOK, Phases, NoTails, close, counters, input, fibers
<1>3. ASSUME NEW c \in Clients, accept(c)  PROVE TypeOK' /\ Phases' /\ NoTails'
  <2>1. NoRequest \in Pieces /\ NoRequest.part = "none"
    BY DEF NoRequest, Piece, Pieces
  <2>2. <<>> \in Seq(Pieces) /\ DOMAIN <<>> = {}
    OBVIOUS
  <2>3. client' \in [Clients -> {"waiting", "open", "closed", "reset"}] /\ client'[c] = "open"
    BY <1>3 DEF TypeOK, accept
  <2>4. TypeOK'
    <3>1. /\ asked' \in 0 .. MaxRequests /\ splits' \in 0 .. MaxSplits
          /\ current' \in Nat /\ total' \in Nat
      BY <1>3 DEF TypeOK, accept
    <3>2. /\ answers' \in Seq(Pieces) /\ socket' \in Seq(Pieces) /\ buf' \in Seq(Pieces)
          /\ replies' \in Seq(Pieces) /\ req' \in Pieces /\ reply' \in Pieces
      BY <1>3, <2>1, <2>2 DEF accept
    <3>3. /\ conn' \in Clients \cup {None} /\ eof' \in BOOLEAN
          /\ rq' \in {"none", "top", "read", "parsed", "run", "done"}
          /\ rp' \in {"none", "pop", "write", "done"}
      BY <1>3, ZenonT(60) DEF accept
    <3>. QED  BY <2>3, <3>1, <3>2, <3>3, ZenonT(60) DEF TypeOK, Pieces
  <2>5. conn = None /\ conn' = c /\ c # None /\ current = 0 /\ current' = current + 1 /\ eof' = FALSE
    BY <1>3 DEF Phases, accept
  <2>6. Phases'
    BY <1>3, <2>3, <2>5 DEF Phases, accept
  <2>7. NoTails'
    BY <1>3, <2>1, <2>2, ZenonT(60) DEF NoTails, accept
  <2>. QED  BY <2>4, <2>6, <2>7
<1>4. CASE processed
  BY <1>4 DEF TypeOK, Phases, NoTails, processed, clientVars, input
<1>5. CASE not_full
  BY <1>5 DEF TypeOK, Phases, NoTails, not_full, clientVars, counters, input
<1>6. CASE read
  <2>1. /\ conn \in Clients /\ socket \in Seq(Pieces)
        /\ UNCHANGED <<clientVars, conn, counters, req, replies, rp, reply>>
    BY <1>6 DEF read, TypeOK, Phases
  <2>2. ASSUME NEW k \in 1 .. Len(socket)
        PROVE  /\ k \in Nat /\ Len(socket) \in Nat /\ socket[k] \in Pieces
               /\ SubSeq(socket, 1, k) \in Seq(Pieces)
               /\ SubSeq(socket, 1, k - 1) \in Seq(Pieces)
               /\ SubSeq(socket, k + 1, Len(socket)) \in Seq(Pieces)
               /\ \A part \in {"head", "tail"} : Piece(socket[k].n, part) \in Pieces
    <3>1. /\ k \in Nat /\ Len(socket) \in Nat
          /\ \A i \in 1 .. Len(socket) : socket[i] \in Pieces
      BY <2>1, <1>a, ElementOfSeq
    <3>2. /\ \A i \in 1 .. k : socket[i] \in Pieces
          /\ \A i \in 1 .. k - 1 : socket[i] \in Pieces
          /\ \A i \in k + 1 .. Len(socket) : socket[i] \in Pieces
      BY <3>1
    <3>. QED  BY <3>1, <3>2, SubSeqProperties DEF Piece, Pieces
  <2>3. buf' \in Seq(Pieces) /\ socket' \in Seq(Pieces) /\ splits' \in 0 .. MaxSplits /\ eof' \in BOOLEAN
    <3>1. CASE UNCHANGED <<buf, socket, splits>>
      BY <1>6, <3>1, ZenonT(60) DEF read, TypeOK, input
    <3>2. ASSUME NEW k \in 1 .. Len(socket), buf' = SubSeq(socket, 1, k),
                 socket' = SubSeq(socket, k + 1, Len(socket)), UNCHANGED splits, UNCHANGED eof
          PROVE  buf' \in Seq(Pieces) /\ socket' \in Seq(Pieces) /\ splits' \in 0 .. MaxSplits /\ eof' \in BOOLEAN
      BY <2>2, <3>2 DEF TypeOK
    <3>3. ASSUME NEW k \in 1 .. Len(socket), splits < MaxSplits, splits' = splits + 1, UNCHANGED eof,
                 buf' = Append(SubSeq(socket, 1, k - 1), Piece(socket[k].n, "head")),
                 socket' = <<Piece(socket[k].n, "tail")>> \o SubSeq(socket, k + 1, Len(socket))
          PROVE  buf' \in Seq(Pieces) /\ socket' \in Seq(Pieces) /\ splits' \in 0 .. MaxSplits /\ eof' \in BOOLEAN
      <4>1. buf' \in Seq(Pieces)
        BY <2>2, <3>3, AppendProperties
      <4>2. <<Piece(socket[k].n, "tail")>> \in Seq(Pieces)
        BY <2>2
      <4>3. socket' \in Seq(Pieces)
        BY <2>2, <3>3, <4>2, ConcatProperties
      <4>. QED  BY <3>3, <4>1, <4>3 DEF TypeOK
    <3>. QED  BY <1>6, <3>1, <3>2, <3>3, ZenonT(60) DEF read, input
  <2>4. rq' \in {"read", "done"} /\ (eof' => (eof \/ client[conn] = "closed"))
    BY <1>6 DEF read, input
  <2>5. rq = "read"
    BY <1>6 DEF read
  <2>. QED  BY <2>1, <2>3, <2>4, <2>5 DEF TypeOK, Phases, NoTails, clientVars, counters
<1>7. CASE parse
  <2>1. req' \in Pieces /\ buf' \in Seq(Pieces) /\ req'.part # "tail"
    <3>1. CASE buf = <<>> \/ Head(buf).part = "tail"
      <4>1. req' = Piece(0, "error") /\ buf' = <<>>
        BY <1>7, <3>1, ZenonT(60) DEF parse
      <4>. QED  BY <4>1 DEF Piece, Pieces
    <3>2. CASE ~(buf = <<>> \/ Head(buf).part = "tail")
      <4>1. req' = Head(buf) /\ buf' = Tail(buf) /\ buf # <<>> /\ Head(buf).part # "tail"
        BY <1>7, <3>2, ZenonT(60) DEF parse
      <4>2. buf \in Seq(Pieces)
        BY DEF TypeOK
      <4>. QED  BY <4>1, <4>2, HeadTailProperties, ZenonT(60)
    <3>. QED  BY <3>1, <3>2
  <2>. QED  BY <1>7, <2>1 DEF TypeOK, Phases, NoTails, parse, clientVars, counters
<1>8. CASE handle
  BY <1>8 DEF TypeOK, Phases, NoTails, handle, clientVars, counters, input
<1>9. CASE do_handle_one
  <2>1. replies' = Append(replies, req) \/ replies' = replies
    BY <1>9 DEF do_handle_one, push
  <2>2. /\ replies' \in Seq(Pieces)
        /\ \A i \in DOMAIN (replies') : replies'[i].part # "tail"
    <3>1. CASE replies' = replies
      BY <3>1 DEF TypeOK, NoTails
    <3>2. CASE replies' = Append(replies, req)
      <4>1. /\ replies' \in Seq(Pieces) /\ Len(replies') = Len(replies) + 1 /\ Len(replies) \in Nat
            /\ \A i \in 1 .. Len(replies) : replies'[i] = replies[i]
            /\ replies'[Len(replies) + 1] = req
        BY <1>a, <3>2, AppendProperties DEF TypeOK
      <4>2. DOMAIN replies = 1 .. Len(replies) /\ DOMAIN (replies') = 1 .. Len(replies) + 1
        BY <1>a, <4>1 DEF TypeOK
      <4>. QED  BY <4>1, <4>2 DEF NoTails
    <3>. QED  BY <2>1, <3>1, <3>2
  <2>. QED  BY <1>9, <2>2 DEF TypeOK, Phases, NoTails, do_handle_one, clientVars, counters, input
<1>10. CASE pop
  <2>1. /\ replies' \in Seq(Pieces) /\ reply' \in Pieces /\ reply'.part # "tail"
        /\ Len(replies') < Len(replies)
        /\ \A i \in DOMAIN (replies') : replies'[i].part # "tail"
    <3>1. /\ replies \in Seq(Pieces) /\ replies # <<>> /\ reply' = Head(replies) /\ replies' = Tail(replies)
      BY <1>10 DEF pop, TypeOK
    <3>2. /\ Head(replies) \in Pieces /\ Tail(replies) \in Seq(Pieces)
          /\ Len(Tail(replies)) = Len(replies) - 1 /\ Len(replies) \in Nat /\ Len(replies) # 0
          /\ \A i \in 1 .. Len(Tail(replies)) : Tail(replies)[i] = replies[i + 1]
      BY <3>1, <1>a, HeadTailProperties, EmptySeq
    <3>3. Head(replies) = replies[1] /\ 1 \in DOMAIN replies
      BY <3>1, <3>2, <1>a
    <3>4. DOMAIN replies = 1 .. Len(replies) /\ DOMAIN (replies') = 1 .. Len(replies) - 1
      BY <3>1, <3>2, <1>a
    <3>. QED  BY <3>1, <3>2, <3>3, <3>4 DEF NoTails
  <2>2. Len(replies') \in Nat /\ Len(replies) \in Nat /\ QueueSize \in Nat
    BY <2>1, <1>a DEF TypeOK
  <2>. QED  BY <1>10, <2>1, <2>2 DEF TypeOK, Phases, NoTails, pop, clientVars, counters, input
<1>11. CASE write
  <2>1. /\ answers' \in Seq(Pieces)
        /\ \A i \in DOMAIN (answers') : answers'[i].part # "tail"
    <3>1. CASE answers' = answers
      BY <3>1 DEF TypeOK, NoTails
    <3>2. CASE answers' = Append(answers, reply)
      <4>1. /\ answers' \in Seq(Pieces) /\ Len(answers') = Len(answers) + 1 /\ Len(answers) \in Nat
            /\ \A i \in 1 .. Len(answers) : answers'[i] = answers[i]
            /\ answers'[Len(answers) + 1] = reply
        BY <1>a, <3>2, AppendProperties DEF TypeOK
      <4>2. DOMAIN answers = 1 .. Len(answers) /\ DOMAIN (answers') = 1 .. Len(answers) + 1
        BY <1>a, <4>1 DEF TypeOK
      <4>. QED  BY <4>1, <4>2 DEF NoTails
    <3>. QED  BY <1>11, <3>1, <3>2 DEF write
  <2>. QED  BY <1>11, <2>1 DEF TypeOK, Phases, NoTails, write, counters, input
<1>12. CASE UNCHANGED vars
  BY <1>12 DEF TypeOK, Phases, NoTails, vars, clientVars, counters, input, fibers
<1>. QED  BY <1>1, <1>2, <1>3, <1>4, <1>5, <1>6, <1>7, <1>8, <1>9, <1>10, <1>11, <1>12 DEF Next, Server

-----------------------------------------------------------------------------
(* What each step does to the chain.                                       *)

(* A reply moves from the queue to the fiber that writes it.               *)
LEMMA PopKeepsOut ==
  ASSUME TypeOK, pop
  PROVE  Out' = Out /\ In' = In
<1>1. /\ replies \in Seq(Pieces) /\ replies # <<>>
      /\ reply' = Head(replies) /\ replies' = Tail(replies)
      /\ Writing = <<>> /\ Writing' = <<reply'>> /\ answers' = answers
  BY DEF TypeOK, pop, Writing, clientVars
<1>2. <<Head(replies)>> \o Tail(replies) = replies
  <2>1. Len(replies) \in Nat \ {0}
    BY <1>1, EmptySeq
  <2>2. SubSeq(replies, 1, Len(replies)) = <<replies[1]>> \o SubSeq(replies, 2, Len(replies))
    BY <1>1, <2>1, SubSeqRecursiveFirst
  <2>3. Head(replies) = replies[1]
    BY <1>1
  <2>. QED  BY <1>1, <2>2, <2>3, SubSeqFull, TailIsSubSeq
<1>3. Writing \o replies = replies
  BY <1>1, ConcatEmptySeq
<1>4. In' = In
  BY DEF pop, In, Running, input
<1>. QED  BY <1>1, <1>2, <1>3, <1>4 DEF Out

(* A reply that the client receives moves to the answers.                  *)
LEMMA WriteKeepsOut ==
  ASSUME TypeOK, rp = "write", answers' = Append(answers, reply), rp' # "write", UNCHANGED replies
  PROVE  Out' = Out
<1>1. /\ answers \in Seq(Pieces) /\ replies \in Seq(Pieces) /\ reply \in Pieces /\ <<reply>> \in Seq(Pieces)
      /\ Writing = <<reply>> /\ Writing' = <<>>
  BY DEF TypeOK, Writing
<1>2. Out' = (answers \o <<reply>>) \o replies
  <2>1. <<>> \o replies = replies
    BY <1>1, ConcatEmptySeq
  <2>2. answers' = answers \o <<reply>>
    BY <1>1, AppendIsConcat
  <2>. QED  BY <1>1, <2>1, <2>2 DEF Out
<1>. QED  BY <1>1, <1>2, ConcatAssociative DEF Out

(* A request that is parsed moves from the buffer to the fiber.            *)
LEMMA ParseKeepsIn ==
  ASSUME TypeOK, parse, ~(buf = <<>> \/ Head(buf).part = "tail")
  PROVE  In' = In
<1>1. /\ buf \in Seq(Pieces) /\ buf # <<>> /\ socket \in Seq(Pieces)
      /\ req' = Head(buf) /\ buf' = Tail(buf) /\ socket' = socket
      /\ Running = <<>> /\ Running' = <<req'>>
  BY DEF TypeOK, parse, Running
<1>2. Head(buf) \in Pieces /\ Tail(buf) \in Seq(Pieces)
  BY <1>1, HeadTailProperties
<1>3. <<Head(buf)>> \o Tail(buf) = buf
  <2>1. Len(buf) \in Nat \ {0}
    BY <1>1, EmptySeq
  <2>2. SubSeq(buf, 1, Len(buf)) = <<buf[1]>> \o SubSeq(buf, 2, Len(buf))
    BY <1>1, <2>1, SubSeqRecursiveFirst
  <2>3. Head(buf) = buf[1]
    BY <1>1
  <2>. QED  BY <1>1, <2>2, <2>3, SubSeqFull, TailIsSubSeq
<1>4. <<Head(buf)>> \in Seq(Pieces)
  BY <1>2
<1>5. In = buf \o socket
  <2>1. buf \o socket \in Seq(Pieces)
    BY <1>1, ConcatProperties
  <2>. QED  BY <1>1, <2>1, ConcatEmptySeq DEF In
<1>6. In' = <<Head(buf)>> \o (Tail(buf) \o socket)
  BY <1>1 DEF In
<1>. QED  BY <1>1, <1>2, <1>3, <1>4, <1>5, <1>6, ConcatAssociative

(* A piece behind three sequences goes to the last of them.                *)
LEMMA Assoc ==
  ASSUME NEW s \in Seq(Pieces), NEW t \in Seq(Pieces), NEW u \in Seq(Pieces)
  PROVE  s \o (t \o u) = (s \o t) \o u
BY ConcatAssociative

LEMMA AtTheEnd ==
  ASSUME NEW s \in Seq(Pieces), NEW t \in Seq(Pieces), NEW u \in Seq(Pieces), NEW v \in Seq(Pieces)
  PROVE  s \o (t \o (u \o v)) = (s \o (t \o u)) \o v
<1>1. t \o (u \o v) = (t \o u) \o v
  BY Assoc, ZenonT(60)
<1>2. t \o u \in Seq(Pieces)
  BY ConcatProperties
<1>. DEFINE w == t \o u
<1>3. s \o (w \o v) = (s \o w) \o v
  <2>1. w \in Seq(Pieces)
    BY <1>2
  <2>. HIDE DEF w
  <2>. QED  BY <2>1, Assoc
<1>. QED  BY <1>1, <1>3

LEMMA OneAtTheEnd ==
  ASSUME NEW s \in Seq(Pieces), NEW t \in Seq(Pieces), NEW u \in Seq(Pieces), NEW p \in Pieces
  PROVE  s \o (t \o (u \o <<p>>)) = (s \o (t \o u)) \o <<p>>
BY AtTheEnd

(* One that has been executed moves to the queue.                          *)
LEMMA HandleKeepsChain ==
  ASSUME TypeOK, do_handle_one, rq' = "top", replies' = Append(replies, req)
  PROVE  Chain' = Chain /\ Out' = Out \o <<req>>
<1>1. /\ Running = <<req>> /\ Running' = <<>> /\ Writing' = Writing
      /\ answers' = answers /\ buf' = buf /\ socket' = socket
      /\ req \in Pieces /\ <<req>> \in Seq(Pieces)
  BY DEF TypeOK, do_handle_one, Running, Writing, clientVars, input
<1>2. /\ answers \in Seq(Pieces) /\ replies \in Seq(Pieces) /\ Writing \in Seq(Pieces)
      /\ Writing \o replies \in Seq(Pieces) /\ buf \o socket \in Seq(Pieces) /\ Out \in Seq(Pieces)
  BY ChainTypes
<1>a. \A s, t, u \in Seq(Pieces) : (s \o t) \o u = s \o (t \o u)
  BY ConcatAssociative
<1>3. Out' = Out \o <<req>>
  <2>1. replies' = replies \o <<req>>
    BY <1>1, <1>2, AppendIsConcat
  <2>2. answers \o (Writing \o (replies \o <<req>>)) = (answers \o (Writing \o replies)) \o <<req>>
    <3>1. answers \in Seq(Pieces) /\ Writing \in Seq(Pieces) /\ replies \in Seq(Pieces) /\ req \in Pieces
      BY <1>1, <1>2
    <3>. QED  BY <3>1, OneAtTheEnd
  <2>. QED  BY <1>1, <2>1, <2>2 DEF Out
<1>4. In' = buf \o socket /\ In = <<req>> \o (buf \o socket)
  BY <1>1, <1>2, ConcatEmptySeq DEF In
<1>5. (Out \o <<req>>) \o (buf \o socket) = Out \o (<<req>> \o (buf \o socket))
  BY <1>1, <1>2, <1>a, ZenonT(60)
<1>. QED  BY <1>3, <1>4, <1>5 DEF Chain

(* A new request is the last of the chain.                                 *)
LEMMA SendAppends ==
  ASSUME TypeOK, NEW c \in Clients, send(c)
  PROVE  /\ Piece(asked + 1, "full") \in Pieces
         /\ Chain' = Chain \o <<Piece(asked + 1, "full")>> /\ Out' = Out
<1>. DEFINE p == Piece(asked + 1, "full")
<1>1. p \in Pieces /\ <<p>> \in Seq(Pieces)
  BY ConnectionAssumption DEF TypeOK, send, Piece, Pieces
<1>2. /\ Writing' = Writing /\ Running' = Running /\ answers' = answers /\ replies' = replies
      /\ buf' = buf /\ socket' = Append(socket, p)
  BY DEF send, Writing, Running, fibers
<1>. HIDE DEF p
<1>3. Out' = Out
  BY <1>2 DEF Out
<1>4. /\ socket \in Seq(Pieces) /\ buf \in Seq(Pieces) /\ Running \in Seq(Pieces)
      /\ buf \o socket \in Seq(Pieces) /\ In \in Seq(Pieces) /\ Out \in Seq(Pieces)
  BY ChainTypes
<1>5. socket' = socket \o <<p>>
  BY <1>1, <1>2, <1>4, AppendIsConcat
<1>6. Running \o (buf \o (socket \o <<p>>)) = (Running \o (buf \o socket)) \o <<p>>
  <2>1. Running \in Seq(Pieces) /\ buf \in Seq(Pieces) /\ socket \in Seq(Pieces) /\ p \in Pieces
    BY <1>1, <1>4
  <2>. QED  BY <2>1, OneAtTheEnd
<1>8. In' = In \o <<p>>
  BY <1>2, <1>5, <1>6 DEF In
<1>9. (Out \o In) \o <<p>> = Out \o (In \o <<p>>)
  BY <1>1, <1>4, ConcatAssociative
<1>. QED  BY <1>1, <1>3, <1>8, <1>9 DEF Chain, p

(* A read between requests moves them from the socket to the buffer.       *)
LEMMA ReadKeepsIn ==
  ASSUME TypeOK, read, NEW k \in 1 .. Len(socket),
         buf' = SubSeq(socket, 1, k), socket' = SubSeq(socket, k + 1, Len(socket)), rq' = rq
  PROVE  In' = In
<1>1. buf = <<>> /\ Running' = Running /\ socket \in Seq(Pieces)
  BY DEF TypeOK, read, Running
<1>2. <<>> \o socket = socket
  BY <1>1, ConcatEmptySeq
<1>3. SubSeq(socket, 1, k) \o SubSeq(socket, k + 1, Len(socket)) = SubSeq(socket, 1, Len(socket))
  <2>1. Len(socket) \in Nat
    BY <1>1, LenProperties
  <2>2. 1 \in 1 .. Len(socket) + 1 /\ k \in 1 - 1 .. Len(socket) /\ Len(socket) \in k .. Len(socket)
    BY <2>1
  <2>. QED  BY <1>1, <2>2, ConcatAdjacentSubSeq
<1>4. SubSeq(socket, 1, Len(socket)) = socket
  BY <1>1, SubSeqFull
<1>. QED  BY <1>1, <1>2, <1>3, <1>4, ZenonT(60) DEF In

(* A read within a request leaves its two parts where the request was.     *)
LEMMA SplitIn ==
  ASSUME TypeOK, read, NEW k \in 1 .. Len(socket),
         buf' = Append(SubSeq(socket, 1, k - 1), Piece(socket[k].n, "head")),
         socket' = <<Piece(socket[k].n, "tail")>> \o SubSeq(socket, k + 1, Len(socket)), rq' = rq
  PROVE  \E t, u \in Seq(Pieces) :
            /\ socket[k] \in Pieces
            /\ In = t \o (<<socket[k]>> \o u)
            /\ In' = (t \o <<Piece(socket[k].n, "head")>>) \o (<<Piece(socket[k].n, "tail")>> \o u)
<1>. DEFINE t == SubSeq(socket, 1, k - 1)
            u == SubSeq(socket, k + 1, Len(socket))
            h == Piece(socket[k].n, "head")
            l == Piece(socket[k].n, "tail")
<1>1. buf = <<>> /\ Running' = <<>> /\ Running = <<>> /\ socket \in Seq(Pieces)
  BY DEF TypeOK, read, Running
<1>2. Len(socket) \in Nat /\ socket[k] \in Pieces
  BY <1>1, LenProperties, ElementOfSeq
<1>3. t \in Seq(Pieces) /\ u \in Seq(Pieces)
  <2>1. /\ \A i \in 1 .. k - 1 : socket[i] \in Pieces
        /\ \A i \in k + 1 .. Len(socket) : socket[i] \in Pieces
    BY <1>1, <1>2, ElementOfSeq
  <2>. QED  BY <1>1, <1>2, <2>1, SubSeqProperties
<1>4. h \in Pieces /\ l \in Pieces /\ <<h>> \in Seq(Pieces) /\ <<l>> \in Seq(Pieces)
  BY <1>2 DEF Piece, Pieces
<1>5. socket = t \o (<<socket[k]>> \o u)
  <2>1. socket = t \o SubSeq(socket, k, Len(socket))
    <3>1. /\ 1 \in 1 .. Len(socket) + 1 /\ k - 1 \in 1 - 1 .. Len(socket)
          /\ Len(socket) \in k - 1 .. Len(socket) /\ k - 1 + 1 = k
      BY <1>2
    <3>2. SubSeq(socket, 1, k - 1) \o SubSeq(socket, k - 1 + 1, Len(socket)) = SubSeq(socket, 1, Len(socket))
      BY <1>1, <3>1, ConcatAdjacentSubSeq, ZenonT(60)
    <3>. QED  BY <1>1, <3>1, <3>2, SubSeqFull
  <2>2. SubSeq(socket, k, Len(socket)) = <<socket[k]>> \o u
    <3>1. Len(socket) \in k .. Len(socket)
      BY <1>2
    <3>. QED  BY <1>1, <3>1, SubSeqRecursiveFirst
  <2>. HIDE DEF t, u
  <2>. QED  BY <2>1, <2>2
<1>6. buf' = t \o <<h>>
  BY <1>3, <1>4, AppendIsConcat
<1>7. socket' = <<l>> \o u
  OBVIOUS
<1>. HIDE DEF t, u, h, l
<1>8. In = socket
  BY <1>1, ConcatEmptySeq DEF In
<1>9. In' = (t \o <<h>>) \o (<<l>> \o u)
  <2>1. (t \o <<h>>) \o (<<l>> \o u) \in Seq(Pieces)
    <3>1. t \o <<h>> \in Seq(Pieces) /\ <<l>> \o u \in Seq(Pieces)
      BY <1>3, <1>4, ConcatProperties
    <3>. QED  BY <3>1, ConcatProperties
  <2>2. In' = <<>> \o ((t \o <<h>>) \o (<<l>> \o u))
    BY <1>1, <1>6, <1>7, ZenonT(60) DEF In
  <2>. QED  BY <2>1, <2>2, ConcatEmptySeq
<1>. QED  BY <1>2, <1>3, <1>5, <1>8, <1>9, ZenonT(60) DEF h, l

(* A request whose handler throws leaves the chain.                        *)
LEMMA ThrowDrops ==
  ASSUME TypeOK, Ordered, do_handle_one, rq' = "done", UNCHANGED replies
  PROVE  Ordered' /\ Out' = Out
<1>1. /\ Running = <<req>> /\ Running' = <<>> /\ Writing' = Writing /\ asked' = asked
      /\ answers' = answers /\ buf' = buf /\ socket' = socket
  BY DEF do_handle_one, Running, Writing, clientVars, input
<1>2. /\ Out \in Seq(Pieces) /\ buf \o socket \in Seq(Pieces) /\ Running \in Seq(Pieces)
  BY ChainTypes
<1>3. Out' = Out
  BY <1>1 DEF Out
<1>4. In' = buf \o socket
  BY <1>1, <1>2, ConcatEmptySeq DEF In
<1>5. InOrder(Out \o (Running \o (buf \o socket))) /\ AtMost(Out \o (Running \o (buf \o socket)), asked)
  BY DEF Ordered, Chain, In
<1>6. InOrder(Out \o (buf \o socket)) /\ AtMost(Out \o (buf \o socket), asked)
  <2>. DEFINE b == buf \o socket
  <2>1. b \in Seq(Pieces) /\ InOrder(Out \o (Running \o b)) /\ AtMost(Out \o (Running \o b), asked)
    BY <1>2, <1>5
  <2>. HIDE DEF b
  <2>2. InOrder(Out \o b) /\ AtMost(Out \o b, asked)
    BY <1>2, <2>1, DropMiddle, ZenonT(60)
  <2>. QED  BY <2>2 DEF b
<1>. QED  BY <1>1, <1>3, <1>4, <1>6 DEF Ordered, Chain

(* So does a reply that is not written.                                    *)
LEMMA WriteDrops ==
  ASSUME TypeOK, Ordered, write, UNCHANGED answers, rp' # "write"
  PROVE  Ordered'
<1>1. /\ Writing = <<reply>> /\ Writing' = <<>> /\ Running' = Running /\ asked' = asked
      /\ replies' = replies /\ buf' = buf /\ socket' = socket
  BY DEF write, Running, Writing, input
<1>2. /\ answers \in Seq(Pieces) /\ Writing \in Seq(Pieces) /\ replies \in Seq(Pieces) /\ In \in Seq(Pieces)
  BY ChainTypes
<1>3. In' = In
  BY <1>1 DEF In
<1>4. Out' = answers \o replies
  BY <1>1, <1>2, ConcatEmptySeq DEF Out
<1>5. Chain = answers \o (Writing \o (replies \o In))
  <2>1. answers \o (Writing \o (replies \o In)) = (answers \o (Writing \o replies)) \o In
    <3>. DEFINE Same(a, w, r, i) == a \o (w \o (r \o i)) = (a \o (w \o r)) \o i
    <3>1. \A a, w, r, i \in Seq(Pieces) : Same(a, w, r, i)
      BY AtTheEnd, ZenonT(60)
    <3>. HIDE DEF Same
    <3>2. Same(answers, Writing, replies, In)
      BY <1>2, <3>1
    <3>. QED  BY <3>2 DEF Same
  <2>. QED  BY <2>1 DEF Chain, Out
<1>6. replies \o In \in Seq(Pieces)
  BY <1>2, ConcatProperties
<1>7. InOrder(answers \o (replies \o In)) /\ AtMost(answers \o (replies \o In), asked)
  <2>. DEFINE b == replies \o In
  <2>1. b \in Seq(Pieces) /\ InOrder(answers \o (Writing \o b)) /\ AtMost(answers \o (Writing \o b), asked)
    BY <1>5, <1>6 DEF Ordered
  <2>. HIDE DEF b
  <2>2. InOrder(answers \o b) /\ AtMost(answers \o b, asked)
    BY <1>2, <2>1, DropMiddle, ZenonT(60)
  <2>. QED  BY <2>2 DEF b
<1>8. Chain' = answers \o (replies \o In)
  <2>1. answers \o (replies \o In) = (answers \o replies) \o In
    BY <1>2, Assoc
  <2>. QED  BY <1>3, <1>4, <2>1 DEF Chain
<1>. QED  BY <1>1, <1>7, <1>8 DEF Ordered

(* At an error the buffer leaves it.                                       *)
LEMMA ErrorDrops ==
  ASSUME TypeOK, Ordered, parse, req' = Piece(0, "error"), buf' = <<>>
  PROVE  Ordered'
<1>. DEFINE e == Piece(0, "error")
<1>1. /\ Running = <<>> /\ Running' = <<e>> /\ Writing' = Writing /\ asked' = asked
      /\ answers' = answers /\ replies' = replies /\ socket' = socket
  BY DEF parse, Running, Writing, clientVars
<1>2. e \in Pieces /\ e.n = 0 /\ asked \in Nat
  BY ConnectionAssumption DEF Piece, Pieces, TypeOK
<1>. HIDE DEF e
<1>3. /\ Out \in Seq(Pieces) /\ buf \in Seq(Pieces) /\ socket \in Seq(Pieces) /\ buf \o socket \in Seq(Pieces)
  BY ChainTypes
<1>4. Out' = Out
  BY <1>1 DEF Out
<1>5. In = buf \o socket
  BY <1>1, <1>3, ConcatEmptySeq DEF In
<1>6. In' = <<e>> \o socket
  <2>1. <<>> \o socket = socket
    BY <1>3, ConcatEmptySeq
  <2>. QED  BY <1>1, <2>1 DEF In
<1>7. InOrder(Out \o (buf \o socket)) /\ AtMost(Out \o (buf \o socket), asked)
  BY <1>5 DEF Ordered, Chain
<1>8. InOrder(Out \o socket) /\ AtMost(Out \o socket, asked)
  BY <1>3, <1>7, DropMiddle, ZenonT(60)
<1>9. InOrder(Out \o (<<e>> \o socket)) /\ AtMost(Out \o (<<e>> \o socket), asked)
  BY <1>2, <1>3, <1>8, ErrorMiddle, ZenonT(60)
<1>. QED  BY <1>1, <1>4, <1>6, <1>9 DEF Ordered, Chain

(* No step exchanges two pieces, or brings back one that has been dropped. *)
LEMMA OrderedStep ==
  ASSUME TypeOK, Phases, Ordered, [Next]_vars
  PROVE  Ordered'
<1>1. ASSUME NEW c \in Clients, send(c)  PROVE Ordered'
  <2>. DEFINE p == Piece(asked + 1, "full")
  <2>1. p \in Pieces /\ p.n = asked + 1 /\ Chain' = Chain \o <<p>> /\ asked' = asked + 1 /\ asked \in Nat
    <3>1. p \in Pieces /\ Chain' = Chain \o <<p>>
      BY <1>1, SendAppends
    <3>2. p.n = asked + 1 /\ asked' = asked + 1 /\ asked \in Nat
      BY <1>1, ConnectionAssumption DEF send, Piece, TypeOK
    <3>. HIDE DEF p
    <3>. QED  BY <3>1, <3>2
  <2>2. Chain \in Seq(Pieces)
    BY ChainTypes
  <2>. HIDE DEF p
  <2>3. \A i \in DOMAIN Chain : Chain[i] \in Pieces /\ Chain[i].n \in Nat /\ Chain[i].n <= asked
    <3>1. \A i \in DOMAIN Chain : Chain[i] \in Pieces
      BY <2>2, LenProperties, ElementOfSeq
    <3>2. \A i \in DOMAIN Chain : Chain[i].n <= asked
      BY DEF Ordered, AtMost
    <3>. QED  BY <3>1, <3>2, ConnectionAssumption DEF Pieces
  <2>4. Ahead(Chain, <<p>>)
    <3>1. \A i \in DOMAIN Chain : Before(Chain[i], p)
      BY <2>1, <2>3 DEF Before
    <3>. QED  BY <2>1, <2>2, <3>1, SmallOrders
  <2>5. InOrder(Chain \o <<p>>)
    <3>1. <<p>> \in Seq(Pieces) /\ InOrder(<<p>>)
      BY <2>1, <2>2, SmallOrders
    <3>. QED  BY <2>2, <2>4, <3>1, InOrderConcat, ZenonT(60) DEF Ordered
  <2>6. AtMost(Chain \o <<p>>, asked + 1)
    <3>1. <<p>> \in Seq(Pieces) /\ AtMost(<<p>>, asked + 1)
      BY <2>1, <2>2, SmallOrders
    <3>2. AtMost(Chain, asked + 1)
      BY <2>1, <2>3 DEF AtMost
    <3>. QED  BY <2>2, <3>1, <3>2, AtMostConcat, ZenonT(60)
  <2>. QED  BY <2>1, <2>5, <2>6 DEF Ordered
<1>2. ASSUME NEW c \in Clients, close(c)  PROVE Ordered'
  BY <1>2, ChainKept DEF close, Chain, Out, In, Writing, Running, input, fibers
<1>3. ASSUME NEW c \in Clients, accept(c)  PROVE Ordered'
  <2>1. Chain' = <<>> \o (<<>> \o <<>>) \o (<<>> \o (<<>> \o <<>>))
    BY <1>3 DEF accept, Chain, Out, In, Writing, Running
  <2>2. Chain' = <<>>
    BY <2>1
  <2>. QED  BY <2>2 DEF Ordered, InOrder, AtMost
<1>4. CASE processed
  BY <1>4, ChainKept DEF processed, Chain, Out, In, Writing, Running, clientVars, input
<1>5. CASE not_full
  BY <1>5, ChainKept, ZenonT(60) DEF not_full, Chain, Out, In, Writing, Running, clientVars, input
<1>6. CASE read
  <2>1. Out' = Out /\ asked' = asked
    BY <1>6 DEF read, Out, Writing, clientVars
  <2>2. ASSUME In' = In  PROVE Ordered'
    BY <2>1, <2>2, ChainKept DEF Chain
  <2>3. ASSUME NEW k \in 1 .. Len(socket), buf' = SubSeq(socket, 1, k),
               socket' = SubSeq(socket, k + 1, Len(socket)), rq' = rq
        PROVE  Ordered'
    BY <1>6, <2>2, <2>3, ReadKeepsIn
  <2>4. ASSUME NEW k \in 1 .. Len(socket), socket[k].part = "full",
               buf' = Append(SubSeq(socket, 1, k - 1), Piece(socket[k].n, "head")),
               socket' = <<Piece(socket[k].n, "tail")>> \o SubSeq(socket, k + 1, Len(socket)), rq' = rq
        PROVE  Ordered'
    <3>. DEFINE p == socket[k]
                h == Piece(p.n, "head")
                l == Piece(p.n, "tail")
    <3>1. PICK t \in Seq(Pieces), u \in Seq(Pieces) :
             p \in Pieces /\ In = t \o (<<p>> \o u) /\ In' = (t \o <<h>>) \o (<<l>> \o u)
      BY <1>6, <2>4, SplitIn, ZenonT(60)
    <3>2. p.part = "full"
      BY <2>4
    <3>3. Out \in Seq(Pieces)
      BY ChainTypes
    <3>4. InOrder(Out \o (t \o (<<p>> \o u))) /\ AtMost(Out \o (t \o (<<p>> \o u)), asked)
      BY <3>1 DEF Ordered, Chain
    <3>5. /\ InOrder(Out \o ((t \o <<h>>) \o (<<l>> \o u)))
          /\ AtMost(Out \o ((t \o <<h>>) \o (<<l>> \o u)), asked)
      <4>. DEFINE ps == <<p>>
                  hs == <<h>>
                  ls == <<l>>
                  Whole(a, b, c, d) == a \o (b \o (c \o d))
                  Parts(a, b, c, d, e) == a \o ((b \o c) \o (d \o e))
      <4>1. p \in Pieces
        BY <3>1
      <4>2. ASSUME NEW a \in Seq(Pieces), NEW b \in Seq(Pieces), NEW c \in Seq(Pieces), NEW k1,
                   InOrder(Whole(a, b, ps, c)), AtMost(Whole(a, b, ps, c), k1)
            PROVE  InOrder(Parts(a, b, hs, ls, c)) /\ AtMost(Parts(a, b, hs, ls, c), k1)
        BY <3>2, <4>1, <4>2, SplitOne
      <4>3. InOrder(Whole(Out, t, ps, u)) /\ AtMost(Whole(Out, t, ps, u), asked)
        BY <3>4
      <4>. HIDE DEF p, h, l, ps, hs, ls, Whole, Parts
      <4>4. InOrder(Parts(Out, t, hs, ls, u)) /\ AtMost(Parts(Out, t, hs, ls, u), asked)
        BY <3>3, <4>2, <4>3
      <4>. QED  BY <4>4 DEF hs, ls, Parts
    <3>. QED  BY <2>1, <3>1, <3>5 DEF Ordered, Chain
  <2>5. ASSUME UNCHANGED <<buf, socket>>, rq = "read", rq' \in {"read", "done"}  PROVE Ordered'
    BY <2>2, <2>5 DEF In, Running
  <2>. QED  BY <1>6, <2>3, <2>4, <2>5, ZenonT(60) DEF read, input
<1>7. CASE parse
  <2>1. CASE buf = <<>> \/ Head(buf).part = "tail"
    <3>1. req' = Piece(0, "error") /\ buf' = <<>>
      BY <1>7, <2>1, ZenonT(60) DEF parse
    <3>. QED  BY <1>7, <3>1, ErrorDrops
  <2>2. CASE ~(buf = <<>> \/ Head(buf).part = "tail")
    <3>1. In' = In
      BY <1>7, <2>2, ParseKeepsIn
    <3>2. Out' = Out /\ asked' = asked
      BY <1>7 DEF parse, Out, Writing, clientVars
    <3>. QED  BY <3>1, <3>2, ChainKept DEF Chain
  <2>. QED  BY <2>1, <2>2
<1>8. CASE handle
  BY <1>8, ChainKept, ZenonT(60) DEF handle, Chain, Out, In, Writing, Running, clientVars, input
<1>9. CASE do_handle_one
  <2>1. CASE rq' = "top" /\ replies' = push(req)
    <3>1. replies' = Append(replies, req) /\ asked' = asked
      BY <1>9, <2>1 DEF do_handle_one, push, Phases, clientVars
    <3>. QED  BY <1>9, <2>1, <3>1, HandleKeepsChain, ChainKept
  <2>2. CASE rq' = "done" /\ UNCHANGED replies
    BY <1>9, <2>2, ThrowDrops
  <2>. QED  BY <1>9, <2>1, <2>2 DEF do_handle_one
<1>10. CASE pop
  <2>1. Out' = Out /\ In' = In
    BY <1>10, PopKeepsOut
  <2>. QED  BY <1>10, <2>1, ChainKept DEF pop, Chain, clientVars
<1>11. CASE write
  <2>1. CASE answers' = Append(answers, reply) /\ rp' = "pop"
    <3>1. Out' = Out
      BY <1>11, <2>1, WriteKeepsOut DEF write
    <3>2. In' = In /\ asked' = asked
      BY <1>11 DEF write, In, Running, input
    <3>. QED  BY <3>1, <3>2, ChainKept DEF Chain
  <2>2. CASE UNCHANGED answers /\ rp' # "write"
    BY <1>11, <2>2, WriteDrops
  <2>. QED  BY <1>11, <2>1, <2>2 DEF write
<1>12. CASE UNCHANGED vars
  BY <1>12, ChainKept DEF vars, clientVars, input, fibers, Chain, Out, In, Writing, Running
<1>. QED  BY <1>1, <1>2, <1>3, <1>4, <1>5, <1>6, <1>7, <1>8, <1>9, <1>10, <1>11, <1>12 DEF Next, Server

-----------------------------------------------------------------------------
(* Without a split read, the chain is all that the client has asked.       *)
LEMMA CompleteKept ==
  ASSUME Complete, UNCHANGED <<answers, Chain, Out, asked, splits>>,
         Served' => Served, rq' # "done" => rq # "done"
  PROVE  Complete'
BY DEF Complete

(* Nothing in a numbered chain is the rest of a request.                   *)
AllFull(s) == \A i \in DOMAIN s : s[i].part = "full"

LEMMA AllFullConcat ==
  ASSUME NEW s \in Seq(Pieces), NEW t \in Seq(Pieces), AllFull(s \o t)
  PROVE  AllFull(s) /\ AllFull(t)
<1>. DEFINE u == s \o t
<1>1. /\ \A k \in DOMAIN s : \E i \in DOMAIN u : u[i] = s[k]
      /\ \A k \in DOMAIN t : \E i \in DOMAIN u : u[i] = t[k]
      /\ \A i \in DOMAIN u : u[i].part = "full"
  BY ConcatElements DEF AllFull, ElementsOf
<1>. HIDE DEF u
<1>. QED  BY <1>1 DEF AllFull

LEMMA NumberedHead ==
  ASSUME TypeOK, Numbered(Chain), buf # <<>>
  PROVE  Head(buf).part # "tail"
<1>1. /\ Out \in Seq(Pieces) /\ In \in Seq(Pieces) /\ Running \in Seq(Pieces)
      /\ buf \in Seq(Pieces) /\ socket \in Seq(Pieces) /\ buf \o socket \in Seq(Pieces)
  BY ChainTypes
<1>2. AllFull(Chain)
  BY DEF AllFull, Numbered, Piece
<1>3. AllFull(In)
  BY <1>1, <1>2, AllFullConcat DEF Chain
<1>4. AllFull(buf \o socket)
  BY <1>1, <1>3, AllFullConcat, ZenonT(60) DEF In
<1>5. AllFull(buf)
  BY <1>1, <1>4, AllFullConcat
<1>6. 1 \in DOMAIN buf /\ Head(buf) = buf[1]
  BY <1>1, LenProperties, EmptySeq
<1>. QED  BY <1>5, <1>6 DEF AllFull

LEMMA CompleteStep ==
  ASSUME TypeOK, Phases, Complete, [Next]_vars
  PROVE  Complete'
<1>1. ASSUME NEW c \in Clients, send(c)  PROVE Complete'
  <2>. DEFINE p == Piece(asked + 1, "full")
  <2>1. p \in Pieces /\ Chain' = Chain \o <<p>> /\ Out' = Out
    BY <1>1, SendAppends
  <2>2. /\ asked' = asked + 1 /\ answers' = answers /\ splits' = splits /\ rq' = rq /\ Served' = Served
    BY <1>1 DEF send, fibers, Served
  <2>3. Chain \in Seq(Pieces) /\ <<p>> \in Seq(Pieces)
    BY <2>1, ChainTypes
  <2>4. ASSUME Numbered(Chain), Len(Chain) = asked  PROVE Numbered(Chain') /\ Len(Chain') = asked'
    <3>1. Numbered(Chain \o <<p>>)
      BY <2>3, <2>4, NumberedConcat, ZenonT(60)
    <3>2. Len(Chain \o <<p>>) = asked + 1
      BY <2>3, <2>4, ConcatProperties
    <3>. QED  BY <2>1, <2>2, <3>1, <3>2
  <2>. QED  BY <2>1, <2>2, <2>4 DEF Complete
<1>2. ASSUME NEW c \in Clients, close(c)  PROVE Complete'
  <2>1. ~Served'
    BY <1>2 DEF close, Served, TypeOK
  <2>2. answers' = answers /\ splits' = splits
    BY <1>2 DEF close, input
  <2>. QED  BY <2>1, <2>2 DEF Complete
<1>3. ASSUME NEW c \in Clients, accept(c)  PROVE Complete'
  <2>1. /\ answers' = <<>> /\ Writing' = <<>> /\ replies' = <<>> /\ Running' = <<>>
        /\ buf' = <<>> /\ socket' = <<>> /\ asked' = 0
    BY <1>3 DEF accept, Writing, Running
  <2>2. Out' = <<>> /\ Chain' = <<>>
    BY <2>1 DEF Chain, Out, In
  <2>. QED  BY <2>1, <2>2 DEF Complete, Numbered
<1>4. CASE processed
  <2>1. ~Served' /\ answers' = answers /\ splits' = splits
    BY <1>4 DEF processed, Served, clientVars, input
  <2>. QED  BY <2>1 DEF Complete
<1>5. CASE not_full
  BY <1>5, CompleteKept, ZenonT(60) DEF not_full, Chain, Out, In, Writing, Running, clientVars, input, Served
<1>6. CASE read
  <2>1. Out' = Out /\ answers' = answers /\ asked' = asked /\ Served' = Served
    BY <1>6 DEF read, Out, Writing, clientVars, Served
  <2>2. ASSUME NEW k \in 1 .. Len(socket), buf' = SubSeq(socket, 1, k),
               socket' = SubSeq(socket, k + 1, Len(socket)), UNCHANGED <<rq, splits>>
        PROVE  Complete'
    <3>1. In' = In
      BY <1>6, <2>2, ReadKeepsIn
    <3>. QED  BY <2>1, <2>2, <3>1, CompleteKept DEF Chain
  <2>3. ASSUME splits' = splits + 1  PROVE Complete'
    BY <2>3 DEF Complete, TypeOK
  <2>4. ASSUME client[conn] # "open", UNCHANGED splits  PROVE Complete'
    BY <2>1, <2>4 DEF Complete, Served
  <2>. QED  BY <1>6, <2>2, <2>3, <2>4, ZenonT(60) DEF read, input
<1>7. CASE parse
  <2>1. /\ Out' = Out /\ answers' = answers /\ asked' = asked /\ splits' = splits /\ Served' = Served
        /\ rq = "read"
    BY <1>7 DEF parse, Out, Writing, clientVars, Served
  <2>2. CASE buf = <<>> \/ Head(buf).part = "tail"
    <3>1. ~(Served /\ Numbered(Chain))
      BY <1>7, <2>2, NumberedHead DEF parse, Phases, Served
    <3>. QED  BY <2>1, <3>1 DEF Complete
  <2>3. CASE ~(buf = <<>> \/ Head(buf).part = "tail")
    <3>1. In' = In
      BY <1>7, <2>3, ParseKeepsIn
    <3>. QED  BY <2>1, <3>1, CompleteKept DEF Chain
  <2>. QED  BY <2>2, <2>3
<1>8. CASE handle
  BY <1>8, CompleteKept, ZenonT(60) DEF handle, Chain, Out, In, Writing, Running, clientVars, input, Served
<1>9. CASE do_handle_one
  <2>1. answers' = answers /\ asked' = asked /\ splits' = splits /\ Served' = Served /\ rq = "run"
    BY <1>9 DEF do_handle_one, clientVars, input, Served
  <2>2. CASE rq' = "top" /\ replies' = push(req)
    <3>1. replies' = Append(replies, req)
      BY <1>9, <2>2 DEF do_handle_one, push, Phases
    <3>2. Chain' = Chain /\ Out' = Out \o <<req>>
      BY <1>9, <2>2, <3>1, HandleKeepsChain
    <3>3. Out' \in Seq(Pieces) /\ In' \in Seq(Pieces)
      <4>1. Out \in Seq(Pieces) /\ <<req>> \in Seq(Pieces)
        BY ChainTypes DEF TypeOK
      <4>2. Out \o <<req>> \in Seq(Pieces)
        BY <4>1, ConcatProperties
      <4>3. In' = <<>> \o (buf \o socket)
        BY <1>9, <2>2 DEF In, Running, do_handle_one, input
      <4>4. buf \o socket \in Seq(Pieces)
        BY ChainTypes
      <4>. QED  BY <3>2, <4>2, <4>3, <4>4, ConcatEmptySeq
    <3>4. Numbered(Chain') => Numbered(Out')
      <4>. DEFINE a == Out'
                  b == In'
      <4>1. a \in Seq(Pieces) /\ b \in Seq(Pieces) /\ Chain' = a \o b
        BY <3>3 DEF Chain
      <4>. HIDE DEF a, b
      <4>2. Numbered(a \o b) => Numbered(a)
        BY <4>1, NumberedConcat
      <4>. QED  BY <4>1, <4>2 DEF a
    <3>5. Numbered(Chain) => Numbered(Chain')
      BY <3>2
    <3>. QED  BY <2>1, <2>2, <3>2, <3>4, <3>5 DEF Complete
  <2>3. CASE rq' = "done" /\ UNCHANGED replies
    <3>1. Out' = Out
      BY <1>9, <2>3 DEF Out, Writing, do_handle_one, clientVars
    <3>. QED  BY <2>1, <2>3, <3>1 DEF Complete
  <2>. QED  BY <1>9, <2>2, <2>3 DEF do_handle_one
<1>10. CASE pop
  <2>1. Out' = Out /\ In' = In
    BY <1>10, PopKeepsOut
  <2>. QED  BY <1>10, <2>1, CompleteKept DEF pop, Chain, clientVars, input, Served
<1>11. CASE write
  <2>1. splits' = splits /\ Served' = Served /\ rq' = rq /\ asked' = asked /\ rp = "write"
    BY <1>11 DEF write, input, Served
  <2>2. CASE client[conn] = "open" /\ answers' = Append(answers, reply) /\ rp' = "pop"
    <3>1. Served
      BY <2>1, <2>2 DEF Phases, Served
    <3>2. Out' = Out /\ In' = In
      BY <1>11, <2>2, WriteKeepsOut DEF write, In, Running, input
    <3>3. /\ answers' \in Seq(Pieces) /\ replies \in Seq(Pieces) /\ Out' = answers' \o replies
      <4>1. answers' \in Seq(Pieces) /\ replies \in Seq(Pieces)
        BY <2>2 DEF TypeOK
      <4>2. Out' = answers' \o (<<>> \o replies)
        BY <1>11, <2>2 DEF Out, Writing, write
      <4>. QED  BY <4>1, <4>2, ConcatEmptySeq
    <3>4. Numbered(Out) => Numbered(answers')
      <4>. DEFINE a == answers'
      <4>1. a \in Seq(Pieces) /\ replies \in Seq(Pieces) /\ Out = a \o replies
        BY <3>2, <3>3
      <4>. HIDE DEF a
      <4>2. Numbered(a \o replies) => Numbered(a)
        BY <4>1, NumberedConcat
      <4>. QED  BY <4>1, <4>2 DEF a
    <3>5. Chain' = Chain
      BY <3>2 DEF Chain
    <3>. QED  BY <2>1, <3>1, <3>2, <3>4, <3>5 DEF Complete
  <2>3. CASE client[conn] # "open" /\ UNCHANGED answers
    BY <2>1, <2>3 DEF Complete, Served
  <2>. QED  BY <1>11, <2>2, <2>3 DEF write
<1>12. CASE UNCHANGED vars
  BY <1>12, CompleteKept DEF vars, clientVars, input, fibers, Chain, Out, In, Writing, Running, Served
<1>. QED  BY <1>1, <1>2, <1>3, <1>4, <1>5, <1>6, <1>7, <1>8, <1>9, <1>10, <1>11, <1>12 DEF Next, Server

-----------------------------------------------------------------------------
(* Before the first connection the chain is empty.                         *)
LEMMA ConnectionInit ==
  ASSUME Init
  PROVE  ConnectionInv
<1>. USE DEF Init, NoConnectionYet, NoRequest
<1>1. TypeOK
  <2>1. NoRequest \in Pieces
    BY ConnectionAssumption DEF Piece, Pieces
  <2>2. client \in [Clients -> {"waiting", "open", "closed", "reset"}]
    OBVIOUS
  <2>3. <<>> \in Seq(Pieces)
    OBVIOUS
  <2>4. 0 \in 0 .. MaxRequests /\ 0 \in 0 .. MaxSplits
    BY ConnectionAssumption
  <2>. QED  BY <2>1, <2>2, <2>3, <2>4, ZenonT(60) DEF TypeOK
<1>2. Phases /\ NoTails
  BY DEF Phases, NoTails, Piece
<1>3. Out = <<>> /\ Chain = <<>>
  BY DEF Chain, Out, In, Writing, Running
<1>4. Ordered
  BY <1>3 DEF Ordered, InOrder, AtMost
<1>5. Complete
  BY <1>3 DEF Complete, Numbered
<1>. QED  BY <1>1, <1>2, <1>4, <1>5 DEF ConnectionInv

(* The fibers keep the pieces of requests in one ordered sequence from the *)
(* client's replies to its socket.                                         *)
THEOREM ConnectionInvariant == Spec => []ConnectionInv
<1>1. Init => ConnectionInv
  BY ConnectionInit
<1>2. ConnectionInv /\ [Next]_vars => ConnectionInv'
  BY PhasesStep, OrderedStep, CompleteStep DEF ConnectionInv
<1>. QED  BY <1>1, <1>2, PTL DEF Spec

(* No request is executed twice or answered after a later one, wherever    *)
(* the reads from the socket end: do_handle_one, the reply queue and the   *)
(* reply fiber keep the order, and the parser never executes the rest of a *)
(* request it has executed the beginning of.                               *)
THEOREM ExecutedInOrder == Spec => []ExecutedOnceInOrder
<1>1. ConnectionInv => ExecutedOnceInOrder
  <2>. SUFFICES ASSUME ConnectionInv, NEW i \in DOMAIN answers, NEW j \in DOMAIN answers,
                       i < j, answers[i].n # 0, answers[j].n # 0
                PROVE  answers[i].n < answers[j].n
    BY DEF ExecutedOnceInOrder
  <2>1. /\ answers \in Seq(Pieces) /\ Writing \o replies \in Seq(Pieces)
        /\ Out \in Seq(Pieces) /\ In \in Seq(Pieces)
    BY ChainTypes DEF ConnectionInv
  <2>2. InOrder(Out)
    BY <2>1, InOrderConcat DEF ConnectionInv, Ordered, Chain
  <2>3. InOrder(answers)
    BY <2>1, <2>2, InOrderConcat, ZenonT(60) DEF Out
  <2>4. Before(answers[i], answers[j]) /\ answers[j].part # "tail"
    BY <2>3 DEF InOrder, ConnectionInv, NoTails
  <2>. QED  BY <2>4 DEF Before
<1>. QED  BY <1>1, ConnectionInvariant, PTL

(* While reads end between requests, the i-th reply is that of the i-th    *)
(* request: no reply of a pipeline is lost at the bounded queue.           *)
THEOREM PipelineAnswered == Spec => []AnsweredInOrder
<1>1. ConnectionInv => AnsweredInOrder
  BY DEF ConnectionInv, Complete, Numbered, AnsweredInOrder
<1>. QED  BY <1>1, ConnectionInvariant, PTL
=============================================================================
