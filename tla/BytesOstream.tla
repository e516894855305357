---------------------------- MODULE BytesOstream ----------------------------
(***************************************************************************)
(* bytes_ostream (utils/bytes_ostream.hh): a buffer that grows by chunks,   *)
(* with place holders that are filled in later, positions it can be         *)
(* retracted to, and linearization.  An allocation may fail, which leaves   *)
(* what was written before it.                                              *)
(***************************************************************************)
EXTENDS Integers, Sequences, FiniteSetsExt, SequencesExt

CONSTANTS
    chunk_size, max_chunk_size, Header, \* Header is sizeof(chunk)
    MaxText,   \* bound of the bytes in the stream
    Pieces     \* the byte strings that are written

VARIABLES
    stream,    \* [chunks, size]: the chain from _begin to _current, and _size
    text,      \* history: what has been written
    holder,    \* <<>>, or a place holder [chunk, offset, length] with its place in the text
    mark       \* <<>>, or a position [chunk, offset] with its place in the text

osVars == <<stream, text, holder, mark>>

Empty == [chunks |-> <<>>, size |-> 0]
Blank(n) == [i \in 1..n |-> 0]

current_space_left(s) == IF s.chunks = <<>> THEN 0 ELSE Last(s.chunks).size - Len(Last(s.chunks).data)

next_alloc_size(s, n) ==
    Max({Min({IF s.chunks = <<>> THEN chunk_size ELSE 2 * Last(s.chunks).size, max_chunk_size}), n + Header})

(* Room for v, which is not empty, in one piece *)
alloc(s, v) ==
    [chunks |-> IF Len(v) <= current_space_left(s)
                THEN [s.chunks EXCEPT ![Len(s.chunks)].data = @ \o v]
                ELSE Append(s.chunks, [data |-> v, size |-> next_alloc_size(s, Len(v)) - Header]),
     size |-> s.size + Len(v)]

(* write() fills the current chunk and goes on in new ones; stop is where an allocation fails *)
WritePrefix(s, v) == IF current_space_left(s) = 0 THEN 0 ELSE Min({Len(v), current_space_left(s)})
writes(s, v) ==
    LET n == WritePrefix(s, v)
        from[i \in 0..Len(v)] ==
            IF i = 0 THEN <<IF n = 0 THEN s ELSE alloc(s, SubSeq(v, 1, n))>>
            ELSE LET done == from[i - 1]
                     at == n + (i - 1) * max_chunk_size
                 IN IF at >= Len(v) THEN done
                    ELSE Append(done, alloc(Last(done), SubSeq(v, at + 1, Min({at + max_chunk_size, Len(v)}))))
    IN from[Len(v)]
write(s, v) == IF v = <<>> THEN s ELSE Last(writes(s, v))

(* append() and the copy constructor: fragment by fragment *)
append(s, o) == FoldLeft(LAMBDA t, c : write(t, c.data), s, o.chunks)

is_linearized(s) == Len(s.chunks) <= 1
Fragments(s) == FlattenSeq([i \in DOMAIN s.chunks |-> s.chunks[i].data])

linearize(s) ==
    IF is_linearized(s) THEN s ELSE [chunks |-> <<[data |-> Fragments(s), size |-> s.size]>>, size |-> s.size]

pos(s) == [chunk |-> Len(s.chunks), offset |-> IF s.chunks = <<>> THEN 0 ELSE Len(Last(s.chunks).data)]

written_since(s, p) ==
    IF p.chunk = 0 THEN s.size
    ELSE Len(s.chunks[p.chunk].data) - p.offset
         + Len(Fragments([s EXCEPT !.chunks = SubSeq(@, p.chunk + 1, Len(@))]))

retract(s, p) ==
    IF p.chunk = 0 THEN Empty
    ELSE [chunks |-> [SubSeq(s.chunks, 1, p.chunk) EXCEPT ![p.chunk].data = SubSeq(@, 1, p.offset)],
          size |-> s.size - written_since(s, p)]

OsInit == stream = Empty /\ text = <<>> /\ holder = <<>> /\ mark = <<>>

Write(v) ==
    /\ Len(text) + Len(v) <= MaxText
    /\ \E i \in DOMAIN writes(stream, v) :
          /\ stream' = writes(stream, v)[i]
          /\ text' = text \o SubSeq(v, 1, stream'.size - stream.size)
    /\ UNCHANGED <<holder, mark>>

write_place_holder(n) ==
    /\ holder = <<>> /\ Len(text) + n <= MaxText
    /\ stream' = alloc(stream, Blank(n)) /\ text' = text \o Blank(n)
    /\ holder' = <<[chunk |-> Len(stream'.chunks), offset |-> Len(Last(stream'.chunks).data) - n,
                    length |-> n, at |-> Len(text)]>>
    /\ mark' = mark

(* What was held is written, through the pointer *)
Fill(v) ==
    LET h == holder[1]
        put(s, at) == [i \in DOMAIN s |-> IF i \in at + 1 .. at + h.length THEN v[i - at] ELSE s[i]]
    IN /\ holder # <<>> /\ Len(v) = h.length
       /\ stream' = [stream EXCEPT !.chunks[h.chunk].data = put(@, h.offset)]
       /\ text' = put(text, h.at) /\ holder' = <<>> /\ mark' = mark

Mark == mark = <<>> /\ mark' = <<pos(stream) @@ [at |-> Len(text)]>> /\ UNCHANGED <<stream, text, holder>>

(* Place holders behind the position are not valid any more *)
Retract ==
    /\ mark # <<>>
    /\ stream' = retract(stream, mark[1]) /\ text' = SubSeq(text, 1, mark[1].at)
    /\ holder' = IF holder # <<>> /\ holder[1].at < mark[1].at THEN holder ELSE <<>>
    /\ mark' = <<>>

(* linearize, or reduce_chunk_count for a small stream: positions and place holders are lost *)
Linearize ==
    /\ stream' = linearize(stream)
    /\ holder' = (IF stream' = stream THEN holder ELSE <<>>) /\ mark' = (IF stream' = stream THEN mark ELSE <<>>)
    /\ text' = text

(* The stream is copied, and the copy moved back *)
Copy == stream' = append(Empty, stream) /\ text' = text /\ holder' = <<>> /\ mark' = <<>>

OsNext ==
    \/ \E v \in Pieces : Write(v) \/ Fill(v)
    \/ \E n \in {Len(v) : v \in Pieces} \ {0} : write_place_holder(n)
    \/ Mark \/ Retract \/ Linearize \/ Copy

(* The chunks hold exactly what was written and not retracted, in its order and with the *)
(* place holders filled in where they were made; no chunk is overrun; and the sizes      *)
(* (_size, written_since) agree with it (alloc, retract, linearize, append).             *)
TextExact ==
    /\ Fragments(stream) = text /\ stream.size = Len(text)
    /\ \A i \in DOMAIN stream.chunks : Len(stream.chunks[i].data) <= stream.chunks[i].size
    /\ mark # <<>> => written_since(stream, mark[1]) = Len(text) - mark[1].at
=============================================================================
