---------------------------- MODULE ManagedBytes ----------------------------
(***************************************************************************)
(* managed_bytes (utils/managed_bytes.hh): strings of bytes that the        *)
(* log-structured allocator may move.  A short one is kept inline, a longer *)
(* one in a chain of blobs, each of which knows the pointer that points to  *)
(* it.  A fragmented one is read through a copy that a linearization        *)
(* context keeps, by the address of the first blob.                         *)
(*                                                                         *)
(* An operation runs with compaction locked (it holds raw pointers), so     *)
(* blobs are migrated between operations, and not within a context.         *)
(***************************************************************************)
EXTENDS Integers, Sequences, FiniteSetsExt, SequencesExt, Functions

CONSTANTS
    Strings,          \* the contents objects are made of
    Objects,
    MaxAddress,       \* addresses of blobs are 1..MaxAddress
    max_inline_size,
    Segs,             \* max_seg() of the allocators
    MaxNesting        \* bound of _nesting

VARIABLES
    heap,       \* address |-> blob_storage
    bytes,      \* object |-> managed_bytes
    contents,   \* history: object |-> what it should hold
    nesting, linear, \* _linearization_context
    written,    \* history: blobs whose string was changed since it was linearized
    stopped     \* an assertion has failed

mbVars == <<heap, bytes, contents, nesting, linear, written, stopped>>

Addresses == 1..MaxAddress
NoBlob == [used |-> FALSE, size |-> 0, frag |-> <<>>, next |-> 0, backref |-> <<>>]
Gone == [live |-> FALSE, external |-> FALSE, small |-> <<>>, ptr |-> 0]
Inline(v) == [Gone EXCEPT !.live = TRUE, !.small = v]

(* The blobs of a chain, in order *)
Chain(h, first) ==
    LET chain[a \in 0..MaxAddress] == IF a = 0 THEN <<>> ELSE <<a>> \o chain[h[a].next]
    IN chain[first]
Walk(h, first) == FlattenSeq([i \in DOMAIN Chain(h, first) |-> h[Chain(h, first)[i]].frag])

is_fragmented(b) == b.external /\ heap[b.ptr].next # 0

value_at_index(b, index) ==
    LET at[a \in Addresses, i \in 0..Len(Walk(heap, b.ptr))] ==
            IF i >= Len(heap[a].frag) THEN at[heap[a].next, i - Len(heap[a].frag)]
            ELSE <<a, i + 1>>
    IN at[b.ptr, index]

(* initialized_later and the copy into it: blobs of at most seg bytes *)
Fragments(n, seg) == (n + seg - 1) \div seg
Free(h) == SetToSortSeq({a \in Addresses : ~h[a].used}, <)
Room(v, seg) == Len(v) > max_inline_size => Fragments(Len(v), seg) <= Len(Free(heap))
Build(h, o, v, seg) ==
    LET n == Fragments(Len(v), seg)
        at == SubSeq(Free(h), 1, n)
        blob(i) == [used |-> TRUE, size |-> IF i = 1 THEN Len(v) ELSE 0,
                    frag |-> SubSeq(v, seg * (i - 1) + 1, Min({seg * i, Len(v)})),
                    next |-> IF i < n THEN at[i + 1] ELSE 0,
                    backref |-> IF i = 1 THEN <<"object", o>> ELSE <<"blob", at[i - 1]>>]
    IN IF Len(v) <= max_inline_size THEN [heap |-> h, b |-> Inline(v)]
       ELSE [heap |-> [a \in Addresses |-> IF Contains(at, a) THEN blob(CHOOSE i \in 1..n : at[i] = a) ELSE h[a]],
             b |-> [Gone EXCEPT !.live = TRUE, !.external = TRUE, !.ptr = at[1]]]

(* What remains of a heap when an object's chain is freed, and of the context's copies *)
FreeChain(h, b) ==
    IF b.external THEN [a \in Addresses |-> IF Contains(Chain(h, b.ptr), a) THEN NoBlob ELSE h[a]] ELSE h
forget(b) == IF is_fragmented(b) /\ nesting > 0 THEN Restrict(linear, DOMAIN linear \ {b.ptr}) ELSE linear

Holds(o) == bytes[o].live /\ ~stopped

MbInit ==
    /\ heap = [a \in Addresses |-> NoBlob] /\ bytes = [o \in Objects |-> Gone]
    /\ contents = [o \in Objects |-> <<>>]
    /\ nesting = 0 /\ linear = [a \in {} |-> <<>>] /\ written = {} /\ stopped = FALSE

construct(o, v, seg) ==
    /\ ~bytes[o].live /\ ~stopped /\ Room(v, seg)
    /\ heap' = Build(heap, o, v, seg).heap /\ bytes' = [bytes EXCEPT ![o] = Build(heap, o, v, seg).b]
    /\ contents' = [contents EXCEPT ![o] = v]
    /\ UNCHANGED <<nesting, linear, written, stopped>>

(* The copy constructor goes along both chains, whose fragments may differ *)
Value(b) == IF b.external THEN Walk(heap, b.ptr) ELSE b.small
copy(o, p, seg) ==
    /\ Holds(p) /\ ~bytes[o].live /\ Room(Value(bytes[p]), seg)
    /\ heap' = Build(heap, o, Value(bytes[p]), seg).heap
    /\ bytes' = [bytes EXCEPT ![o] = Build(heap, o, Value(bytes[p]), seg).b]
    /\ contents' = [contents EXCEPT ![o] = contents[p]]
    /\ UNCHANGED <<nesting, linear, written, stopped>>

destroy(o) ==
    /\ Holds(o)
    /\ heap' = FreeChain(heap, bytes[o]) /\ bytes' = [bytes EXCEPT ![o] = Gone]
    /\ contents' = [contents EXCEPT ![o] = <<>>]
    /\ linear' = forget(bytes[o]) /\ written' = written \ {bytes[o].ptr}
    /\ UNCHANGED <<nesting, stopped>>

(* The move constructor leaves an empty string behind; the first blob learns where it is pointed from *)
move(h, o, b) == IF b.external THEN [h EXCEPT ![b.ptr].backref = <<"object", o>>] ELSE h

(* operator=(managed_bytes&&), and the move constructor when o is not there yet *)
assign_move(o, p) ==
    /\ Holds(p) /\ o # p /\ ~stopped
    /\ heap' = move(FreeChain(heap, bytes[o]), o, bytes[p])
    /\ bytes' = [bytes EXCEPT ![o] = bytes[p], ![p] = Inline(<<>>)]
    /\ contents' = [contents EXCEPT ![o] = contents[p], ![p] = <<>>]
    /\ linear' = forget(bytes[o]) /\ written' = IF bytes[o].external THEN written \ {bytes[o].ptr} ELSE written
    /\ UNCHANGED <<nesting, stopped>>

(* operator=(const managed_bytes&): a copy, which is moved over what is there *)
assign_copy(o, p, seg) ==
    LET tmp == Build(heap, o, Value(bytes[p]), seg)
    IN /\ Holds(o) /\ Holds(p) /\ o # p /\ Room(Value(bytes[p]), seg)
       /\ heap' = move(FreeChain(tmp.heap, bytes[o]), o, tmp.b)
       /\ bytes' = [bytes EXCEPT ![o] = tmp.b]
       /\ contents' = [contents EXCEPT ![o] = contents[p]]
       /\ linear' = forget(bytes[o]) /\ written' = IF bytes[o].external THEN written \ {bytes[o].ptr} ELSE written
       /\ UNCHANGED <<nesting, stopped>>

(* A write through operator[] *)
Set(o, index, c) ==
    LET at == value_at_index(bytes[o], index)
    IN /\ Holds(o) /\ index < Len(contents[o])
       /\ IF bytes[o].external
          THEN heap' = [heap EXCEPT ![at[1]].frag[at[2]] = c] /\ bytes' = bytes
          ELSE bytes' = [bytes EXCEPT ![o].small[index + 1] = c] /\ heap' = heap
       /\ contents' = [contents EXCEPT ![o][index + 1] = c]
       /\ written' = IF bytes[o].external /\ bytes[o].ptr \in DOMAIN linear THEN written \cup {bytes[o].ptr} ELSE written
       /\ UNCHANGED <<nesting, linear, stopped>>

(* data(): the bytes, or the copy of them, which is made once in a context *)
data(o) ==
    LET first == bytes[o].ptr
    IN /\ Holds(o) /\ is_fragmented(bytes[o])
       /\ IF nesting = 0 THEN stopped' = TRUE /\ linear' = linear
          ELSE /\ linear' = IF first \in DOMAIN linear THEN linear ELSE (first :> Walk(heap, first)) @@ linear
               /\ stopped' = FALSE
       /\ UNCHANGED <<heap, bytes, contents, nesting, written>>

enter == ~stopped /\ nesting < MaxNesting /\ nesting' = nesting + 1 /\ UNCHANGED <<heap, bytes, contents, linear, written, stopped>>
leave ==
    /\ ~stopped /\ nesting > 0 /\ nesting' = nesting - 1
    /\ linear' = IF nesting = 1 THEN [a \in {} |-> <<>>] ELSE linear
    /\ written' = IF nesting = 1 THEN {} ELSE written
    /\ UNCHANGED <<heap, bytes, contents, stopped>>

(* The move constructor of blob_storage, run by compaction: what points to the blob, and the *)
(* blob behind it, are told                                                                  *)
migrate(a, dst) ==
    LET b == heap[a]
        moved == [heap EXCEPT ![dst] = b, ![a] = NoBlob]
        linked == IF b.next = 0 THEN moved ELSE [moved EXCEPT ![b.next].backref = <<"blob", dst>>]
    IN /\ b.used /\ ~heap[dst].used /\ nesting = 0 /\ ~stopped
       /\ IF b.backref[1] = "object"
          THEN heap' = linked /\ bytes' = [bytes EXCEPT ![b.backref[2]].ptr = dst]
          ELSE heap' = [linked EXCEPT ![b.backref[2]].next = dst] /\ bytes' = bytes
       /\ UNCHANGED <<contents, nesting, linear, written, stopped>>

MbNext ==
    \/ \E o \in Objects, v \in Strings, seg \in Segs : construct(o, v, seg)
    \/ \E o, p \in Objects : assign_move(o, p) \/ \E seg \in Segs : copy(o, p, seg) \/ assign_copy(o, p, seg)
    \/ \E o \in Objects : destroy(o) \/ data(o) \/ \E i \in 0..Max({Len(v) : v \in Strings}) : Set(o, i, 0)
    \/ enter \/ leave
    \/ \E a, dst \in Addresses : migrate(a, dst)

(* operator==: pieces up to the next end of a fragment on either side are compared *)
equal(b, c) ==
    LET total == Len(Value(b))
        ends(d) == {0} \cup {Len(Walk(heap, d.ptr)) - Len(Walk(heap, heap[a].next)) : a \in Range(Chain(heap, d.ptr))}
        piece(d, i, j) == SubSeq(Value(d), i + 1, j)
        from[i \in 0..total] ==
            LET j == Min({e \in ends(b) \cup ends(c) : e > i})
            IN i = total \/ (piece(b, i, j) = piece(c, i, j) /\ from[j])
    IN /\ total = Len(Value(c))
       /\ IF b.external THEN from[0] ELSE b.small = c.small

(* Every string is what was put into it, through all moves of objects and blobs: chains *)
(* are whole, disjoint and known to the blobs in them, no blob is left over, and        *)
(* comparison sees through different fragments (managed_bytes, blob_storage).           *)
ChainsExact ==
    LET chains == [o \in Objects |-> IF bytes[o].external THEN Chain(heap, bytes[o].ptr) ELSE <<>>]
        from(o, i) == IF i = 1 THEN <<"object", o>> ELSE <<"blob", chains[o][i - 1]>>
    IN /\ \A o \in Objects : Value(bytes[o]) = contents[o]
       /\ \A o \in Objects : \A i \in DOMAIN chains[o] :
             LET b == heap[chains[o][i]]
             IN b.used /\ b.backref = from(o, i) /\ b.size = IF i = 1 THEN Len(contents[o]) ELSE 0
       /\ \A a \in Addresses : heap[a].used => \E o \in Objects : Contains(chains[o], a)
       /\ \A o, p \in Objects : equal(bytes[o], bytes[p]) <=> contents[o] = contents[p]

(* Within a context a fragmented string that is not written to reads as what it holds,  *)
(* also when it lies where another one was freed (free_chain, forget, do_linearize).    *)
LinearizedFresh ==
    \A o \in Objects : is_fragmented(bytes[o]) /\ bytes[o].ptr \in DOMAIN linear \ written =>
        linear[bytes[o].ptr] = contents[o]
=============================================================================
