--------------------------- MODULE ManagedVector ---------------------------
(***************************************************************************)
(* utils/managed_vector.hh: a vector whose elements are inside of it while   *)
(* they are few, and else in an object of the log-structured allocator,      *)
(* which may move it and therefore knows the vector it belongs to.           *)
(* A vector itself may be moved, too.                                        *)
(***************************************************************************)
EXTENDS Integers, Sequences, FiniteSets, SequencesExt

CONSTANTS
    Vectors, Values,
    InternalSize, Headroom,   \* elements inside, and the 8 by which the first external one exceeds them
    MaxAddress, MaxSize

VARIABLES
    heap,       \* address |-> external: backref, elements, capacity
    vec,        \* vector |-> managed_vector
    contents    \* history: what it should hold

vecVars == <<heap, vec, contents>>

Addresses == 1..MaxAddress
Nothing == [used |-> FALSE, backref |-> <<>>, data |-> <<>>, capacity |-> 0]
Unborn == [live |-> FALSE, size |-> 0, capacity |-> InternalSize, ptr |-> 0, internal |-> <<>>]
Empty == [Unborn EXCEPT !.live = TRUE]

is_external(v) == v.ptr # 0
Data(h, v) == IF is_external(v) THEN h[v.ptr].data ELSE v.internal
Larger(a, b) == IF a > b THEN a ELSE b
Free(h) == {a \in Addresses : ~h[a].used}

(* A store to the elements of a vector *)
Store(s, o, data) ==
    IF is_external(s.vec[o])
    THEN [s EXCEPT !.heap[s.vec[o].ptr].data = data, !.vec[o].size = Len(data)]
    ELSE [s EXCEPT !.vec[o].internal = data, !.vec[o].size = Len(data)]

(* reserve: a new external object; the old one is freed *)
reserve(s, o, new_capacity, a) ==
    LET v == s.vec[o]
        gone == IF is_external(v) THEN [s.heap EXCEPT ![v.ptr] = Nothing] ELSE s.heap
    IN IF new_capacity <= v.capacity THEN s
       ELSE [s EXCEPT !.heap = [gone EXCEPT ![a] = [used |-> TRUE, backref |-> <<o>>, data |-> SubSeq(Data(s.heap, v), 1, v.size), capacity |-> new_capacity]],
                      !.vec[o].ptr = a, !.vec[o].capacity = new_capacity, !.vec[o].internal = <<>>]

maybe_grow(s, o, new_size, a) ==
    LET c == s.vec[o].capacity
    IN IF new_size <= c THEN s
       ELSE reserve(s, o, Larger(Larger(c + c, new_size), InternalSize + Headroom), a)

(* clear_and_release, for the vector as it is in s *)
Release(s, o) ==
    [s EXCEPT !.heap = IF is_external(s.vec[o]) THEN [s.heap EXCEPT ![s.vec[o].ptr] = Nothing] ELSE s.heap, !.vec[o] = Unborn]

(* The move constructor, into o, which is not there *)
Move_NoBackref(s, o, from) ==
    [s EXCEPT !.vec[o] = s.vec[from], !.vec[from] = Empty]

Move(s, o, from) ==
    [s EXCEPT !.heap = IF is_external(s.vec[from]) THEN [s.heap EXCEPT ![s.vec[from].ptr].backref = <<o>>] ELSE s.heap,
              !.vec[o] = s.vec[from], !.vec[from] = Empty]

Now == [heap |-> heap, vec |-> vec]
Become(s) == heap' = s.heap /\ vec' = s.vec
Is(o, data) == contents' = [contents EXCEPT ![o] = data]

VecInit ==
    /\ heap = [a \in Addresses |-> Nothing] /\ vec = [o \in Vectors |-> Unborn]
    /\ contents = [o \in Vectors |-> <<>>]

construct(o) == ~vec[o].live /\ Become([Now EXCEPT !.vec[o] = Empty]) /\ Is(o, <<>>)

(* The copy constructor: memory for all elements first *)
Copied(s, o, from, a) ==
    LET room == reserve([s EXCEPT !.vec[o] = Empty], o, s.vec[from].size, a)
    IN Store(room, o, SubSeq(Data(s.heap, s.vec[from]), 1, s.vec[from].size))

copy(o, from, a) ==
    /\ ~vec[o].live /\ vec[from].live
    /\ Become(Copied(Now, o, from, a)) /\ Is(o, contents[from])

(* operator=: a temporary copy, the destructor, and a move *)
assign_copy(o, from, a) ==
    /\ o # from /\ vec[o].live /\ vec[from].live
    /\ LET made == Copied([Now EXCEPT !.vec = (0 :> Unborn) @@ vec], 0, from, a)
           moved == Move(Release(made, o), o, 0)
       IN Become([moved EXCEPT !.vec = [x \in Vectors |-> moved.vec[x]]])
    /\ Is(o, contents[from])

assign_move(o, from) ==
    /\ o # from /\ vec[o].live /\ vec[from].live
    /\ Become(Move(Release(Now, o), o, from))
    /\ contents' = [contents EXCEPT ![o] = contents[from], ![from] = <<>>]

destroy(o) == vec[o].live /\ Become(Release(Now, o)) /\ Is(o, <<>>)

emplace_back(o, x, a) ==
    /\ vec[o].live /\ vec[o].size < MaxSize
    /\ LET s == maybe_grow(Now, o, vec[o].size + 1, a)
       IN Become(Store(s, o, Append(Data(s.heap, s.vec[o]), x)))
    /\ Is(o, Append(contents[o], x))

erase(o, i) ==
    /\ vec[o].live /\ i <= vec[o].size
    /\ Become(Store(Now, o, RemoveAt(Data(heap, vec[o]), i))) /\ Is(o, RemoveAt(contents[o], i))

resize(o, n, x, a) ==
    /\ vec[o].live
    /\ LET s == maybe_grow(Now, o, n, a)
       IN Become(Store(s, o, [i \in 1..n |-> IF i <= vec[o].size THEN Data(s.heap, s.vec[o])[i] ELSE x]))
    /\ Is(o, [i \in 1..n |-> IF i <= Len(contents[o]) THEN contents[o][i] ELSE x])

(* external(external&&): the allocator moves the object and the vector learns of it *)
migrate(a, b) ==
    /\ heap[a].used /\ ~heap[b].used
    /\ LET o == heap[a].backref[1]
       IN Become([heap |-> [heap EXCEPT ![b] = [heap[a] EXCEPT !.data = SubSeq(@, 1, vec[o].size)], ![a] = Nothing],
                  vec |-> [vec EXCEPT ![o].ptr = b]])
    /\ UNCHANGED contents

VecNext ==
    \/ \E o \in Vectors : construct(o) \/ destroy(o) \/ \E i \in 1..MaxSize : erase(o, i)
    \/ \E o, from \in Vectors : assign_move(o, from) \/ \E a \in Free(heap) : copy(o, from, a) \/ assign_copy(o, from, a)
    \/ \E o \in Vectors, x \in Values, a \in Free(heap) : emplace_back(o, x, a) \/ \E n \in 0..MaxSize : resize(o, n, x, a)
    \/ \E a, b \in Addresses : migrate(a, b)

(* Through any sequence of assignments, moves of vectors, moves by the allocator and growth: a  *)
(* vector holds what was put into it, within its capacity; its external object points back to   *)
(* it, has the capacity it is freed with, and no other object is left allocated                  *)
(* (managed_vector).                                                                             *)
VectorsExact ==
    /\ \A o \in Vectors : vec[o].live =>
          /\ SubSeq(Data(heap, vec[o]), 1, vec[o].size) = contents[o]
          /\ vec[o].size <= vec[o].capacity
          /\ is_external(vec[o]) => heap[vec[o].ptr].used /\ heap[vec[o].ptr].backref = <<o>> /\ heap[vec[o].ptr].capacity = vec[o].capacity
    /\ \A a \in Addresses : heap[a].used => \E o \in Vectors : vec[o].ptr = a
=============================================================================
