------------------------------ MODULE MCMemory ------------------------------
(***************************************************************************)
(* The log-structured allocator, the containers that live in its segments   *)
(* or are told by it of moves, and the bit sets and the histogram it is made *)
(* of.  A behaviour is one of one of them, `lib`; the containers share the   *)
(* variables c1 to c7.                                                      *)
(***************************************************************************)
EXTENDS Logalloc

CONSTANTS o1, o2, e1, e2, e3

VARIABLES lib, c1, c2, c3, c4, c5, c6, c7

\* Three of the small objects fill a segment of six units, or one of each kind.
Small == [size |-> 1, align |-> 1]

Wide == [size |-> 2, align |-> 2]

MCKinds == {Small, Wide}

Allocs(r, n) == [i \in 1..n |-> [op |-> "alloc", region |-> r, kind |-> Small]]

Frees(r, at, n) == [i \in 1..n |-> [op |-> "free", region |-> r, at |-> at]]

\* Nothing; closed segments with one object of three left; the same in two regions.
MCScenes ==
    {<<>>,
     Allocs(1, 10) \o Frees(1, 1, 4) \o Frees(1, 3, 3),
     Allocs(1, 10) \o Frees(1, 1, 4) \o Allocs(2, 4) \o Frees(1, 5, 3)}

MCStrings == {<<1>>, <<0, 1>>, <<0, 1, 1>>}
B == INSTANCE ManagedBytes WITH Strings <- MCStrings, Objects <- {o1, o2}, MaxAddress <- 4, max_inline_size <- 1,
                                Segs <- {2, 3}, MaxNesting <- 1, heap <- c1, bytes <- c2, contents <- c3,
                                nesting <- c4, linear <- c5, written <- c6, stopped <- c7

V == INSTANCE ManagedVector WITH Vectors <- {1, 2}, Values <- {0, 1}, InternalSize <- 1, Headroom <- 1,
                                 MaxAddress <- 3, MaxSize <- 3, heap <- c1, vec <- c2, contents <- c3

\* Pieces that fit in a chunk, fill one, and need several.
MCPieces == {<<>>, <<1>>, <<2, 1>>, <<1, 1, 2, 1, 2, 2>>}
O == INSTANCE BytesOstream WITH Pieces <- MCPieces, MaxText <- 7, chunk_size <- 3, max_chunk_size <- 4, Header <- 1,
                                stream <- c1, text <- c2, holder <- c3, mark <- c4

\* Words of three bits: sets that end within a word, and on its edge.
S == INSTANCE Bitsets WITH bits_per_int <- 3, ints_per_block <- 2, MaxBits <- 7, nr_bits <- 10,
                           bits <- c1, bits_count <- c2, ref <- c3, storage <- c4, large_ref <- c5

H == INSTANCE LogHistogram WITH Elements <- {e1, e2, e3}, min_size <- 2, sub_bucket_shift <- 1, max_size <- 6,
                                key <- c1, cached <- c2, hist <- c3

---------------------------------------------------------------------------

containers == <<c1, c2, c3, c4, c5, c6, c7>>

MCInit ==
    /\ Init
    /\ \/ lib = "allocator" /\ c1 = 0 /\ c2 = 0 /\ c3 = 0 /\ c4 = 0 /\ c5 = 0 /\ c6 = 0 /\ c7 = 0
       \/ /\ scene = <<>>
          /\ \/ lib = "bytes" /\ B!MbInit
             \/ lib = "vector" /\ V!VecInit /\ c4 = 0 /\ c5 = 0 /\ c6 = 0 /\ c7 = 0
             \/ lib = "stream" /\ O!OsInit /\ c5 = 0 /\ c6 = 0 /\ c7 = 0
             \/ lib = "bits" /\ S!BitsInit /\ c6 = 0 /\ c7 = 0
             \/ lib = "histogram" /\ H!HistInit /\ c4 = 0 /\ c5 = 0 /\ c6 = 0 /\ c7 = 0

MCNext ==
    \/ lib = "allocator" /\ Next /\ UNCHANGED <<lib, containers>>
    \/ lib = "bytes" /\ B!MbNext /\ UNCHANGED <<lib, vars>>
    \/ lib = "vector" /\ V!VecNext /\ UNCHANGED <<lib, vars, c4, c5, c6, c7>>
    \/ lib = "stream" /\ O!OsNext /\ UNCHANGED <<lib, vars, c5, c6, c7>>
    \/ lib = "bits" /\ S!BitsNext /\ UNCHANGED <<lib, vars, c6, c7>>
    \/ lib = "histogram" /\ H!HistNext /\ UNCHANGED <<lib, vars, c4, c5, c6, c7>>

MCSpec == MCInit /\ [][MCNext]_<<lib, vars, containers>>

---------------------------------------------------------------------------
\* Fragmented byte strings, vectors and streams hold what was put into them,
\* while their memory is moved and linearized, and searches in bit sets and
\* histograms find what the plain definitions do: ChainsExact and
\* LinearizedFresh of ManagedBytes, VectorsExact, TextExact, FindExact and
\* LargeExact of Bitsets, LargestFound.
ContainersExact ==
    /\ lib = "bytes" => B!ChainsExact /\ B!LinearizedFresh
    /\ lib = "vector" => V!VectorsExact
    /\ lib = "stream" => O!TextExact
    /\ lib = "bits" => S!FindExact /\ S!LargeExact
    /\ lib = "histogram" => H!LargestFound
=============================================================================
