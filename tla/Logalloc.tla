------------------------------ MODULE Logalloc ------------------------------
(***************************************************************************)
(* The log-structured allocator of one shard (utils/logalloc.cc).  Memory  *)
(* comes in zones of segments; a region bumps a pointer through its active *)
(* segment, keeps closed segments in a histogram by free space, and moves  *)
(* live objects out of the sparsest ones when memory is short.  Everything *)
(* runs on one thread, but an allocation may compact or evict other        *)
(* regions, and the general allocator may ask for memory back, in the      *)
(* middle of it.  One operation of a user is one action; the state is      *)
(* threaded as a record through the functions it calls.                    *)
(***************************************************************************)
EXTENDS Integers, Sequences, FiniteSets, FiniteSetsExt, SequencesExt

CONSTANTS
    Regions,        \* ids of regions, 1..n
    Evictable,      \* those with an eviction function
    MaxObjects,     \* bound on objects alive at once
    Kinds,          \* what is allocated: [size, align]
    SegmentSize,
    MinFree,        \* min_free_space_for_compaction
    Memory,         \* segments of address space
    Gap,            \* free memory that is left to the general allocator
    MaxZone, MinZone,
    ReserveMax,     \* _emergency_reserve_max
    LsaReserve,     \* reserve of an allocating section
    Step,           \* _reclamation_step
    LargeSize,      \* malloc_usable_size of an object that is not managed
    Scenes,         \* what has been allocated and freed before
    Operations      \* bound on the operations from there

ASSUME LogallocAssumption ==
    /\ Regions \subseteq Nat /\ Evictable \subseteq Regions
    /\ \A k \in Kinds : k.size + k.align <= MinFree
    /\ MinFree <= SegmentSize

VARIABLES s, scene, left

vars == <<s, scene, left>>

None == -1

---------------------------------------------------------------------------
(* Log histogram, bit sets, occupancy *)

\* Below the minimum all are in bucket 0; at these sizes the others are exact.
bucket_of(free) == IF free < MinFree THEN 0 ELSE free - MinFree + 1

SumOf(f, S) == FoldSet(LAMBDA x, sum : sum + f[x], 0, S)

Without(seq, x) == SelectSeq(seq, LAMBDA y : y # x)

watermark(S, r) == Max({None} \cup {bucket_of(S.desc[a].free) : a \in ToSet(S.regions[r].closed)})

one_of_largest(S, r) ==
    LET closed == S.regions[r].closed
    IN  closed[Min({i \in 1..Len(closed) : bucket_of(S.desc[closed[i]].free) = watermark(S, r)})]

\* A segment whose bucket changed goes to the front of its new one.
adjust_up(closed, a, before, after) ==
    IF bucket_of(before) = bucket_of(after) THEN closed ELSE <<a>> \o Without(closed, a)

FreeCount(zone) == zone.size - Cardinality(zone.used)

FreePositions(zone) == (0..(zone.size - 1)) \ zone.used

TotalMemoryInUse(S) == S.nonlsa + S.inuse * SegmentSize

SumOfFree(S, Z) == SumOf([z \in DOMAIN S.zones |-> FreeCount(S.zones[z])], Z)

\* Free memory of the machine, in segments.
FreeMemory(S) == Memory - SumOf([z \in DOMAIN S.zones |-> S.zones[z].size], DOMAIN S.zones) - S.other

can_allocate_more_memory(S, size) == FreeMemory(S) > size + Gap

used_space(S, r) ==
    LET R == S.regions[r]
    IN  R.nonlsa + (R.ctotal - R.cfree)
          + IF R.active = None THEN 0 ELSE SegmentSize - S.desc[R.active].free

free_space(S, r) ==
    LET R == S.regions[r]
    IN  R.cfree + IF R.active = None THEN 0 ELSE S.desc[R.active].free

is_compactible(S, r) ==
    /\ S.regions[r].enabled
    /\ S.regions[r].cfree >= 2 * SegmentSize
    /\ watermark(S, r) > 0

---------------------------------------------------------------------------
(* Zones *)

\* The lowest span of addresses of this size that no zone has.
SpanFor(S, size) ==
    LET taken == UNION {z..(z + S.zones[z].size - 1) : z \in DOMAIN S.zones}
        fits == {b \in 0..(Memory - size) : (b..(b + size - 1)) \cap taken = {}}
    IN  IF fits = {} THEN None ELSE Min(fits)

RECURSIVE TryZone(_, _)
TryZone(S, size) ==
    IF size = 0 THEN [ok |-> FALSE, base |-> None, s |-> [S EXCEPT !.attempt = MinZone]]
    ELSE IF ~can_allocate_more_memory(S, size) \/ SpanFor(S, size) = None
         THEN TryZone(S, size \div 2)
    ELSE LET base == SpanFor(S, size)
             zone == [size |-> size, used |-> {}, free |-> [i \in 1..size |-> i - 1]]
         IN  [ok |-> TRUE, base |-> base,
              s |-> [S EXCEPT !.attempt = Min({Max({2 * size, MinZone}), MaxZone}),
                              !.zones = [b \in DOMAIN @ \cup {base} |->
                                            IF b = base THEN zone ELSE @[b]]]]

try_creating_zone(S) == TryZone(S, S.attempt)

\* Takes the first free segment of a zone.
zone_allocate(S, z) ==
    LET pos == S.zones[z].free[1]
    IN  [seg |-> z + pos,
         s |-> [S EXCEPT !.zones[z].free = Tail(@), !.zones[z].used = @ \cup {pos},
                         !.desc[z + pos].zone = z]]

deallocate_segment(S, a) ==
    LET z == S.desc[a].zone
    IN  [S EXCEPT !.notfull = IF FreeCount(S.zones[z]) = 0 THEN <<z>> \o @ ELSE @,
                  !.zones[z].used = @ \ {a - z},
                  !.zones[z].free = <<a - z>> \o @,
                  !.freeInZones = @ + 1]

---------------------------------------------------------------------------
(* Moving segments *)

\* Mutant: moves the segments of a region that is locked.
CanMove_Always(S, r) == TRUE

CanMove(S, r) == S.regions[r].enabled

\* The region takes a segment of its own at another address.
Relocated(S, r, src, dst) ==
    [S EXCEPT !.regions[r].closed = IF S.regions[r].active = src THEN @
                                    ELSE <<dst>> \o Without(@, src),
              !.regions[r].active = IF @ = src THEN dst ELSE @,
              !.bumped = @ \cup {r},
              !.items[dst] = S.items[src], !.items[src] = <<>>,
              !.where = {IF o.seg = src THEN [o EXCEPT !.seg = dst] ELSE o : o \in @}]

\* A segment moves as it is; one of a region whose reclaiming is disabled may not.
migrate_segment(S, src, dst, dz) ==
    LET r == S.desc[src].region
        moved == [S EXCEPT !.desc[dst] = [S.desc[src] EXCEPT !.zone = dz],
                           !.desc[src].managed = FALSE, !.desc[src].region = None]
    IN  IF r = None
        THEN [ok |-> TRUE, s |-> [moved EXCEPT !.reserve = <<dst>> \o Without(@, src)]]
        ELSE IF ~CanMove(S, r)
        THEN [ok |-> FALSE, s |-> [S EXCEPT !.desc[dst].zone = dz]]
        ELSE [ok |-> TRUE, s |-> Relocated(moved, r, src, dst)]

RECURSIVE migrate_segments(_, _, _, _)
migrate_segments(S, z, dz, n) ==
    LET from == S.zones[z].used
        to == FreePositions(S.zones[dz])
        cleared == [S EXCEPT !.zones[z].free = <<>>, !.zones[dz].free = <<>>]
        m == migrate_segment(cleared, z + Max(from), dz + Min(to), dz)
    IN  IF n = 0 \/ from = {} \/ to = {} THEN [ok |-> TRUE, s |-> cleared]
        ELSE IF ~m.ok THEN m
        ELSE migrate_segments([m.s EXCEPT !.zones[z].used = @ \ {Max(from)},
                                          !.zones[dz].used = @ \cup {Min(to)}],
                              z, dz, n - 1)

shrink_by(S, z, delta) ==
    LET d == Min({delta, FreeCount(S.zones[z])})
    IN  [released |-> d, s |-> [S EXCEPT !.zones[z].free = <<>>, !.zones[z].size = @ - d]]

\* Fills the holes of a zone from its end; stops at a segment that cannot move.
RECURSIVE Defragment(_, _, _)
Defragment(S, z, delta) ==
    LET zone == S.zones[z]
        last == Max({None} \cup zone.used)
        hole == Min(FreePositions(zone))
        m == migrate_segment(S, z + last, z + hole, z)
    IN  IF last < zone.size - delta THEN shrink_by(S, z, delta)
        ELSE IF ~m.ok THEN shrink_by(m.s, z, zone.size - last - 1)
        ELSE Defragment([m.s EXCEPT !.zones[z].used = (@ \ {last}) \cup {hole}], z, delta)

defragment_and_shrink_by(S, z, delta) ==
    Defragment([S EXCEPT !.zones[z].free = <<>>], z, Min({delta, FreeCount(S.zones[z])}))

Ascending(Z) == [i \in 1..Cardinality(Z) |-> CHOOSE z \in Z : Cardinality({y \in Z : y < z}) = i - 1]

\* From the highest zone down: its segments go to lower zones, and it shrinks.
ReclaimZone(acc, z, target) ==
    LET S0 == [acc.s EXCEPT !.freeInZones = @ - FreeCount(acc.s.zones[z])]
        want == target - acc.released
        Move(m, dz) ==
            IF m.stop \/ FreeCount(m.s.zones[z]) >= want THEN m
            ELSE LET n == migrate_segments(m.s, z, dz, want - FreeCount(m.s.zones[z]))
                 IN  [s |-> n.s, stop |-> ~n.ok \/ n.s.zones[z].used = {}]
        lower == Ascending({y \in DOMAIN S0.zones : y < z})
        S1 == IF S0.freeInZones = 0 THEN S0
              ELSE FoldLeft(Move, [s |-> S0, stop |-> FALSE], lower).s
        shrunk == defragment_and_shrink_by(S1, z, want)
    IN  IF acc.released >= target THEN acc
        ELSE [s |-> shrunk.s, released |-> acc.released + shrunk.released]

\* Empty zones are given back; the lists of the others are rebuilt.  An empty
\* zone that is kept, since enough was released, is in no list.
CleanZone(acc, z, target) ==
    LET zone == acc.s.zones[z]
        free == FreeCount(zone)
    IN  IF zone.used = {}
        THEN IF acc.released < target \/ free = 0
             THEN [released |-> acc.released + free,
                   s |-> [acc.s EXCEPT !.zones = [y \in DOMAIN @ \ {z} |-> @[y]]]]
             ELSE acc
        ELSE IF free = 0 THEN acc
        ELSE [acc EXCEPT !.s.freeInZones = @ + free, !.s.notfull = <<z>> \o @,
                         !.s.zones[z].free = Ascending(FreePositions(zone))]

reclaim_segments(S, target) ==
    LET order == Reverse(Ascending(DOMAIN S.zones))
        first == FoldLeft(LAMBDA acc, z : ReclaimZone(acc, z, target),
                          [s |-> [S EXCEPT !.notfull = <<>>], released |-> 0], order)
    IN  IF S.freeInZones = 0 THEN [s |-> S, released |-> 0]
        ELSE FoldLeft(LAMBDA acc, z : CleanZone(acc, z, target),
                      [first EXCEPT !.s.freeInZones = 0], order)

---------------------------------------------------------------------------
(* The pool: segments in use and the emergency reserve *)

free_or_restore_to_reserve(S, a) ==
    IF Len(S.reserve) < S.max THEN [S EXCEPT !.reserve = <<a>> \o @]
    ELSE deallocate_segment(S, a)

pool_free_segment(S, a) ==
    [free_or_restore_to_reserve([S EXCEPT !.desc[a].managed = FALSE, !.desc[a].region = None], a)
        EXCEPT !.inuse = @ - 1, !.items[a] = <<>>]

RECURSIVE trim_emergency_reserve_to_max(_, _)
trim_emergency_reserve_to_max(S, n) ==
    IF Len(S.reserve) <= S.max THEN [s |-> S, released |-> n]
    ELSE trim_emergency_reserve_to_max(
            deallocate_segment([S EXCEPT !.reserve = Tail(@)], S.reserve[1]), n + 1)

Fails(S) == [ok |-> FALSE, seg |-> None, s |-> S]

\* The first segment of the zones that are not full.
FromZone(z, got) ==
    [ok |-> TRUE, seg |-> got.seg,
     s |-> [got.s EXCEPT !.freeInZones = @ - 1,
               !.notfull = IF FreeCount(got.s.zones[z]) = 0 THEN Tail(@) ELSE @]]

\* The first one of a new zone, which is listed with the others if it has more.
FromNewZone(z, got) ==
    LET left_over == FreeCount(got.s.zones[z])
    IN  [ok |-> TRUE, seg |-> got.seg,
         s |-> [got.s EXCEPT !.freeInZones = @ + left_over,
                   !.notfull = IF left_over = 0 THEN @ ELSE <<z>> \o @]]

ZoneCreated(new) ==
    IF ~new.ok THEN Fails(new.s) ELSE FromNewZone(new.base, zone_allocate(new.s, new.base))

\* One turn of allocate_segment's loop: a zone that is not full, or a new zone.
AllocateOnce(S) ==
    IF S.notfull # <<>> THEN FromZone(S.notfull[1], zone_allocate(S, S.notfull[1]))
    ELSE IF ~can_allocate_more_memory(S, 1) THEN Fails(S)
    ELSE ZoneCreated(try_creating_zone(S))

---------------------------------------------------------------------------
(* Regions; alloc_small and compact call each other through the pool *)

RECURSIVE allocate_segment(_)
RECURSIVE alloc_small(_, _, _)
RECURSIVE compact_and_evict_locked(_, _)

AllocateAgain(more) == IF more.released = 0 THEN Fails(more.s) ELSE allocate_segment(more.s)

AllocateOrCompact(once) ==
    IF once.ok \/ ~once.s.tracker THEN once
    ELSE AllocateAgain(compact_and_evict_locked(once.s, Step * SegmentSize))

allocate_segment(S) == AllocateOrCompact(AllocateOnce(S))

Noted(got) == IF got.ok THEN got ELSE Fails([got.s EXCEPT !.failed = TRUE])

\* Mutant: ordinary allocations use up the reserve.
allocate_or_fallback_to_reserve_Drains(S) ==
    IF S.reserve # <<>>
    THEN [ok |-> TRUE, seg |-> S.reserve[1], s |-> [S EXCEPT !.reserve = Tail(@)]]
    ELSE Noted(allocate_segment(S))

\* Above its goal the reserve is used first.
allocate_or_fallback_to_reserve(S) ==
    IF Len(S.reserve) > S.goal
    THEN [ok |-> TRUE, seg |-> S.reserve[1], s |-> [S EXCEPT !.reserve = Tail(@)]]
    ELSE Noted(allocate_segment(S))

Owned(got, r) ==
    IF ~got.ok THEN got
    ELSE [got EXCEPT !.s.inuse = @ + 1, !.s.items[got.seg] = <<>>,
                     !.s.desc[got.seg].managed = TRUE, !.s.desc[got.seg].region = r,
                     !.s.desc[got.seg].free = SegmentSize]

new_segment(S, r) == Owned(allocate_or_fallback_to_reserve(S), r)

\* A dead object: a descriptor that says how much to skip.
Dead(size) == [at |-> None, size |-> size, kind |-> <<>>]

close_active(S, r) ==
    LET a == S.regions[r].active
        rest == SegmentSize - S.regions[r].offset
    IN  IF a = None THEN S
        ELSE [S EXCEPT !.items[a] = IF rest = 0 THEN @ ELSE Append(@, Dead(rest)),
                       !.regions[r].cfree = @ + S.desc[a].free,
                       !.regions[r].ctotal = @ + SegmentSize,
                       !.regions[r].closed = <<a>> \o @,
                       !.regions[r].active = None]

Activated(S, r, a) == [S EXCEPT !.regions[r].active = a, !.regions[r].offset = 0]

align_up(n, align) == ((n + align - 1) \div align) * align

AllocInNew(new, r, k) ==
    IF new.ok THEN alloc_small(Activated(close_active(new.s, r), r, new.seg), r, k) ELSE Fails(new.s)

\* Bumps the pointer of the active segment; a descriptor of one unit, stretched
\* for alignment, comes before the object.
alloc_small(S, r, k) ==
    LET R == S.regions[r]
        start == align_up(R.offset + 1, k.align)
        size == start + k.size - R.offset
    IN  IF R.active = None \/ start + k.size > SegmentSize THEN AllocInNew(new_segment(S, r), r, k)
        ELSE [ok |-> TRUE, seg |-> R.active,
              s |-> [S EXCEPT !.items[R.active] = Append(@, [at |-> start, size |-> size, kind |-> k]),
                              !.desc[R.active].free = @ - size,
                              !.regions[r].offset = start + k.size,
                              !.where = @ \cup {[seg |-> R.active, at |-> start, kind |-> k]}]]

ObjectAt(a, i) == [seg |-> a, at |-> i.at, kind |-> i.kind]

MoveObject(m, i, r, a) ==
    IF ~m.ok THEN m ELSE alloc_small([m.s EXCEPT !.where = @ \ {ObjectAt(a, i)}], r, i.kind)

Emptied(moved, a) == IF moved.ok THEN pool_free_segment(moved.s, a) ELSE [moved.s EXCEPT !.broken = TRUE]

\* Moves what is alive out of a segment and frees it.
compact(S, r, a) ==
    Emptied(FoldLeft(LAMBDA m, i : MoveObject(m, i, r, a),
                     [ok |-> TRUE, seg |-> a, s |-> [S EXCEPT !.bumped = @ \cup {r}]],
                     SelectSeq(S.items[a], LAMBDA i : i.at # None)), a)

Popped(S, r, a) ==
    [S EXCEPT !.regions[r].closed = Without(@, a), !.regions[r].cfree = @ - S.desc[a].free,
              !.regions[r].ctotal = @ - SegmentSize, !.regions[r].enabled = FALSE]

CompactSegment(S, r, a) ==
    [compact(Popped(S, r, a), r, a) EXCEPT !.regions[r].enabled = S.regions[r].enabled]

\* compact(): the sparsest closed segment, with the region locked.
compact_single_segment_locked(S, r) == CompactSegment(S, r, one_of_largest(S, r))

---------------------------------------------------------------------------
(* Freeing, eviction *)

ItemOf(S, o) == CHOOSE i \in 1..Len(S.items[o.seg]) : ObjectAt(o.seg, S.items[o.seg][i]) = o

\* Mutant: the occupancy of the closed segments is not told of the space.
free_Forgets(S, o) ==
    LET size == S.items[o.seg][ItemOf(S, o)].size
    IN  [S EXCEPT !.where = @ \ {o}, !.items[o.seg][ItemOf(S, o)] = Dead(size),
                  !.desc[o.seg].free = @ + size]

free(S, o) ==
    LET a == o.seg
        r == S.desc[a].region
        size == S.items[a][ItemOf(S, o)].size
        after == S.desc[a].free + size
        freed == [S EXCEPT !.where = @ \ {o}, !.items[a][ItemOf(S, o)] = Dead(size),
                           !.desc[a].free = after]
        erased == [freed EXCEPT !.regions[r].closed = Without(@, a),
                                !.regions[r].cfree = @ - S.desc[a].free,
                                !.regions[r].ctotal = @ - SegmentSize]
    IN  IF a = S.regions[r].active THEN freed
        ELSE IF after = SegmentSize THEN pool_free_segment(erased, a)
        ELSE [freed EXCEPT !.regions[r].cfree = @ + size,
                           !.regions[r].closed = adjust_up(@, a, S.desc[a].free, after)]

free_large(S, r) == [S EXCEPT !.regions[r].nonlsa = @ - LargeSize, !.nonlsa = @ - LargeSize]

ObjectsOf(S, r) == {o \in S.where : S.desc[o.seg].region = r}

FirstOf(O) == CHOOSE o \in O : \A p \in O : o.seg < p.seg \/ (o.seg = p.seg /\ o.at <= p.at)

is_evictable(S, r) == r \in Evictable /\ S.regions[r].enabled

\* The eviction function: frees one object, if there is one.
evict_some(S, r) ==
    LET bumped == [S EXCEPT !.bumped = @ \cup {r}]
    IN  IF ObjectsOf(S, r) = {} THEN [some |-> FALSE, s |-> bumped]
        ELSE [some |-> TRUE, s |-> free(bumped, FirstOf(ObjectsOf(S, r)))]

\* What a size_t below zero is, at these sizes.
Wrapped == 2 * Memory * SegmentSize

\* Evicts until enough is used no more, and compacts, until the target is met.
RECURSIVE EvictDown(_, _, _, _)
Evicted(e, r, usedTarget, target) ==
    IF ~e.some \/ TotalMemoryInUse(e.s) <= target \/ used_space(e.s, r) = 0
    THEN [done |-> TRUE, s |-> e.s]
    ELSE EvictDown(e.s, r, usedTarget, target)

EvictDown(S, r, usedTarget, target) ==
    IF used_space(S, r) <= usedTarget /\ is_compactible(S, r) THEN [done |-> FALSE, s |-> S]
    ELSE Evicted(evict_some(S, r), r, usedTarget, target)

RECURSIVE reclaim_from_evictable(_, _, _)
ThenCompact(e, r, target) ==
    IF e.done THEN e.s ELSE reclaim_from_evictable(compact_single_segment_locked(e.s, r), r, target)

reclaim_from_evictable(S, r, target) ==
    LET over == TotalMemoryInUse(S) - target
        deficit == IF over < 0 THEN Wrapped ELSE over
        used == used_space(S, r)
        usedTarget == used - Min({used, deficit - Min({deficit, free_space(S, r)})})
    IN  IF used = 0 THEN S ELSE ThenCompact(EvictDown(S, r, usedTarget, target), r, target)

---------------------------------------------------------------------------
(* The tracker *)

Alive(S) == {r \in Regions : S.regions[r].alive}

\* The top of the heap: a compactible region with the sparsest segment, or none.
Sparsest(S) ==
    LET C == {r \in Alive(S) : is_compactible(S, r)}
        Best(r) == \A q \in C : S.desc[one_of_largest(S, q)].free <= S.desc[one_of_largest(S, r)].free
    IN  IF C = {} THEN None ELSE Min({r \in C : Best(r)})

RECURSIVE CompactDown(_, _)
CompactFrom(S, r, target) ==
    IF r = None THEN S ELSE CompactDown(compact_single_segment_locked(S, r), target)

CompactDown(S, target) ==
    IF TotalMemoryInUse(S) <= target \/ S.broken THEN S ELSE CompactFrom(S, Sparsest(S), target)

EvictFrom(S, r, target) ==
    IF TotalMemoryInUse(S) > target /\ is_evictable(S, r) THEN reclaim_from_evictable(S, r, target) ELSE S

CompactAndEvict(S, target) ==
    FoldLeft(LAMBDA S1, r : EvictFrom(S1, r, target),
             CompactDown([S EXCEPT !.tracker = FALSE, !.goal = 0], target), Ascending(Alive(S)))

Recovered(S, before, S1) ==
    [s |-> [S1 EXCEPT !.tracker = S.tracker, !.goal = S.goal], released |-> before - TotalMemoryInUse(S1)]

\* What trimming the reserve gives counts; the rest comes from regions.
compact_and_evict_trimmed(S, released, before, want) ==
    IF released >= want THEN [s |-> S, released |-> released]
    ELSE Recovered(S, released + before, CompactAndEvict(S, before - Min({before, want - released})))

ReserveTrimmed(t, want) == compact_and_evict_trimmed(t.s, t.released * SegmentSize, TotalMemoryInUse(t.s), want)

compact_and_evict_locked(S, want) == ReserveTrimmed(trim_emergency_reserve_to_max(S, 0), want)

ReclaimRest(S, mem, bytes) == IF mem > bytes THEN S ELSE compact_and_evict_locked(S, bytes - mem).s

SegmentsReclaimed(given, bytes) ==
    [ReclaimRest(given.s, given.released * SegmentSize, bytes) EXCEPT !.tracker = TRUE]

reclaim(S, bytes) ==
    LET segments == (bytes + SegmentSize - 1) \div SegmentSize
    IN  IF ~S.tracker THEN S
        ELSE SegmentsReclaimed(reclaim_segments([S EXCEPT !.tracker = FALSE], segments), bytes)

Locked(S, r) == [S EXCEPT !.regions[r].enabled = FALSE]

RestoredTo(S, r, enabled) == [S EXCEPT !.regions[r].enabled = enabled]

\* alloc of an object that is not managed: the general allocator may reclaim.
AllocLargeIn(S, r, bytes) ==
    [RestoredTo(IF bytes = 0 THEN S ELSE reclaim(Locked(S, r), bytes), r, S.regions[r].enabled)
        EXCEPT !.regions[r].nonlsa = @ + LargeSize, !.nonlsa = @ + LargeSize]

alloc(S, r, k) ==
    [alloc_small(Locked(S, r), r, k) EXCEPT !.s = RestoredTo(@, r, S.regions[r].enabled)]

RECURSIVE refill_emergency_reserve(_)
RefillWith(got) ==
    IF ~got.ok THEN [ok |-> FALSE, s |-> got.s]
    ELSE refill_emergency_reserve([got.s EXCEPT !.reserve = <<got.seg>> \o @])

refill_emergency_reserve(S) ==
    IF Len(S.reserve) >= S.max THEN [ok |-> TRUE, s |-> S] ELSE RefillWith(allocate_segment(S))

\* allocating_section: reserve segments, allocate with the region locked, and try
\* again with a doubled reserve; the bound of the reserve is restored at the end.
\* The head-room for the general allocator is taken to be there.
RECURSIVE Section(_, _, _, _)
SectionLeft(S, max) == [S EXCEPT !.max = max]

SectionRun(got, max, r, k, lsaReserve) ==
    IF got.ok THEN SectionLeft(got.s, max)
    ELSE Section(SectionLeft(got.s, max), r, k, 2 * lsaReserve)

SectionEntered(e, max, r, k, lsaReserve) ==
    IF ~e.ok THEN SectionLeft(e.s, max)
    ELSE SectionRun(alloc([e.s EXCEPT !.failed = FALSE], r, k), max, r, k, lsaReserve)

Section(S, r, k, lsaReserve) ==
    SectionEntered(refill_emergency_reserve([S EXCEPT !.max = Max({lsaReserve, S.max})]),
                   S.max, r, k, lsaReserve)

NewRegion == [alive |-> TRUE, active |-> None, offset |-> 0, closed |-> <<>>, cfree |-> 0,
              ctotal |-> 0, nonlsa |-> 0, enabled |-> TRUE]

\* Merges another region into this one, which then owns its objects.
merge(S, r, q) ==
    LET R == S.regions[r]
        dropped == IF R.active # None /\ S.desc[R.active].free = SegmentSize
                   THEN [pool_free_segment(S, R.active) EXCEPT !.regions[r].active = None] ELSE S
        taken == IF dropped.regions[r].active = None
                 THEN [dropped EXCEPT !.regions[r].active = S.regions[q].active,
                                      !.regions[r].offset = S.regions[q].offset,
                                      !.regions[q].active = None]
                 ELSE close_active(dropped, q)
        Q == taken.regions[q]
    IN  [taken EXCEPT
           !.regions[r].closed = Q.closed \o @, !.regions[r].cfree = @ + Q.cfree,
           !.regions[r].ctotal = @ + Q.ctotal, !.regions[r].nonlsa = @ + Q.nonlsa,
           !.regions[q] = [NewRegion EXCEPT !.alive = FALSE],
           !.desc = [a \in DOMAIN @ |-> IF @[a].region = q THEN [@[a] EXCEPT !.region = r] ELSE @[a]]]

---------------------------------------------------------------------------
(* What the program does *)

\* Objects of all kinds alive, within the bound.
CanAllocate == Cardinality(s.where) + s.nonlsa \div LargeSize < MaxObjects

Started == [s EXCEPT !.bumped = {}, !.failed = FALSE]

Serving == ~s.broken /\ scene = <<>> /\ left > 0 /\ left' = left - 1 /\ UNCHANGED scene

Alloc(r, k) ==
    /\ Serving /\ CanAllocate /\ r \in Alive(s)
    /\ s' = alloc(Started, r, k).s

AllocLarge(r, bytes) ==
    /\ Serving /\ CanAllocate /\ r \in Alive(s)
    /\ s' = AllocLargeIn(Started, r, bytes)

AllocInSection(r, k) ==
    /\ Serving /\ CanAllocate /\ r \in Alive(s) /\ s.regions[r].enabled
    /\ s' = Section(Started, r, k, LsaReserve)

Free(o) ==
    /\ Serving
    /\ s' = free(Started, o)

FreeLarge(r) ==
    /\ Serving /\ r \in Alive(s) /\ s.regions[r].nonlsa > 0
    /\ s' = free_large(Started, r)

\* reclaim_lock, taken and released.
SetReclaimingEnabled(r) ==
    /\ Serving /\ r \in Alive(s)
    /\ s' = [Started EXCEPT !.regions[r].enabled = ~@]

Merge(r, q) ==
    /\ Serving /\ {r, q} \subseteq Alive(s) /\ r # q
    /\ s' = merge(Started, r, q)

\* The general allocator asks for memory.
Reclaim(bytes) ==
    /\ Serving
    /\ s' = reclaim(Started, bytes)

\* One round of the idle handler's loop.
compact_on_idle ==
    /\ Serving /\ Sparsest(s) # None
    /\ s' = [compact_single_segment_locked([Started EXCEPT !.tracker = FALSE, !.goal = 0],
                                           Sparsest(s)) EXCEPT !.tracker = TRUE, !.goal = s.goal]

\* Memory in use elsewhere on the machine.
OtherUse(n) ==
    /\ Serving /\ s.other + n >= 0 /\ (n > 0 => FreeMemory(s) > Gap)
    /\ s' = [Started EXCEPT !.other = @ + n]

\* A region that owns nothing is destroyed; closed segments left over are empty.
Destroy(r) ==
    LET R == s.regions[r]
        segments == R.closed \o IF R.active = None THEN <<>> ELSE <<R.active>>
    IN  /\ Serving /\ r \in Alive(s) /\ ObjectsOf(s, r) = {} /\ R.nonlsa = 0
        /\ s' = [FoldLeft(pool_free_segment, Started, segments)
                    EXCEPT !.regions[r] = [NewRegion EXCEPT !.alive = FALSE]]

Empty == [zones |-> <<>>, notfull |-> <<>>, freeInZones |-> 0, attempt |-> MaxZone,
          desc |-> [a \in 0..(Memory - 1) |->
                       [managed |-> FALSE, region |-> None, zone |-> None, free |-> 0]],
          items |-> [a \in 0..(Memory - 1) |-> <<>>], where |-> {},
          reserve |-> <<>>, goal |-> 1, max |-> ReserveMax, failed |-> FALSE,
          inuse |-> 0, nonlsa |-> 0, other |-> 0, tracker |-> TRUE, bumped |-> {},
          broken |-> FALSE, regions |-> [r \in Regions |-> NewRegion]]

\* The scene is set: an object is allocated, or the first one of a region that
\* lies at some offset is freed.
Prepare ==
    /\ scene # <<>>
    /\ LET op == scene[1]
       IN  s' = IF op.op = "alloc" THEN alloc(s, op.region, op.kind).s
                ELSE free(s, FirstOf({o \in ObjectsOf(s, op.region) : o.at = op.at}))
    /\ scene' = Tail(scene)
    /\ UNCHANGED left

\* The pool starts with one segment in reserve.
Reserved(first) == [first.s EXCEPT !.reserve = <<first.seg>>]

Init ==
    /\ s = Reserved(allocate_segment(Empty))
    /\ scene \in Scenes
    /\ left = Operations

Next ==
    \/ Prepare
    \/ \E r \in Regions, k \in Kinds : Alloc(r, k) \/ AllocInSection(r, k)
    \/ \E r \in Regions, bytes \in {0, SegmentSize} : AllocLarge(r, bytes)
    \/ \E o \in s.where : Free(o)
    \/ \E r \in Regions : FreeLarge(r) \/ SetReclaimingEnabled(r) \/ Destroy(r)
    \/ \E r, q \in Regions : Merge(r, q)
    \/ \E bytes \in {1, 2 * SegmentSize} : Reclaim(bytes)
    \/ compact_on_idle
    \/ \E n \in {-1, 1} : OtherUse(n)

Spec == Init /\ [][Next]_vars

---------------------------------------------------------------------------
(* Properties *)

LiveSize(S, a) == FoldLeft(LAMBDA sum, i : IF i.at = None THEN sum ELSE sum + i.size, 0, S.items[a])

Managed == {a \in DOMAIN s.desc : s.desc[a].managed}

\* Whatever was moved, merged or evicted on the way: the pointers that owners hold
\* are exactly the live objects of the segments, aligned and within their place,
\* and each such segment is the active or a closed one of the region it names.
ObjectsIntact ==
    /\ s.where = UNION {{ObjectAt(a, i) : i \in {x \in ToSet(s.items[a]) : x.at # None}}
                           : a \in Managed}
    /\ \A a \in Managed :
        /\ LET R == s.regions[s.desc[a].region] IN R.alive /\ (a = R.active \/ a \in ToSet(R.closed))
        /\ \A i \in 1..Len(s.items[a]) :
            LET item == s.items[a][i]
                end == FoldLeft(LAMBDA sum, x : sum + x.size, 0, SubSeq(s.items[a], 1, i))
            IN  end <= SegmentSize /\ (item.at # None => /\ item.at + item.kind.size = end
                                                         /\ item.at % item.kind.align = 0)

\* The figures that decide what to compact are true: the free space of a segment,
\* the occupancy of a region's closed segments, and the memory in use.
SpaceAccounted ==
    /\ \A a \in Managed : s.desc[a].free = SegmentSize - LiveSize(s, a)
    /\ \A r \in Regions :
        LET closed == s.regions[r].closed
        IN  /\ s.regions[r].cfree = FoldLeft(LAMBDA sum, a : sum + s.desc[a].free, 0, closed)
            /\ s.regions[r].ctotal = Len(closed) * SegmentSize
    /\ s.inuse = Cardinality(Managed)

\* Segments are neither lost nor given out twice: the used segments of the zones
\* are those of regions and of the reserve, each knows its zone, and what is
\* counted as free is what the zones that are listed can give.
ZonesAccounted ==
    /\ UNION {{z + p : p \in s.zones[z].used} : z \in DOMAIN s.zones}
            = Managed \cup ToSet(s.reserve)
    /\ Managed \cap ToSet(s.reserve) = {}
    /\ \A z \in DOMAIN s.zones : \A p \in s.zones[z].used : s.desc[z + p].zone = z
    /\ s.freeInZones = SumOfFree(s, ToSet(s.notfull))
    /\ \A z \in ToSet(s.notfull) : /\ IsInjective(s.zones[z].free)
                                   /\ ToSet(s.zones[z].free) = FreePositions(s.zones[z])

\* Objects, occupancy and zones agree: what region_impl, segment_pool and zones
\* count is what there is, and what owners point to.
AllocatorConsistent == ObjectsIntact /\ SpaceAccounted /\ ZonesAccounted

\* Moving the objects of a segment never runs out of memory: what the reserve
\* holds when a compaction starts is enough for it, so no exception leaves a
\* region half moved.
CompactionFits == ~s.broken

\* A reference into a region goes stale only with a change of its reclaim counter,
\* and never while reclaiming is disabled: reclaim_lock "forces references into
\* the region to remain valid".
MovesAreTold ==
    [][\A o \in s.where : o \notin s'.where =>
          LET r == s.desc[o.seg].region
          IN  \/ r \in s'.bumped /\ s.regions[r].enabled
              \/ s'.where = s.where \ {o}]_vars

=============================================================================
