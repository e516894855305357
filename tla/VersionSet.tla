---------------------------- MODULE VersionSet ----------------------------
(***************************************************************************)
(* The version set of the store (store/version_set, version_edit and       *)
(* dbformat): which table files make up the database at each level, how an *)
(* edit makes a new version and reaches the manifest, how a compaction     *)
(* chooses its inputs, how a read searches the levels, and what a restart  *)
(* finds.                                                                  *)
(*                                                                         *)
(* An internal key is <<user key, sequence number, type>>.  A file is its  *)
(* metadata; what a table holds is in disk.tables.  A file_meta_data       *)
(* object is named by its level and number, since a file that is moved     *)
(* down a level gets a new object with the old number.  Pointers that may  *)
(* be null and fields that may be absent are <<>> or <<x>>.                *)
(*                                                                         *)
(* The caller of a version set (leveldb's DBImpl) is not part of the       *)
(* repository.  It is modelled as the comments of version_set.hh ask for:  *)
(* one background thread flushes and compacts, no LogAndApply overlaps     *)
(* another, readers hold a version while they read, files that no version  *)
(* and no running job needs are deleted, and nothing is written after a    *)
(* write of the manifest has failed.                                       *)
(***************************************************************************)
EXTENDS Integers, Sequences, FiniteSets, SequencesExt

CONSTANTS
    Users,               \* user keys, integers
    Batches,             \* what one memtable holds: functions from user keys to types
    Readers,
    NumLevels,           \* kNumLevels, 7 in the code
    L0Trigger,           \* kL0_CompactionTrigger, 4
    MaxMemCompactLevel,  \* kMaxMemCompactLevel, 2
    TargetSize,          \* max_file_size, in entries
    GrandParentFactor,   \* 10
    ExpandFactor,        \* 25
    Level1Size,          \* bytes allowed at level 1, 10 MB
    LevelFactor,         \* 10
    AllowedSeeks,        \* at least 100 in the code
    ReuseLogs,           \* options.reuse_logs
    ManifestLimit,       \* records of a manifest that is too big to be reused
    StubCurrent,         \* set_current_file as it is in filename.cc: it does nothing
    MaxSequence,         \* bound on sequence numbers
    MaxFileNumber,       \* bound on file numbers
    Budgets              \* bounds on faults and requests: a set of [faults, requests]

VARIABLES
    vset,      \* fields of version_set
    heap,      \* [versions, meta]: version and file_meta_data objects
    disk,      \* [current, manifests, tables]
    job,       \* what the background thread is doing
    reader,    \* reader -> <<>> or <<version, sequence number, what it must see>>
    shows,     \* user key -> sequence number that a read must find, 0 for none
    durable,   \* the same for a read after a crash now
    budget     \* how many more faults and requests there may be

vars == <<vset, heap, disk, job, reader, shows, durable, budget>>

Levels == 0..(NumLevels - 1)
kTypeDeletion == 0
kTypeValue == 1
kMaxSequenceNumber == MaxSequence + 1

---------------------------------------------------------------------------
(* dbformat: the order of internal keys *)

\* Increasing user key, then decreasing sequence number and type.
InternalKeyLess(a, b) ==
    \/ a[1] < b[1]
    \/ a[1] = b[1] /\ a[2] > b[2]
    \/ a[1] = b[1] /\ a[2] = b[2] /\ a[3] > b[3]

\* The elements of S in the order of their internal keys.
InOrder(S) ==
    [i \in 1..Cardinality(S) |->
        CHOOSE x \in S : Cardinality({y \in S : InternalKeyLess(y, x)}) = i - 1]

BySmallestKey(f1, f2) ==
    \/ InternalKeyLess(f1.smallest, f2.smallest)
    \/ f1.smallest = f2.smallest /\ f1.number < f2.number

FilesInOrder(S) ==
    [i \in 1..Cardinality(S) |->
        CHOOSE f \in S : Cardinality({g \in S : BySmallestKey(g, f)}) = i - 1]

NewestFirst(S) ==
    [i \in 1..Cardinality(S) |->
        CHOOSE f \in S : Cardinality({g \in S : g.number > f.number}) = i - 1]

\* The metadata of a table with these entries.
FileOf(number, entries) ==
    LET keys == InOrder(entries)
    IN  [number |-> number, size |-> Len(keys),
         smallest |-> keys[1], largest |-> keys[Len(keys)]]

---------------------------------------------------------------------------
(* Sizes *)

MaxGrandParentOverlapBytes == GrandParentFactor * TargetSize

ExpandedCompactionByteSizeLimit == ExpandFactor * TargetSize

MaxBytesForLevel(level) ==
    IF level > 1 THEN Level1Size * LevelFactor ^ (level - 1) ELSE Level1Size

TotalFileSize(files) == FoldLeft(LAMBDA sum, f : sum + f.size, 0, files)

---------------------------------------------------------------------------
(* Searching the files of a version *)

\* Index, from 0, of the first file whose largest key is not before key.
FindFile(files, key) ==
    LET search[left \in 0..Len(files), right \in 0..Len(files)] ==
            LET mid == (left + right) \div 2
            IN  IF left >= right THEN right
                ELSE IF InternalKeyLess(files[mid + 1].largest, key)
                     THEN search[mid + 1, right]
                     ELSE search[left, mid]
    IN  search[0, Len(files)]

AfterFile(user, f) == user # <<>> /\ user[1] > f.largest[1]

BeforeFile(user, f) == user # <<>> /\ user[1] < f.smallest[1]

SomeFileOverlapsRange(disjoint, files, smallest, largest) ==
    IF disjoint
    THEN LET index == IF smallest = <<>> THEN 0
                      ELSE FindFile(files, <<smallest[1], kMaxSequenceNumber, kTypeValue>>)
         IN  index < Len(files) /\ ~BeforeFile(largest, files[index + 1])
    ELSE \E f \in ToSet(files) : ~AfterFile(smallest, f) /\ ~BeforeFile(largest, f)

OverlapInLevel(files, level, smallest, largest) ==
    SomeFileOverlapsRange(level > 0, files[level], smallest, largest)

\* A range widened to the files it meets; a null end stays null.
Widened(files, range) ==
    LET met == {f \in ToSet(files) : ~AfterFile(range[1], f) /\ ~BeforeFile(range[2], f)}
        starts == {f.smallest[1] : f \in met}
        limits == {f.largest[1] : f \in met}
    IN  <<IF range[1] = <<>> THEN <<>> ELSE <<Min({range[1][1]} \cup starts)>>,
          IF range[2] = <<>> THEN <<>> ELSE <<Max({range[2][1]} \cup limits)>> >>

\* Level-0 files may overlap, so there the search starts again whenever a file
\* widens the range: after as many rounds as there are files nothing is left.
GetOverlappingInputs(files, level, begin, end) ==
    LET range == IF level > 0 THEN <<begin, end>>
                 ELSE FoldLeft(LAMBDA r, f : Widened(files[0], r), <<begin, end>>, files[0])
    IN  SelectSeq(files[level],
                  LAMBDA f : ~AfterFile(range[1], f) /\ ~BeforeFile(range[2], f))

\* The files that may hold the user key, in the order in which they are asked:
\* level 0 from the newest to the oldest, then one file of each further level.
ForEachOverlapping(files, user, key) ==
    LET level0 == {f \in ToSet(files[0]) : f.smallest[1] <= user /\ user <= f.largest[1]}
        At(level) == LET index == FindFile(files[level], key)
                     IN  IF index < Len(files[level])
                            /\ files[level][index + 1].smallest[1] <= user
                         THEN <<<<level, files[level][index + 1]>>>> ELSE <<>>
        first == LET newest == NewestFirst(level0)
                 IN  [i \in 1..Len(newest) |-> <<0, newest[i]>>]
    IN  first \o FoldLeft(LAMBDA s, l : s \o At(l), <<>>, [l \in 1..(NumLevels - 1) |-> l])

\* SaveValue on what the table has for the key: <<>>, or the entry found.
SaveValue(tables, number, user, sequence) ==
    LET found == {e \in tables[number] : e[1] = user /\ e[2] <= sequence}
    IN  IF found = {} THEN <<>> ELSE <<InOrder(found)[1]>>

\* What the search finds, or that a table could not be read, and the file that is
\* charged for a seek: the first, when a second one had to be asked.
Search(asked, tables, user, sequence) ==
    LET Readable(i) == asked[i][2].number \in DOMAIN tables
        Found(i) == SaveValue(tables, asked[i][2].number, user, sequence)
        stops == {i \in 1..Len(asked) : Readable(i) => Found(i) # <<>>}
        at == IF stops = {} THEN Len(asked) ELSE Min(stops)
        ok == stops # {} => Readable(at)
    IN  [ok   |-> ok,
         seen |-> IF ok /\ stops # {} /\ Found(at)[1][3] = kTypeValue THEN Found(at)[1][2] ELSE 0,
         seek |-> IF at >= 2 THEN <<asked[1]>> ELSE <<>>]

Get(files, tables, user, sequence) ==
    Search(ForEachOverlapping(files, user, <<user, sequence, kTypeValue>>), tables, user, sequence)

PickLevelForMemTableOutput(files, f) ==
    LET smallest == <<f.smallest[1]>>
        largest == <<f.largest[1]>>
        Pushes(level) ==
            /\ ~OverlapInLevel(files, level + 1, smallest, largest)
            /\ level + 2 < NumLevels =>
                 TotalFileSize(GetOverlappingInputs(files, level + 2, smallest, largest))
                    <= MaxGrandParentOverlapBytes
    IN  IF OverlapInLevel(files, 0, smallest, largest) THEN 0
        ELSE Max({l \in 0..MaxMemCompactLevel : \A k \in 0..(l - 1) : Pushes(k)})

---------------------------------------------------------------------------
(* Version edits *)

NoEdit == [comparator |-> <<>>, log |-> <<>>, prev |-> <<>>, next |-> <<>>, last |-> <<>>,
           pointers |-> <<>>, deleted |-> {}, added |-> <<>>]

\* The record of an edit: one tagged field after the other.
encode_to(edit) ==
    LET Field(tag) == IF edit[tag] = <<>> THEN <<>> ELSE <<<<tag, edit[tag][1]>>>>
        Each(tag, s) == [i \in 1..Len(s) |-> <<tag, s[i]>>]
    IN  Field("comparator") \o Field("log") \o Field("prev") \o Field("next") \o Field("last")
        \o Each("pointers", edit.pointers) \o Each("deleted", SetToSeq(edit.deleted))
        \o Each("added", edit.added)

decode_from(record) ==
    FoldLeft(LAMBDA edit, field :
               [edit EXCEPT ![field[1]] =
                    CASE field[1] = "deleted" -> @ \cup {field[2]}
                      [] field[1] \in {"pointers", "added"} -> Append(@, field[2])
                      [] OTHER -> <<field[2]>>],
             NoEdit, record)

---------------------------------------------------------------------------
(* Building a version from a base and edits *)

NoBuilder == [deleted |-> [l \in Levels |-> {}], added |-> [l \in Levels |-> {}]]

\* Deletions first: a file that one edit deletes and adds again is kept.
Apply(builder, edit) ==
    LET new == [l \in Levels |-> {x[2] : x \in {y \in ToSet(edit.added) : y[1] = l}}]
    IN  [deleted |-> [l \in Levels |->
            (builder.deleted[l] \cup {d[2] : d \in {x \in edit.deleted : x[1] = l}})
               \ {f.number : f \in new[l]}],
         added |-> [l \in Levels |-> builder.added[l] \cup new[l]]]

\* The merge of base and added files, both sorted, without the deleted ones.
SaveTo(base, builder) ==
    [l \in Levels |-> FilesInOrder({f \in ToSet(base[l]) \cup builder.added[l] :
                                       f.number \notin builder.deleted[l]})]

PointersOf(pointers, edit) ==
    FoldLeft(LAMBDA p, x : [p EXCEPT ![x[1]] = <<x[2]>>], pointers, edit.pointers)

\* The level most in need of a compaction and whether it needs one; among equal
\* scores the lowest level.
Finalize(files) ==
    LET score(l) == IF l = 0 THEN <<Len(files[0]), L0Trigger>>
                    ELSE <<TotalFileSize(files[l]), MaxBytesForLevel(l)>>
        Above(s, t) == s[1] * t[2] > t[1] * s[2]
        candidates == 0..(NumLevels - 2)
        best == CHOOSE l \in candidates :
                    /\ \A k \in candidates : ~Above(score(k), score(l))
                    /\ \A k \in 0..(l - 1) : Above(score(l), score(k))
    IN  [level |-> best, needed |-> score(best)[1] >= score(best)[2]]

---------------------------------------------------------------------------
(* Objects: versions and file metadata, both counted *)

ObjectsOf(files) == UNION {{<<l, f.number>> : f \in ToSet(files[l])} : l \in Levels}

\* A version with these files, referenced refs times.
WithVersion(h, id, files, refs) ==
    LET best == Finalize(files)
        objects == ObjectsOf(files)
    IN  [versions |-> [v \in DOMAIN h.versions \cup {id} |->
            IF v # id THEN h.versions[v]
            ELSE [files |-> files, refs |-> refs, seek |-> <<>>,
                  level |-> best.level, needed |-> best.needed]],
         meta |-> [o \in DOMAIN h.meta \cup objects |->
            IF o \notin DOMAIN h.meta THEN [refs |-> 1, seeks |-> AllowedSeeks]
            ELSE IF o \in objects THEN [h.meta[o] EXCEPT !.refs = @ + 1]
            ELSE h.meta[o]]]

\* ~Version: drops its references to files.
WithoutVersion(h, id) ==
    LET objects == ObjectsOf(h.versions[id].files)
        Left(o) == IF o \in objects THEN h.meta[o].refs - 1 ELSE h.meta[o].refs
    IN  [versions |-> [v \in DOMAIN h.versions \ {id} |-> h.versions[v]],
         meta |-> [o \in {x \in DOMAIN h.meta : Left(x) > 0} |->
                      [h.meta[o] EXCEPT !.refs = Left(o)]]]

Ref(h, id) == [h EXCEPT !.versions[id].refs = @ + 1]

Unref(h, id) ==
    IF h.versions[id].refs = 1 THEN WithoutVersion(h, id)
    ELSE [h EXCEPT !.versions[id].refs = @ - 1]

FreshVersion(h) == CHOOSE id \in 1..(Cardinality(DOMAIN h.versions) + 1) :
                       id \notin DOMAIN h.versions

UpdateStats(h, id, seek) ==
    IF seek = <<>> THEN h
    ELSE LET object == <<seek[1][1], seek[1][2].number>>
             left == h.meta[object].seeks - 1
             h2 == [h EXCEPT !.meta[object].seeks = IF left < 0 THEN 0 ELSE left]
         IN  IF left <= 0 /\ h.versions[id].seek = <<>>
             THEN [h2 EXCEPT !.versions[id].seek = seek] ELSE h2

\* Versions in the list of versions: not the one that is still being logged.
Listed(h) == {v \in DOMAIN h.versions : h.versions[v].refs > 0}

AddLiveFiles(h) == UNION {{o[2] : o \in ObjectsOf(h.versions[v].files)} : v \in Listed(h)}

current == heap.versions[vset.current]

Running == job.phase \notin {"down", "corrupt"}

\* The caller has opened the database: it does so with its mutex held.
Open == Running /\ ~job.fresh /\ vset.descriptor # <<>>

Fault == budget.faults > 0 /\ budget' = [budget EXCEPT !.faults = @ - 1]

Request == budget.requests > 0 /\ budget' = [budget EXCEPT !.requests = @ - 1]

---------------------------------------------------------------------------
(* Compactions *)

GetRange(inputs) ==
    <<InOrder({f.smallest : f \in ToSet(inputs)})[1],
      Last(InOrder({f.largest : f \in ToSet(inputs)}))>>

\* The files of a level that meet the files fs.
Overlapping(files, level, fs) ==
    LET range == GetRange(fs)
    IN  GetOverlappingInputs(files, level, <<range[1][1]>>, <<range[2][1]>>)

CompactionOf(files, level, inputs0, inputs1) ==
    [level |-> level, inputs |-> <<inputs0, inputs1>>, largest |-> GetRange(inputs0)[2],
     grandparents |-> IF level + 2 < NumLevels
                      THEN Overlapping(files, level + 2, inputs0 \o inputs1) ELSE <<>>]

\* More inputs of this level, if that takes no more of the next.
Expand(files, level, inputs0, inputs1, expanded0) ==
    IF /\ inputs1 # <<>>
       /\ Len(expanded0) > Len(inputs0)
       /\ TotalFileSize(inputs1) + TotalFileSize(expanded0) < ExpandedCompactionByteSizeLimit
       /\ Len(Overlapping(files, level + 1, expanded0)) = Len(inputs1)
    THEN CompactionOf(files, level, expanded0, Overlapping(files, level + 1, expanded0))
    ELSE CompactionOf(files, level, inputs0, inputs1)

WithNextLevel(files, level, inputs0, inputs1) ==
    Expand(files, level, inputs0, inputs1, Overlapping(files, level, inputs0 \o inputs1))

\* The inputs of the next level are those that the inputs of this one meet.
SetupOtherInputs(files, level, inputs0) ==
    WithNextLevel(files, level, inputs0, Overlapping(files, level + 1, inputs0))

\* A level over its limit is served before a file that was sought too often.
PickCompaction(v, pointers) ==
    LET level == IF v.needed THEN v.level ELSE v.seek[1][1]
        later == SelectSeq(v.files[level],
                           LAMBDA f : \/ pointers[level] = <<>>
                                      \/ InternalKeyLess(pointers[level][1], f.largest))
        picked == IF ~v.needed THEN v.seek[1][2]
                  ELSE IF later # <<>> THEN later[1] ELSE v.files[level][1]
        inputs0 == IF level > 0 THEN <<picked>>
                   ELSE GetOverlappingInputs(v.files, 0, <<picked.smallest[1]>>,
                                             <<picked.largest[1]>>)
    IN  SetupOtherInputs(v.files, level, inputs0)

\* A long range is cut after TargetSize entries, except at level 0.
CompactRange(files, level, begin, end) ==
    LET inputs == GetOverlappingInputs(files, level, begin, end)
        reached == {i \in 1..Len(inputs) : TotalFileSize(SubSeq(inputs, 1, i)) >= TargetSize}
    IN  IF level > 0 /\ reached # {} THEN SubSeq(inputs, 1, Min(reached)) ELSE inputs

IsTrivialMove(c) ==
    /\ Len(c.inputs[1]) = 1
    /\ c.inputs[2] = <<>>
    /\ TotalFileSize(c.grandparents) <= MaxGrandParentOverlapBytes

AddInputDeletions(c) ==
    {<<c.level, f.number>> : f \in ToSet(c.inputs[1])}
        \cup {<<c.level + 1, f.number>> : f \in ToSet(c.inputs[2])}

\* Mutant: looks for older values only at the level that is written.
IsBaseLevelForKey_Always(files, level, ptrs, user) == [base |-> TRUE, ptrs |-> ptrs]

\* Is there nothing for this user key below level + 1?  The cursors ptrs only
\* move forward, and stop at the first level that has it.
IsBaseLevelForKey(files, level, ptrs, user) ==
    LET lower == {l \in Levels : l >= level + 2}
        Advanced(l) == Min({i \in ptrs[l]..Len(files[l]) : user <= files[l][i].largest[1]}
                               \cup {Len(files[l]) + 1})
        hit == {l \in lower : /\ Advanced(l) <= Len(files[l])
                              /\ user >= files[l][Advanced(l)].smallest[1]}
    IN  [base |-> hit = {},
         ptrs |-> [l \in Levels |-> IF l \in lower /\ \A h \in hit : l <= h
                                    THEN Advanced(l) ELSE ptrs[l]]]

\* Does the output end before this key, for it overlaps too many grandparents?
ShouldStopBefore(c, s, key) ==
    LET passed == {i \in s.index..Len(c.grandparents) :
                      \A j \in s.index..i : InternalKeyLess(c.grandparents[j].largest, key)}
        index == s.index + Cardinality(passed)
        bytes == s.bytes + IF s.seen THEN TotalFileSize(SubSeq(c.grandparents, s.index, index - 1))
                           ELSE 0
        stop == bytes > MaxGrandParentOverlapBytes
    IN  [stop |-> stop,
         state |-> [s EXCEPT !.index = index, !.seen = TRUE, !.bytes = IF stop THEN 0 ELSE bytes]]

\* The entries of the inputs in order, as the merging iterator yields them.
MakeInputIterator(c, tables) ==
    InOrder(UNION {tables[f.number] : f \in ToSet(c.inputs[1] \o c.inputs[2])})

FinishOutput(s) == IF s.open = {} THEN s ELSE [s EXCEPT !.out = Append(@, s.open), !.open = {}]

FinishIfFull(s) == IF Cardinality(s.open) >= TargetSize THEN FinishOutput(s) ELSE s

\* An entry that is not the newest of its user key is dropped, and a deletion when
\* nothing lower down needs it; base is what IsBaseLevelForKey says.
AddEntry(s, e, base) ==
    LET older == s.user = <<e[1]>>
        asks == ~older /\ e[3] = kTypeDeletion
        s1 == [s EXCEPT !.user = <<e[1]>>, !.ptrs = IF asks THEN base.ptrs ELSE @]
    IN  FinishIfFull(IF older \/ (asks /\ base.base) THEN s1 ELSE [s1 EXCEPT !.open = @ \cup {e}])

Merge(c, files, s, e) == AddEntry(s, e, IsBaseLevelForKey(files, c.level, s.ptrs, e[1]))

Stopped(stop) == IF stop.stop THEN FinishOutput(stop.state) ELSE stop.state

\* DBImpl's loop over the inputs.
Outputs(c, files, tables) ==
    FinishOutput(FoldLeft(LAMBDA s, e : Merge(c, files, Stopped(ShouldStopBefore(c, s, e)), e),
                          [out |-> <<>>, open |-> {}, user |-> <<>>, index |-> 1, seen |-> FALSE,
                           bytes |-> 0, ptrs |-> [l \in Levels |-> 1]],
                          MakeInputIterator(c, tables))).out

---------------------------------------------------------------------------
(* The background thread *)

Idle == [phase |-> "idle", c |-> <<>>, input |-> 0, version |-> 0, edit |-> NoEdit,
         fresh |-> FALSE, shows |-> <<>>]

CanAllocate(n) == vset.next + n - 1 <= MaxFileNumber

WriteSnapshot(vs, files) ==
    [NoEdit EXCEPT !.comparator = <<"bytewise">>,
        !.pointers = SelectSeq([i \in 1..NumLevels |-> <<i - 1, vs.pointers[i - 1]>>],
                               LAMBDA x : x[2] # <<>>),
        !.added = FlattenSeq([i \in 1..NumLevels |->
                      [k \in 1..Len(files[i - 1]) |-> <<i - 1, files[i - 1][k]>>]])]

\* Mutant: an edit does not say which file number is next.
Completed_NoNext(vs, edit) ==
    [edit EXCEPT !.log = IF @ = <<>> THEN <<vs.log>> ELSE @,
                 !.prev = IF @ = <<>> THEN <<vs.prev>> ELSE @,
                 !.last = <<vs.last>>]

\* An edit with the numbers that it does not set itself.
Completed(vs, edit) ==
    [edit EXCEPT !.log = IF @ = <<>> THEN <<vs.log>> ELSE @,
                 !.prev = IF @ = <<>> THEN <<vs.prev>> ELSE @,
                 !.next = <<vs.next>>, !.last = <<vs.last>>]

\* LogAndApply up to the write of the manifest: complete the edit, build the
\* version, and start a new manifest if none is open.
LogAndApply(vs, h, d, edit, c, input, newShows) ==
    LET full == Completed(vs, edit)
        base == h.versions[vs.current].files
        id == FreshVersion(h)
        vs2 == [vs EXCEPT !.pointers = PointersOf(@, full)]
        fresh == vs.descriptor = <<>>
        snapshot == WriteSnapshot(vs2, base)
        Plain(x) == <<x[1], x[2][1]>>
    IN  /\ vset' = [vs2 EXCEPT !.descriptor = IF fresh THEN <<vs.manifest>> ELSE @]
        /\ heap' = WithVersion(h, id, SaveTo(base, Apply(NoBuilder, full)), 0)
        /\ job' = [phase |-> "log", c |-> c, input |-> input, version |-> id, edit |-> full,
                   fresh |-> fresh, shows |-> newShows]
        /\ disk' = IF ~fresh THEN d
                   ELSE [d EXCEPT !.manifests = [n \in DOMAIN @ \cup {vs.manifest} |->
                          IF n # vs.manifest THEN @[n]
                          ELSE <<encode_to([snapshot EXCEPT !.pointers =
                                               [i \in 1..Len(@) |-> Plain(@[i])]])>>]]

\* A memtable becomes a table: entries get the next sequence numbers, the table
\* goes to level 0 or below, and the log is switched.
Flush(batch) ==
    LET users == InOrder({<<u, 0, 0>> : u \in DOMAIN batch})
        entries == {<<users[i][1], vset.last + i, batch[users[i][1]]>> : i \in 1..Len(users)}
        f == FileOf(vset.next, entries)
        level == PickLevelForMemTableOutput(current.files, f)
        sees == [u \in Users |->
                   IF u \notin DOMAIN batch THEN shows[u]
                   ELSE IF batch[u] = kTypeDeletion THEN 0
                   ELSE (CHOOSE e \in entries : e[1] = u)[2]]
        vs == [vset EXCEPT !.next = @ + 2, !.last = @ + Len(users)]
        edit == [NoEdit EXCEPT !.log = <<vset.next + 1>>, !.prev = <<0>>,
                               !.added = <<<<level, f>>>>]
        tables == [n \in DOMAIN disk.tables \cup {f.number} |->
                      IF n = f.number THEN entries ELSE disk.tables[n]]
    IN  /\ job.phase = "idle"
        /\ CanAllocate(2)
        /\ vset.last + Len(users) <= MaxSequence
        /\ vset.descriptor # <<>>
        /\ LogAndApply(vs, heap, [disk EXCEPT !.tables = tables], edit, <<>>, 0, sees)
        /\ UNCHANGED <<reader, shows, durable, budget>>

\* A compaction has its inputs: it holds the version, and the pointer of its
\* level moves at once.  A file that only changes its level is not rewritten.
Begin(c) ==
    LET vs == [vset EXCEPT !.pointers[c.level] = <<c.largest>>]
        f == c.inputs[1][1]
        h == Ref(heap, vset.current)
        edit == [NoEdit EXCEPT !.pointers = <<<<c.level, c.largest>>>>,
                               !.deleted = {<<c.level, f.number>>},
                               !.added = <<<<c.level + 1, f>>>>]
    IN  IF IsTrivialMove(c)
        THEN LogAndApply(vs, h, disk, edit, <<c>>, vset.current, shows)
        ELSE /\ vset' = vs
             /\ heap' = h
             /\ job' = [Idle EXCEPT !.phase = "compact", !.c = <<c>>, !.input = vset.current]
             /\ disk' = disk

BackgroundCompaction ==
    /\ job.phase = "idle"
    /\ vset.descriptor # <<>>
    /\ current.needed \/ current.seek # <<>>
    /\ Begin(PickCompaction(current, vset.pointers))
    /\ UNCHANGED <<reader, shows, durable, budget>>

ManualCompaction(level, begin, end) ==
    LET inputs0 == CompactRange(current.files, level, begin, end)
    IN  /\ job.phase = "idle"
        /\ vset.descriptor # <<>>
        /\ inputs0 # <<>>
        /\ Begin(SetupOtherInputs(current.files, level, inputs0))
        /\ Request
        /\ UNCHANGED <<reader, shows, durable>>

\* The outputs of a merge are on disk and replace its inputs.
InstallCompactionResults(c, outs) ==
    LET new == [i \in 1..Len(outs) |-> FileOf(vset.next + i - 1, outs[i])]
        edit == [NoEdit EXCEPT !.pointers = <<<<c.level, c.largest>>>>,
                               !.deleted = AddInputDeletions(c),
                               !.added = [i \in 1..Len(new) |-> <<c.level + 1, new[i]>>]]
        tables == [n \in DOMAIN disk.tables \cup {f.number : f \in ToSet(new)} |->
                      IF n < vset.next THEN disk.tables[n] ELSE outs[n - vset.next + 1]]
    IN  /\ CanAllocate(Len(outs))
        /\ LogAndApply([vset EXCEPT !.next = @ + Len(outs)], heap,
                       [disk EXCEPT !.tables = tables], edit, job.c, job.input, shows)

\* The merge is done.
FinishCompaction ==
    /\ job.phase = "compact"
    /\ InstallCompactionResults(job.c[1], Outputs(job.c[1], heap.versions[job.input].files, disk.tables))
    /\ UNCHANGED <<reader, shows, durable, budget>>

\* The merge failed: ~Compaction lets go of the version.
AbandonCompaction ==
    /\ job.phase = "compact"
    /\ heap' = Unref(heap, job.input)
    /\ job' = Idle
    /\ Fault
    /\ UNCHANGED <<vset, disk, reader, shows, durable>>

\* The record is written and synced.
AddRecord ==
    LET n == vset.descriptor[1]
    IN  /\ job.phase = "log"
        /\ disk' = [disk EXCEPT !.manifests[n] = Append(@, encode_to(job.edit))]
        /\ job' = [job EXCEPT !.phase = IF job.fresh THEN "point" ELSE "install"]
        /\ durable' = IF job.fresh THEN durable ELSE job.shows
        /\ UNCHANGED <<vset, heap, reader, shows, budget>>

\* CURRENT is made to point to a new manifest.
SetCurrentFile ==
    /\ job.phase = "point"
    /\ disk' = [disk EXCEPT !.current = IF StubCurrent THEN @ ELSE vset.descriptor[1]]
    /\ job' = [job EXCEPT !.phase = "install"]
    /\ durable' = job.shows
    /\ UNCHANGED <<vset, heap, reader, shows, budget>>

AppendVersion(vs, h, id) ==
    /\ heap' = [Unref(h, vs.current) EXCEPT !.versions[id].refs = 1]
    /\ vset' = [vs EXCEPT !.current = id]

\* The new version becomes current, and a compaction lets go of its inputs.
Install ==
    LET h == IF job.c = <<>> THEN heap ELSE Unref(heap, job.input)
    IN  /\ job.phase = "install"
        /\ AppendVersion([vset EXCEPT !.log = job.edit.log[1], !.prev = job.edit.prev[1]],
                         h, job.version)
        /\ job' = Idle
        /\ shows' = job.shows
        /\ UNCHANGED <<disk, reader, durable, budget>>

\* A write of the manifest or of CURRENT fails; the record may be in the file
\* all the same, unless the manifest was new and is deleted.
LogFails(written) ==
    LET h == WithoutVersion(heap, job.version)
        n == vset.descriptor[1]
    IN  /\ job.phase \in {"log", "point"}
        /\ written => job.phase = "log" /\ ~job.fresh
        /\ heap' = IF job.c = <<>> THEN h ELSE Unref(h, job.input)
        /\ vset' = IF job.fresh THEN [vset EXCEPT !.descriptor = <<>>] ELSE vset
        /\ disk' = IF written
                   THEN [disk EXCEPT !.manifests[n] = Append(@, encode_to(job.edit))]
                   ELSE IF job.fresh
                   THEN [disk EXCEPT !.manifests = [m \in DOMAIN @ \ {n} |-> @[m]]]
                   ELSE disk
        /\ durable' = IF written THEN job.shows ELSE durable
        /\ job' = [Idle EXCEPT !.phase = "broken"]
        /\ Fault
        /\ UNCHANGED <<reader, shows>>

\* The caller deletes tables that neither a version nor the running job needs,
\* and manifests older than the one in use.
RemoveObsoleteFiles ==
    LET pending == {x[2].number : x \in ToSet(job.edit.added)}
        live == AddLiveFiles(heap) \cup pending
    IN  /\ Open
        /\ job.phase # "broken"
        /\ disk' = [disk EXCEPT
              !.tables = [n \in DOMAIN @ \cap live |-> @[n]],
              !.manifests = [n \in {m \in DOMAIN @ : m >= vset.manifest} |-> @[n]]]
        /\ disk' # disk
        /\ UNCHANGED <<vset, heap, job, reader, shows, durable, budget>>

---------------------------------------------------------------------------
(* Readers *)

ReadBegins(r) ==
    /\ Open
    /\ reader[r] = <<>>
    /\ heap' = Ref(heap, vset.current)
    /\ reader' = [reader EXCEPT ![r] = <<vset.current, vset.last, shows>>]
    /\ Request
    /\ UNCHANGED <<vset, disk, job, shows, durable>>

ReadEnds(r, user) ==
    LET v == reader[r][1]
        got == Get(heap.versions[v].files, disk.tables, user, reader[r][2])
    IN  /\ reader[r] # <<>>
        /\ heap' = Unref(UpdateStats(heap, v, got.seek), v)
        /\ reader' = [reader EXCEPT ![r] = <<>>]
        /\ UNCHANGED <<vset, disk, job, shows, durable, budget>>

\* An iterator samples a key: the first of two or more files is charged.
RecordReadSample(user) ==
    LET asked == ForEachOverlapping(current.files, user, <<user, vset.last, kTypeValue>>)
    IN  /\ Open
        /\ Len(asked) >= 2
        /\ heap' = UpdateStats(heap, vset.current, <<asked[1]>>)
        /\ Request
        /\ UNCHANGED <<vset, disk, job, reader, shows, durable>>

---------------------------------------------------------------------------
(* Crash and recovery *)

NoFiles == [l \in Levels |-> <<>>]

EmptyHeap == WithVersion([versions |-> <<>>, meta |-> <<>>], 1, NoFiles, 1)

NewVersionSet == [next |-> 2, manifest |-> 0, last |-> 0, log |-> 0, prev |-> 0,
                  pointers |-> [l \in Levels |-> <<>>], current |-> 1, descriptor |-> <<>>]

Crash ==
    /\ Running
    /\ Fault
    /\ job' = [Idle EXCEPT !.phase = "down"]
    /\ vset' = NewVersionSet
    /\ heap' = EmptyHeap
    /\ reader' = [r \in Readers |-> <<>>]
    /\ UNCHANGED <<disk, shows, durable>>

ReuseManifest(n) == ReuseLogs /\ Len(disk.manifests[n]) < ManifestLimit

\* Apply the edits of the manifest that CURRENT names to an empty version.  If
\* the manifest is not reused the caller logs an edit to a new one.
Recover ==
    LET edits == [i \in 1..Len(disk.manifests[disk.current]) |->
                     decode_from(disk.manifests[disk.current][i])]
        Latest(field) == LET having == {i \in 1..Len(edits) : edits[i][field] # <<>>}
                         IN  IF having = {} THEN <<>> ELSE edits[Max(having)][field]
        complete == Latest("next") # <<>> /\ Latest("log") # <<>> /\ Latest("last") # <<>>
        builder == FoldLeft(Apply, NoBuilder, edits)
        reuse == ReuseManifest(disk.current)
        h == WithVersion(heap, 2, SaveTo(NoFiles, builder), 0)
        vs == [vset EXCEPT
                 !.next = Latest("next")[1] + 1, !.last = Latest("last")[1],
                 !.log = Latest("log")[1],
                 !.prev = IF Latest("prev") = <<>> THEN 0 ELSE Latest("prev")[1],
                 !.pointers = FoldLeft(PointersOf, @, edits),
                 !.manifest = IF reuse THEN disk.current ELSE Latest("next")[1],
                 !.descriptor = IF reuse THEN <<disk.current>> ELSE <<>>]
        installed == [Unref(h, 1) EXCEPT !.versions[2].refs = 1]
        vs2 == [vs EXCEPT !.current = 2]
    IN  /\ job.phase = "down"
        /\ IF disk.current \notin DOMAIN disk.manifests \/ ~complete
           THEN /\ job' = [job EXCEPT !.phase = "corrupt"]
                /\ UNCHANGED <<vset, heap, disk>>
           ELSE IF reuse
           THEN /\ vset' = vs2
                /\ heap' = installed
                /\ job' = Idle
                /\ UNCHANGED disk
           ELSE LogAndApply([vs2 EXCEPT !.next = @ + 1], installed, disk,
                            [NoEdit EXCEPT !.log = <<vs.next>>, !.prev = <<0>>], <<>>, 0, durable)
        /\ shows' = durable
        /\ UNCHANGED <<reader, durable, budget>>

---------------------------------------------------------------------------

\* A new database: the caller has written a first manifest and CURRENT.
Init ==
    /\ vset = NewVersionSet
    /\ heap = EmptyHeap
    /\ disk = [current |-> 1,
               manifests |-> [n \in {1} |-> <<encode_to([NoEdit EXCEPT
                   !.comparator = <<"bytewise">>, !.log = <<0>>, !.next = <<2>>, !.last = <<0>>])>>],
               tables |-> <<>>]
    /\ job = [Idle EXCEPT !.phase = "down"]
    /\ reader = [r \in Readers |-> <<>>]
    /\ shows = [u \in Users |-> 0]
    /\ durable = shows
    /\ budget \in Budgets

Next ==
    \/ \E batch \in Batches : Flush(batch)
    \/ BackgroundCompaction
    \/ \E level \in 0..(NumLevels - 2), ends \in {<<>>} \cup {<<u>> : u \in Users} :
          ManualCompaction(level, ends, ends)
    \/ FinishCompaction \/ AbandonCompaction
    \/ AddRecord \/ SetCurrentFile \/ Install
    \/ \E written \in BOOLEAN : LogFails(written)
    \/ RemoveObsoleteFiles
    \/ \E r \in Readers : ReadBegins(r)
    \/ \E r \in Readers, user \in Users : ReadEnds(r, user)
    \/ \E user \in Users : RecordReadSample(user)
    \/ Crash \/ Recover

Spec == Init /\ [][Next]_vars

---------------------------------------------------------------------------
(* Properties *)

\* Every version that Builder::SaveTo makes has the files of each level but the
\* first sorted and disjoint, which FindFile relies on and SaveTo checks with an
\* abort; and each file has a place of its own.
LevelsSorted ==
    \A v \in DOMAIN heap.versions, l \in Levels :
        LET files == heap.versions[v].files[l]
        IN  \A i \in 1..(Len(files) - 1) :
               IF l > 0 THEN InternalKeyLess(files[i].largest, files[i + 1].smallest)
               ELSE BySmallestKey(files[i], files[i + 1])

\* Version::Get on the current version finds the newest entry of every user key
\* that has been flushed, or that it was deleted, whatever compactions and
\* restarts there have been in between.
ReadsNewest ==
    Running => \A u \in Users :
        LET got == Get(current.files, disk.tables, u, vset.last)
        IN  got.ok /\ got.seen = shows[u]

\* A reader that holds a version finds what was there when it began, however
\* many versions, compactions and deletions of files there have been since.
HeldVersionsReadable ==
    \A r \in Readers : reader[r] # <<>> => \A u \in Users :
        LET got == Get(heap.versions[reader[r][1]].files, disk.tables, u, reader[r][2])
        IN  got.ok /\ got.seen = reader[r][3][u]

\* References are exact: a file's metadata counts the versions that list it, and
\* a version its holders (the set, readers, a compaction's input); nothing else
\* is kept and nothing is freed too soon.
RefsExact ==
    /\ DOMAIN heap.meta = UNION {ObjectsOf(heap.versions[v].files) : v \in DOMAIN heap.versions}
    /\ \A o \in DOMAIN heap.meta :
          heap.meta[o].refs = Cardinality({v \in DOMAIN heap.versions :
                                              o \in ObjectsOf(heap.versions[v].files)})
    /\ \A v \in DOMAIN heap.versions :
          heap.versions[v].refs =
             (IF v = vset.current THEN 1 ELSE 0) + (IF v = job.input THEN 1 ELSE 0)
             + Cardinality({r \in Readers : reader[r] # <<>> /\ reader[r][1] = v})

\* A restart always finds a manifest that it can apply, and no file number in
\* use is ever handed out again.
Recoverable ==
    /\ job.phase # "corrupt"
    /\ Running =>
          \A n \in AddLiveFiles(heap) \cup {vset.manifest, vset.log} : n < vset.next

=============================================================================
