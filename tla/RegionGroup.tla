---------------------------- MODULE RegionGroup ----------------------------
(***************************************************************************)
(* Region groups of the log-structured allocator (utils/logalloc): memory   *)
(* use added up along a tree of groups, pressure above a threshold, and     *)
(* functions that wait in the queue of their group, run by one releaser     *)
(* fiber per group, until neither the group nor a group around it is under  *)
(* pressure.  Memory is counted in segments.                                *)
(***************************************************************************)
EXTENDS Integers, Sequences, FiniteSets, FiniteSetsExt, Functions

CONSTANTS
    Groups,
    None,           \* no group: the parent of the outermost one
    Parent,         \* Groups -> Groups \cup {None}
    Threshold,      \* _threshold, for the groups that have one
    SoftLimit,      \* _soft_limit, for the same groups
    Sites,          \* the groups in which each region may be created
    Regions,
    MaxSpace,       \* bound on the segments of a region
    MaxRequests,    \* bound on the requests made to each group
    MaxLarge        \* bound on the large objects freed

\* The groups form trees of finite depth.
ASSUME GroupAssumption ==
    /\ IsFiniteSet(Groups) /\ None \notin Groups
    /\ Parent \in [Groups -> Groups \cup {None}]
    /\ \E depth \in [Groups -> 0 .. Cardinality(Groups)] :
          \A g \in Groups : Parent[g] # None => depth[Parent[g]] < depth[g]
    /\ MaxRequests \in [Groups -> Nat]

VARIABLES
    group,          \* the group of each region, or None
    space,          \* _evictable_space of each region
    large,          \* regions with an object allocated outside the segments
    memory,         \* _total_memory
    pressure,       \* _under_pressure, of the reclaimer of each group
    soft,           \* _under_soft_pressure
    best,           \* _maximal_rg
    score,          \* _maximal_score
    queue,          \* _blocked_requests, by number
    issued,         \* requests made so far
    ran,            \* the request of each group that ran last
    releaser,       \* "none", "ready", "waiting", "done"
    stopping,       \* _shutdown_requested
    freed           \* large objects freed so far

memoryVars == <<group, space, large, memory, pressure, soft, best, score, freed>>
groupVars == <<memoryVars, queue, issued, ran, releaser, stopping>>

reclaimer_can_block(g) == g \in DOMAIN Threshold

\* do_for_each_parent: a group and those around it, the innermost first.
Enclosing[g \in Groups] ==
    IF Parent[g] = None THEN <<g>> ELSE <<g>> \o Enclosing[Parent[g]]

Above == [g \in Groups |-> Range(Enclosing[g])]

Below == [g \in Groups |-> {h \in Groups : g \in Above[h]}]

\* The heap's top: any region, or subgroup, with the most.
top_region_evictable_space(sp, gr, g) == Max({0} \cup {sp[r] : r \in {x \in Regions : gr[x] = g}})

\* Mutant: the score is that of the group's own regions.
update_maximal_rg_Own(st, g) ==
    [st EXCEPT !.best[g] = g, !.score[g] = top_region_evictable_space(st.space, st.group, g)]

update_maximal_rg(st, g) ==
    LET own == top_region_evictable_space(st.space, st.group, g)
        children == {h \in Groups : Parent[h] = g}
        most == Max({0} \cup {st.score[h] : h \in children})
        top == CHOOSE h \in children : st.score[h] = most
        b == IF most > own THEN st.best[top] ELSE g
    IN  [st EXCEPT !.best[g] = b, !.score[g] = top_region_evictable_space(st.space, st.group, b)]

\* update, at one group: relief is the outermost group relieved so far.
UpdateOne(st, g, delta) ==
    LET s1 == update_maximal_rg(st, g)
        m == s1.memory[g] + delta
        over == reclaimer_can_block(g) /\ m > Threshold[g]
    IN  [s1 EXCEPT !.memory[g] = m,
                   !.soft[g] = reclaimer_can_block(g) /\ m >= SoftLimit[g],
                   !.pressure[g] = over,
                   !.relief = IF ~over /\ s1.pressure[g] THEN g ELSE @]

update(st, g, delta) ==
    LET upto[i \in 0 .. Len(Enclosing[g])] ==
            IF i = 0 THEN st ELSE UpdateOne(upto[i - 1], Enclosing[g][i], delta)
    IN  upto[Len(Enclosing[g])]

\* notify_relief: signal() wakes a fiber that waits and is lost otherwise.
notify_relief(rel, g) ==
    [h \in Groups |-> IF g \in Above[h] /\ rel[h] = "waiting" THEN "ready" ELSE rel[h]]

\* The memory side of the state, after regions changed by what sp, la, gr and g
\* with delta say.
Usage(sp, la, gr, g, delta) ==
    LET st == update([space |-> sp, group |-> gr, memory |-> memory, pressure |-> pressure,
                      soft |-> soft, best |-> best, score |-> score, relief |-> None], g, delta)
    IN  /\ space' = sp /\ large' = la /\ group' = gr
        /\ memory' = st.memory /\ pressure' = st.pressure /\ soft' = st.soft
        /\ best' = st.best /\ score' = st.score
        /\ releaser' = IF st.relief = None THEN releaser ELSE notify_relief(releaser, st.relief)

---------------------------------------------------------------------------
(* Regions *)

Requests == <<queue, issued, ran, stopping>>

\* region_impl's constructor and destructor.
AddRegion(r, g) ==
    /\ group[r] = None
    /\ Usage(space, large, [group EXCEPT ![r] = g], g, 0)
    /\ UNCHANGED <<Requests, freed>>

DelRegion(r) ==
    /\ group[r] # None /\ space[r] = 0
    /\ Usage(space, large, [group EXCEPT ![r] = None], group[r], 0)
    /\ UNCHANGED <<Requests, freed>>

new_segment(r) ==
    /\ group[r] # None /\ space[r] < MaxSpace
    /\ Usage([space EXCEPT ![r] = @ + 1], large, group, group[r], 1)
    /\ UNCHANGED <<Requests, freed>>

free_segment(r) ==
    /\ group[r] # None /\ space[r] > IF r \in large THEN 1 ELSE 0
    /\ Usage([space EXCEPT ![r] = @ - 1], large, group, group[r], -1)
    /\ UNCHANGED <<Requests, freed>>

AllocLarge(r) ==
    /\ group[r] # None /\ r \notin large /\ space[r] < MaxSpace
    /\ Usage([space EXCEPT ![r] = @ + 1], large \cup {r}, group, group[r], 1)
    /\ UNCHANGED <<Requests, freed>>

\* free of a large object passes its size to decrease_usage with a plus sign.
FreeLarge(r) ==
    /\ group[r] # None /\ r \in large /\ freed < MaxLarge
    /\ Usage([space EXCEPT ![r] = @ - 1], large \ {r}, group, group[r], 1)
    /\ freed' = freed + 1
    /\ UNCHANGED Requests

---------------------------------------------------------------------------
(* Requests *)

execution_permitted(g) == \A h \in Above[g] : ~pressure[h]

\* A function that runs allocates in a region of its group, if it can.
Allocate(g, n) ==
    /\ ran' = [ran EXCEPT ![g] = n]
    /\ \/ \E r \in Regions :
            /\ group[r] = g /\ space[r] < MaxSpace
            /\ Usage([space EXCEPT ![r] = @ + 1], large, group, g, 1)
            /\ UNCHANGED freed
       \/ /\ \A r \in Regions : group[r] = g => space[r] = MaxSpace
          /\ UNCHANGED <<memoryVars, releaser>>

\* Mutant: requests that wait already are overtaken.
run_when_memory_available_Overtakes(g) ==
    /\ issued[g] < MaxRequests[g]
    /\ issued' = [issued EXCEPT ![g] = @ + 1]
    /\ \/ /\ execution_permitted(g)
          /\ Allocate(g, issued[g] + 1)
          /\ UNCHANGED <<queue, stopping>>
       \/ /\ ~execution_permitted(g)
          /\ queue' = [queue EXCEPT ![g] = Append(@, issued[g] + 1)]
          /\ UNCHANGED <<memoryVars, ran, releaser, stopping>>

run_when_memory_available(g) ==
    /\ issued[g] < MaxRequests[g]
    /\ issued' = [issued EXCEPT ![g] = @ + 1]
    /\ \/ /\ \A h \in Above[g] : queue[h] = <<>> /\ ~pressure[h]
          /\ Allocate(g, issued[g] + 1)
          /\ UNCHANGED <<queue, stopping>>
       \/ /\ \E h \in Above[g] : queue[h] # <<>> \/ pressure[h]
          /\ queue' = [queue EXCEPT ![g] = Append(@, issued[g] + 1)]
          /\ UNCHANGED <<memoryVars, ran, releaser, stopping>>

\* start_releaser: one round of the loop.
Release(g) ==
    /\ releaser[g] = "ready"
    /\ \/ /\ stopping[g]
          /\ releaser' = [releaser EXCEPT ![g] = "done"]
          /\ UNCHANGED <<memoryVars, Requests>>
       \/ /\ ~stopping[g] /\ queue[g] # <<>> /\ execution_permitted(g)
          /\ queue' = [queue EXCEPT ![g] = Tail(@)]
          /\ Allocate(g, Head(queue[g]))
          /\ UNCHANGED <<issued, stopping>>
       \/ /\ ~stopping[g] /\ ~(queue[g] # <<>> /\ execution_permitted(g))
          /\ releaser' = [releaser EXCEPT ![g] = "waiting"]
          /\ UNCHANGED <<memoryVars, Requests>>

\* A request times out: expiring_fifo takes it out, wherever it is.
on_request_expiry(g, i) ==
    /\ i \in DOMAIN queue[g]
    /\ queue' = [queue EXCEPT ![g] = SubSeq(@, 1, i - 1) \o SubSeq(@, i + 1, Len(@))]
    /\ UNCHANGED <<memoryVars, issued, ran, releaser, stopping>>

shutdown(g) ==
    /\ ~stopping[g] /\ reclaimer_can_block(g)
    /\ stopping' = [stopping EXCEPT ![g] = TRUE]
    /\ releaser' = [releaser EXCEPT ![g] = IF @ = "waiting" THEN "ready" ELSE @]
    /\ UNCHANGED <<memoryVars, queue, issued, ran>>

GroupInit ==
    /\ group = [r \in Regions |-> None] /\ space = [r \in Regions |-> 0] /\ large = {} /\ freed = 0
    /\ memory = [g \in Groups |-> 0] /\ score = [g \in Groups |-> 0]
    /\ pressure = [g \in Groups |-> FALSE] /\ soft = [g \in Groups |-> FALSE]
    /\ best = [g \in Groups |-> g]
    /\ queue = [g \in Groups |-> <<>>] /\ issued = [g \in Groups |-> 0] /\ ran = [g \in Groups |-> 0]
    /\ releaser = [g \in Groups |-> IF reclaimer_can_block(g) THEN "ready" ELSE "none"]
    /\ stopping = [g \in Groups |-> FALSE]

GroupNext ==
    \/ \E r \in Regions :
        \/ \E g \in Sites[r] : AddRegion(r, g)
        \/ DelRegion(r) \/ new_segment(r) \/ free_segment(r) \/ AllocLarge(r) \/ FreeLarge(r)
    \/ \E g \in Groups :
        \/ run_when_memory_available(g) \/ Release(g) \/ shutdown(g)
        \/ \E i \in 1..MaxRequests[g] : on_request_expiry(g, i)

\* The reactor runs a fiber that can go on: weak fairness of Release(g), which is
\* enabled when the fiber is ready.
GroupFairness ==
    \A g \in Groups : []<>(releaser[g] # "ready") \/ []<><<Release(g)>>_groupVars

GroupSpec == GroupInit /\ [][GroupNext]_groupVars /\ GroupFairness

---------------------------------------------------------------------------
(* Properties *)

\* What update keeps along the tree, whichever regions grow, shrink, come and go:
\* a group's total is what is held below it, it is under (soft) pressure exactly
\* when it should be, and get_largest_region of any group finds a region that no
\* other below it exceeds.  Totals are exact until a large object is freed.
UsageExact ==
    \A g \in Groups :
        LET below == {r \in Regions : group[r] \in Below[g]}
            most == Max({0} \cup {space[r] : r \in below})
        IN  /\ freed = 0 => memory[g] = MapThenSumSet(LAMBDA r : space[r], below)
            /\ pressure[g] = (reclaimer_can_block(g) /\ memory[g] > Threshold[g])
            /\ soft[g] = (reclaimer_can_block(g) /\ memory[g] >= SoftLimit[g])
            /\ score[g] = most
            /\ most > 0 => \E r \in below : group[r] = best[g] /\ space[r] = most

\* run_when_memory_available: a function runs only while neither its group nor a
\* group around it is under pressure, and "in FIFO order within the same
\* region_group", however requests, releasers and timeouts interleave.
RunsInTurn ==
    [][\A g \in Groups : ran'[g] # ran[g] =>
          execution_permitted(g) /\ ran'[g] > ran[g]
            /\ \A i \in DOMAIN queue[g] : queue[g][i] >= ran'[g]]_groupVars

\* A request of an outermost group that waits, is not timed out and is not cut off
\* by shutdown runs, if the group is not under pressure from some time on.
OutermostReleased ==
    \A g \in Groups : Parent[g] = None /\ reclaimer_can_block(g) =>
        ((<>[](~pressure[g] /\ ~stopping[g])) => []<>(queue[g] = <<>>))

=============================================================================
