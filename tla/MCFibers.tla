------------------------------ MODULE MCFibers ------------------------------
(***************************************************************************)
(* Utilities whose fibers wait for one another: the flush queue, the        *)
(* loading cache and the region groups.  They do not interact: a behaviour  *)
(* is one of one of them, `lib`, and the others stay where they begin.      *)
(* Three operations of a flush queue: one joins an entry, or comes too late *)
(* for one.  Two getters of a key, or of two keys in a cache of one.        *)
(***************************************************************************)
EXTENDS FlushQueue, LoadingCache, RegionGroup, TLC

CONSTANTS w, k1, k2, g1, g2, Outer, Inner, r1, r2

VARIABLE lib

(* A group within another, each with a region and a threshold of its own *)
MCParent == (Outer :> None) @@ (Inner :> Outer)
MCThreshold == (Outer :> 2) @@ (Inner :> 1)
MCSoftLimit == (Outer :> 1) @@ (Inner :> 1)
MCSites == (r1 :> {Inner}) @@ (r2 :> {Outer})
MCRequests == (Outer :> 1) @@ (Inner :> 2)

MCInit ==
    /\ lib \in {"flush queue", "loading cache", "region groups"}
    /\ FlushQueueInit /\ (lib # "flush queue" => chain)
    /\ LoadingCacheInit /\ GroupInit

MCNext ==
    \/ lib = "flush queue" /\ FlushQueueNext /\ UNCHANGED <<lib, lcVars, groupVars>>
    \/ lib = "loading cache" /\ LoadingCacheNext /\ UNCHANGED <<lib, fqVars, groupVars>>
    \/ lib = "region groups" /\ GroupNext /\ UNCHANGED <<lib, fqVars, lcVars>>

(* The fairness of each library, asked for where it is the one that runs *)
MCFairness ==
    /\ \A o \in Ops :
          /\ WF_fqVars(lib = "flush queue" /\ run_post(o))
          /\ WF_fqVars(lib = "flush queue" /\ \E ok \in BOOLEAN : FuncDone(o, ok))
          /\ WF_fqVars(lib = "flush queue" /\ \E ok \in BOOLEAN : PostDone(o, ok))
    /\ WF_fqVars(lib = "flush queue" /\ Waited(w))
    /\ \A g \in {g1, g2} :
          /\ WF_lcVars(lib = "loading cache" /\ slow_load(g))
          /\ WF_lcVars(lib = "loading cache" /\ \E ok \in BOOLEAN : LoadDone(g, ok))
    /\ \A g \in {Outer, Inner} :
          []<>(lib # "region groups" \/ releaser[g] # "ready") \/ []<><<lib = "region groups" /\ Release(g)>>_groupVars

MCSpec == MCInit /\ [][MCNext]_<<lib, fqVars, lcVars, groupVars>> /\ MCFairness

--------------------------------------------------------------------------------
(* Properties of more than one library; they hold of one that does not move. *)

\* Whoever waits goes on: operations of a flush queue complete, whatever fails;
\* every get() is answered; requests of an outermost region group are released
\* (OperationsComplete, GetAnswered and OutermostReleased).
WaitsEnd == OperationsComplete /\ GetAnswered /\ OutermostReleased
=============================================================================
