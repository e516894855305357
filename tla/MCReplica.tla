------------------------------ MODULE MCReplica ------------------------------
(***************************************************************************)
(* What a node of a cluster knows of the others, and what it keeps on disk: *)
(* two nodes that gossip with each other, of which one restarts and         *)
(* publishes, and the version set of a store.  A behaviour is one of one of *)
(* them, `lib`.                                                             *)
(***************************************************************************)
EXTENDS Gossip, TLC

CONSTANTS n1, n2, r1

VARIABLES lib, vset, heap, disk, job, reader, shows, durable, budget

Generations == n1 :> 1 @@ n2 :> 2
Versions == n1 :> 1 @@ n2 :> 2

(* Memtables with one of two user keys, or with both; mostly faults or mostly *)
(* requests, so that the two do not multiply                                  *)
kTypeDeletion == 0
kTypeValue == 1
MCBatches == {[u \in {x} |-> t] : x \in {1, 2}, t \in {kTypeValue, kTypeDeletion}} \cup {[u \in {1, 2} |-> kTypeValue]}
MCBudgets == {[faults |-> 2, requests |-> 0], [faults |-> 0, requests |-> 2]}
S == INSTANCE VersionSet WITH Users <- {1, 2}, Batches <- MCBatches, Readers <- {r1}, NumLevels <- 4, L0Trigger <- 2,
                              MaxMemCompactLevel <- 2, TargetSize <- 1, GrandParentFactor <- 1, ExpandFactor <- 4,
                              Level1Size <- 2, LevelFactor <- 2, AllowedSeeks <- 1, ReuseLogs <- TRUE,
                              ManifestLimit <- 4, StubCurrent <- FALSE, MaxSequence <- 3, MaxFileNumber <- 9,
                              Budgets <- MCBudgets

storeVars == <<vset, heap, disk, job, reader, shows, durable, budget>>

MCInit ==
    /\ Init
    /\ \/ lib = "store" /\ S!Init
       \/ /\ lib = "gossip" /\ vset = 0 /\ heap = 0 /\ disk = 0 /\ job = 0 /\ reader = 0
          /\ shows = 0 /\ durable = 0 /\ budget = 0

MCNext ==
    \/ lib = "gossip" /\ Next /\ UNCHANGED <<lib, storeVars>>
    \/ lib = "store" /\ S!Next /\ UNCHANGED <<lib, vars>>

MCSpec == MCInit /\ [][MCNext]_<<lib, vars, storeVars>>

--------------------------------------------------------------------------------

\* A read finds the newest entry it may see in the version it holds, whose files
\* are on disk, counted and sorted: ReadsNewest, HeldVersionsReadable, RefsExact
\* and LevelsSorted of VersionSet.
ReadsNewest == lib = "store" => S!ReadsNewest /\ S!HeldVersionsReadable /\ S!RefsExact /\ S!LevelsSorted

\* A restart at any moment finds what was made durable: Recoverable of VersionSet.
Recoverable == lib = "store" => S!Recoverable
=============================================================================
