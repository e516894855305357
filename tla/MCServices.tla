----------------------------- MODULE MCServices -----------------------------
(***************************************************************************)
(* Services between nodes that wait for messages and time: connections and  *)
(* calls, failure detection, cluster features.  A behaviour is one of one   *)
(* of them, `lib`, and the others stay where they begin.  Of Messaging: a   *)
(* call that is retried while another one reconnects, and one connection    *)
(* that breaks.                                                             *)
(***************************************************************************)
EXTENDS Messaging

CONSTANTS p, e, o1, o2, o3

VARIABLES lib,
    samples, age, last_interpret, last_paused, up, told, gaps,
    maps, shadow, copying, object, registered

(* A window of three gaps, which is filled and moves on *)
F == INSTANCE FailureDetector WITH Endpoints <- {e}, InitialValue <- 3, SAMPLE_SIZE <- 3, Factor <- 2, MaxPause <- 2

(* Three feature objects: an assignment needs a source and a temporary *)
C == INSTANCE Features WITH Shards <- {0, 1}, Peers <- {p}, Names <- {"a", "b"}, Local <- {"a"},
                            Announced <- {{}, {"a"}}, Objects <- {o1, o2, o3}, known <- maps

fdVars == <<samples, age, last_interpret, last_paused, up, told, gaps>>
featureVars == <<maps, shadow, copying, object, registered>>

MCInit ==
    /\ lib \in {"messaging", "failure detector", "features"}
    /\ MsgInit /\ F!FdInit /\ C!FeaturesInit

MCNext ==
    \/ lib = "messaging" /\ MsgNext /\ UNCHANGED <<lib, fdVars, featureVars>>
    \/ lib = "failure detector" /\ F!FdNext /\ UNCHANGED <<lib, msgVars, featureVars>>
    \/ lib = "features" /\ C!FeaturesNext /\ UNCHANGED <<lib, msgVars, fdVars>>

(* The fairness of each service, asked for where it is the one that runs *)
MCFairness ==
    /\ \A k \in 1..MaxCalls :
          /\ WF_msgVars(lib = "messaging" /\ k \in DOMAIN calls /\ CallClosed(k))
          /\ WF_msgVars(lib = "messaging" /\ k \in DOMAIN calls /\ Wake(k))
          /\ WF_msgVars(lib = "messaging" /\ k \in DOMAIN calls /\ Answer(k, "timeout"))
    /\ WF_fdVars(lib = "failure detector" /\ F!FdTick)
    /\ WF_fdVars(lib = "failure detector" /\ F!interpret(e))
    /\ WF_featureVars(lib = "features" /\ C!run)
    /\ WF_featureVars(lib = "features" /\ C!copy(1))

MCSpec == MCInit /\ [][MCNext]_<<lib, msgVars, fdVars, featureVars>> /\ MCFairness

--------------------------------------------------------------------------------

\* Decisions are made, and only with reason: a silent endpoint is marked down and
\* one that is not silent is not, a feature that all nodes support is enabled on
\* every shard, and calls with a timeout end (SilentMarkedDown,
\* ConvictedWasSilent, SupportedIsEnabled and RetriesEnd); and the registry of
\* features holds no pointer to one that is gone (RegistryExact).
DecisionsMade ==
    /\ F!SilentMarkedDown /\ F!ConvictedWasSilent
    /\ C!SupportedIsEnabled /\ []C!RegistryExact
    /\ RetriesEnd
=============================================================================
