---------------------------- MODULE MCCommitLog ----------------------------
(***************************************************************************)
(* The commit log for TLC: its control, where a buffer has room for two    *)
(* short records or for one long one, and the layout of its buffers and    *)
(* file.  A behaviour is of one or of the other, as `part` says.           *)
(***************************************************************************)
EXTENDS CommitLog, FlushBuffer

CONSTANTS m1, m2, m3, m4

VARIABLE part

MCSize == [m \in Mutations |-> IF m \in {m1, m2} THEN 1 ELSE 2]

MCInit == part \in {"control", "layout"} /\ Init /\ FlushInit

MCNext ==
    \/ part = "control" /\ Next /\ UNCHANGED <<part, flushVars>>
    \/ part = "layout" /\ FlushNext /\ UNCHANGED <<part, vars>>

MCSpec == MCInit /\ [][MCNext]_<<part, vars, flushVars>> /\ Fairness
=============================================================================
