---------------------------- MODULE MCAlertEval ----------------------------
(* Small instances of AlertEval for TLC.                                   *)
EXTENDS AlertEval

CONSTANTS r1, r2, a1, a2

\* A rule on every asset: two targets that share a run.
NonePinned == [r \in {} |-> a1]

\* A rule bound to one asset.
PinnedToA1 == [r \in {r1} |-> a1]
=============================================================================
