------------------------------- MODULE MCHub -------------------------------
(* Small instances of Hub for TLC.                                         *)
EXTENDS Hub

CONSTANTS metrics, metrics1

TwoTopics  == {metrics, metrics1}
OneTopic   == {metrics1}

\* metrics1 stands for "metrics:1": its part before the ':' is metrics.
ParentOf == [t \in {metrics, metrics1} |-> metrics]
ParentOfOne == [t \in {metrics1} |-> metrics1]
=============================================================================
