------------------------------ MODULE LossyLog ------------------------------
(***************************************************************************)
(* What a best-effort pipeline promises: of the things that arrive,        *)
(* numbered in the order of their arrival, it keeps some, each at most     *)
(* once, in that order, and nothing that has not arrived.                  *)
(***************************************************************************)
EXTENDS Naturals, Sequences

VARIABLES
  arrived,  \* how many things have arrived
  kept      \* the numbers of those it has kept

Init == arrived = 0 /\ kept = <<>>

Arrive ==
  /\ arrived' = arrived + 1
  /\ UNCHANGED kept

\* Keep one that arrived after all those kept so far.
Keep ==
  \E i \in 1..arrived :
    /\ kept # <<>> => kept[Len(kept)] < i
    /\ kept' = Append(kept, i)
    /\ UNCHANGED arrived

Spec == Init /\ [][Arrive \/ Keep]_<<arrived, kept>>
=============================================================================
