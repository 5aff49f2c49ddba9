-------------------------------- MODULE Desk --------------------------------
(***************************************************************************)
(* What the areas of the dashboard and of the web server have in common.   *)
(* An area is a group of pages with the API routes and jobs behind them;   *)
(* the areas of one composed module own disjoint tables, so a behaviour of *)
(* the whole is an interleaving of behaviours of its areas.  A behaviour   *)
(* here stays at one area, desk, and takes at most Budget[desk] inputs     *)
(* from outside: clicks, requests, failures, changes of the world.         *)
(***************************************************************************)
EXTENDS Integers, FiniteSets

CONSTANTS
  Nil,      \* SQL NULL, and no row or nothing selected
  Budget    \* bound: inputs, for each area

ASSUME DeskAssumption == \A d \in DOMAIN Budget : Budget[d] \in Nat

VARIABLES
  desk,     \* the area this behaviour is about
  acts      \* counter of the bound

deskVars == <<desk, acts>>

DeskInit == desk \in DOMAIN Budget /\ acts = 0

Act == acts < Budget[desk] /\ acts' = acts + 1 /\ UNCHANGED desk

DeskTypeOK == desk \in DOMAIN Budget /\ acts \in 0..Budget[desk]
=============================================================================
