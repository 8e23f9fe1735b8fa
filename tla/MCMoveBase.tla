------------------------------ MODULE MCMoveBase ------------------------------
(* Instances of MoveBase for TLC: goals are numbers, zero is none. *)
EXTENDS MoveBase

(* The goals are interchangeable: the first is sent first. *)
InOrder == \A g, h \in Goals : g < h /\ status[h] # "unsent" => status[g] # "unsent"

(* Of the behaviors on a fixed route, those of a single goal.              *)
OneOnFixed ==
  fixed => Cardinality({g \in Goals : status[g] # "unsent"}) <= 1

Bound == InOrder /\ OneOnFixed
=============================================================================
