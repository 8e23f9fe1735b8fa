----------------------------- MODULE MCTopoNav ------------------------------
EXTENDS TopoNav
(* Two poses. *)
Aisle == AddEdge(0, 1, 1, TRUE, FALSE)
(* Four poses in a row, routes with a pose in the middle; and with a long  *)
(* way round, which the planner avoids until an edge of the row is blocked. *)
Row == UNION {AddEdge(p, p + 1, 1, TRUE, FALSE) : p \in 0 .. 2}
Ring == Row \cup AddEdge(0, 3, 5, TRUE, FALSE)
(* Bound: one re-entry or replan is followed to its end. *)
FewReplans == \A r \in Runners : mission[r].replans <= 1
(* The missions of one behaviour are all of one kind.  Only Request and    *)
(* StartOrResume can be held back by this, and no fairness is assumed of   *)
(* them: what is fair in the constrained graph is fair in the whole one.   *)
OneRunner == joyThread = "none" \/ requests = 0
=============================================================================
