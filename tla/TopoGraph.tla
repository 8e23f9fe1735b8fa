----------------------------- MODULE TopoGraph -----------------------------
(***************************************************************************)
(* The topology graph of run_nav.cpp: directed edges between the poses of  *)
(* robot_positions.txt, some of them blocked in topology.yaml, some of     *)
(* them blocked for a while after a failed goal, and what a route through  *)
(* it is.  Poses are 0 .. Poses - 1, the indices of target_poses.          *)
(* Parallel edges are possible: a legacy topo.txt that names an edge from  *)
(* both of its ends yields every direction twice (lines 1281-1300).        *)
(***************************************************************************)
EXTENDS Integers, Sequences, FiniteSets, FiniteSetsExt

CONSTANT Poses            \* target_poses.size()
ASSUME PosesAssumption == Poses \in Nat \ {0}

Pose == 0 .. Poses - 1
NoPose == -1

(* What planning reads of a TopoEdge.  The cost is the configured one, or  *)
(* the distance of the poses when that is not positive: never negative.    *)
TopoEdges == [from : Pose, to : Pose, cost : Nat, configured : BOOLEAN]

(* addEdge: the edges one entry of topology.yaml adds. *)
AddEdge(from, to, cost, bidirectional, configured) ==
  LET directed(a, b) ==
        IF a = b \/ {a, b} \cap Pose # {a, b}
        THEN {}
        ELSE {[from |-> a, to |-> b, cost |-> cost, configured |-> configured]}
  IN  directed(from, to) \cup (IF bidirectional THEN directed(to, from) ELSE {})

(* edgeIsBlocked, and what a fixed route makes of it: a fixed route obeys  *)
(* the map's blocks and ignores the temporary ones.                        *)
EdgeIsBlocked(e, temporary, fixed) ==
  e.configured \/ (~fixed /\ e \in temporary)

OpenEdges(graph, temporary, fixed) ==
  {e \in graph : ~EdgeIsBlocked(e, temporary, fixed)}

-----------------------------------------------------------------------------
(* Reference definitions: what a shortest route is, independently of the   *)
(* way the code finds one.                                                 *)
Between(edges, a, b) == {e \in edges : e.from = a /\ e.to = b}

(* SubSeq changes no path: it has TLC write each one as a tuple, which is  *)
(* quicker to compare than a function.                                     *)
SimplePaths ==
  {p \in {SubSeq(w, 1, Len(w)) : w \in UNION {[1 .. n -> Pose] : n \in 1 .. Poses}} :
     \A i, j \in DOMAIN p : p[i] = p[j] => i = j}

Routes(edges, start, goal) ==
  {p \in SimplePaths :
     /\ p[1] = start /\ p[Len(p)] = goal
     /\ \A i \in 2 .. Len(p) : Between(edges, p[i - 1], p[i]) # {}}

(* The cheapest of parallel edges counts.                                  *)
StepCost(edges, a, b) == Min({e.cost : e \in Between(edges, a, b)})
RouteCost(edges, p) ==
  LET cost[i \in 1 .. Len(p)] ==
        IF i = 1 THEN 0 ELSE cost[i - 1] + StepCost(edges, p[i - 1], p[i])
  IN  cost[Len(p)]
=============================================================================
