------------------------- MODULE MCDijkstraPlanner --------------------------
EXTENDS DijkstraPlanner

(* Four poses: a detour that is cheaper than the direct edge, an edge that *)
(* costs nothing, cycles, parallel edges of different costs, and an edge   *)
(* the map blocks.  Pose 3 has no way back.                                *)
MCGraph ==
  UNION { AddEdge(0, 1, 1, TRUE, FALSE), AddEdge(1, 2, 0, TRUE, FALSE),
          AddEdge(0, 2, 2, FALSE, FALSE),
          AddEdge(2, 3, 1, FALSE, FALSE), AddEdge(2, 3, 2, FALSE, FALSE),
          AddEdge(0, 3, 1, FALSE, TRUE) }
MCTrips == {<<0, 2>>, <<0, 3>>, <<2, 0>>, <<3, 0>>, <<1, 1>>}
MCDriven == {<<0, 1>>, <<2, 3>>}
=============================================================================
