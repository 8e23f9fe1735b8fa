--------------------------- MODULE MCLocalPlanner ---------------------------
EXTENDS LocalPlanner, TLC
CONSTANTS a, b, c, d, e
(* c and d lie in the same place. *)
MCGoals == {a, b, c, d, e}
MCTargets == {c, d}
MCOne == {c}
MCPlace == [g \in MCGoals |-> CASE g = a -> "A" [] g = b -> "B" [] g = e -> "E" [] OTHER -> "C"]
MCHeading == [g \in MCGoals |-> IF g = d THEN "back" ELSE "ahead"]
(* The place of c is in the middle of both. *)
MCTopologies == <<{<<a, b, c, e, a>>}, {<<b, e, c, a>>}>>
(* Bound: where there is a topology, one goal off a fixed route, a robot   *)
(* turned as it says, and an obstacle before the second topology that is   *)
(* waited for. *)
OneKind ==
  version > 0 =>
    /\ goal # d /\ base.goal # d /\ ~base.fixed
    /\ robot.heading = Heading[c]
    /\ planner.status \in {"line", "wait"}
    /\ obstacle = "none" \/ (obstacle = "ahead" /\ version = 1)
=============================================================================
