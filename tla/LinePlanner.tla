---------------------------- MODULE LinePlanner -----------------------------
(***************************************************************************)
(* The global planner (myglobal_planner/src/planner_core.cpp): it plans a  *)
(* straight line to the goal, and marks the plan (position.z) by what      *)
(* stands on that line.  From one plan to the next it keeps how it deals   *)
(* with an obstacle.  What it does about one at the end of the line and    *)
(* one that can be passed differs; where exactly an obstacle is does not   *)
(* matter here.                                                            *)
(***************************************************************************)
EXTENDS Integers

CONSTANTS
  Targets,                \* the goals that are planned to
  EnableAvoidance         \* enable_dwa_obstacle_avoidance

ASSUME AvoidanceAssumption == EnableAvoidance \in BOOLEAN

NoGoal == "no goal"
ASSUME TargetAssumption == NoGoal \notin Targets

VARIABLES
  obstacle,   \* what obsCheck sees: "none", one "ahead" that the line goes
              \* on behind, or one up to the "end" of the line
  planner     \* status: 0 drives the "line", 1 will "wait", 2 may "avoid", 3
              \* waits at the "end" of the line, 4 for the "far end", of a
              \* line it does not drive; and iniGoal, which makes a
              \* difference where the status is not 0, else NoGoal

plannerVars == <<obstacle, planner>>

Obstacles == {"none", "ahead", "end"}
Statuses == {"line", "wait", "avoid", "end", "far end"}
Marks == {"line", "wait", "else"}

LinePlannerOK ==
  /\ obstacle \in Obstacles
  /\ planner \in [goal : Targets \cup {NoGoal}, status : Statuses]

LinePlannerInit ==
  /\ obstacle = "none"
  /\ planner = [goal |-> NoGoal, status |-> "line"]

(* The world: obstacles come and go. *)
ObstacleChanges ==
  /\ obstacle' \in Obstacles \ {obstacle}
  /\ UNCHANGED planner

(* stateSwitch: at most one transition for a plan.  expired: it has waited *)
(* for wait_time; near: it has come back to the line.                      *)
Switched(s, expired, near) ==
  CASE s = "line" /\ obstacle = "ahead" -> "wait"
    [] s = "line" /\ obstacle = "end" -> "end"
    [] s = "wait" /\ obstacle = "none" -> "line"
    [] s = "wait" /\ obstacle # "none" /\ expired /\ EnableAvoidance -> "avoid"
    [] s = "avoid" /\ near -> "line"
    [] s = "avoid" /\ ~near /\ obstacle = "end" -> "far end"
    [] s = "end" /\ obstacle # "end" -> "line"
    [] s = "far end" /\ obstacle # "end" -> "avoid"
    [] OTHER -> s

(* dealState: the marks a plan may get; none if there is no plan. *)
Marked(s) ==
  IF s = "line" THEN {"line"} ELSE IF s = "avoid" THEN {"else", "none"} ELSE {"wait"}

(* makePlan: for another goal, or when the robot has moved, the line is    *)
(* planned anew and its status is 0 before the obstacles are looked for.   *)
MakePlan(goal, mark) ==
  \E anew, expired, near \in BOOLEAN :
    LET status == Switched(IF anew THEN "line" ELSE planner.status, expired, near)
    IN /\ planner.goal # goal => anew
       /\ mark \in Marked(status) \cup (IF anew THEN {"none"} ELSE {})
       /\ planner' = IF status = "line" \/ (anew /\ mark = "none")
                     THEN [goal |-> NoGoal, status |-> "line"]
                     ELSE [goal |-> goal, status |-> status]
       /\ UNCHANGED obstacle
=============================================================================
