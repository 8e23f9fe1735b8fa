---------------------------- MODULE LineControl -----------------------------
(***************************************************************************)
(* The control along straight lines of the local planner                   *)
(* (dwa_planner_ros.cpp): how the robot gets onto the line, along it, and  *)
(* turned as its goal says, and when the goal is reached.  A goal is a     *)
(* pose; of distances and angles it counts which thresholds they are       *)
(* within.                                                                 *)
(***************************************************************************)
EXTENDS LinePlanner

CONSTANTS
  Goals,                  \* poses of which the Targets are some
  Place, Heading,         \* of each goal
  Settle                  \* cycles in status 4 and in status 5: 8 in the code

ASSUME GoalsAssumption == Targets \subseteq Goals
ASSUME SettleAssumption == Settle \in Nat

Places == {Place[g] : g \in Targets} \cup {"elsewhere"}
Headings == {Heading[g] : g \in Targets}

VARIABLES
  robot,      \* current_pose_
  goal,       \* linePath.back() of the last plan that was a line
  status,     \* 0 along the line, 1 turns to it, 4 stands before it sets off,
              \* 5 stands before it turns, 2 turns at the goal, 3 has arrived
  counter,    \* state4counter in status 4, state5counter in status 5
  yawErr,     \* goal_yaw_err is within yaw_goal_tolerance
  been,       \* history: since goal is what it is, the robot was in its place
  heading     \* history: since then its heading is "unseen", or has been seen
              \* and always was "wrong", or once was "right"

lineVars == <<robot, goal, status, counter, yawErr, been, heading>>

LineOK ==
  /\ robot \in [place : Places, heading : Headings]
  /\ goal \in Targets \cup {NoGoal}
  /\ status \in 0 .. 5 /\ counter \in -1 .. Settle
  /\ yawErr \in BOOLEAN /\ been \in BOOLEAN
  /\ heading \in {"unseen", "wrong", "right"}

LineInit ==
  /\ robot \in [place : Places, heading : Headings]
  /\ goal = NoGoal /\ status = 0 /\ counter = 0
  /\ yawErr = TRUE /\ been = FALSE /\ heading = "unseen"

InPlace == goal # NoGoal /\ robot.place = Place[goal]
Turned == goal # NoGoal /\ robot.heading = Heading[goal]

(* updateLineGoalRelativeState, and what lineComputeVelocityCommands       *)
(* computes of the same kind. *)
Look ==
  /\ yawErr' = Turned /\ been' = (been \/ InPlace)
  /\ heading' = IF Turned \/ heading = "right" THEN "right" ELSE "wrong"

-----------------------------------------------------------------------------
(* setPlan, of a line: another goal begins with status 1. *)
(* mutant: the status is kept *)
KeepsStatus(g) ==
  /\ goal' = g /\ UNCHANGED status
  /\ IF g = goal THEN UNCHANGED <<been, heading>> ELSE been' = FALSE /\ heading' = "unseen"
NewGoal(g) ==
  /\ goal' = g
  /\ IF g = goal THEN UNCHANGED <<status, been, heading>>
                 ELSE status' = 1 /\ been' = FALSE /\ heading' = "unseen"

(* mygoalReachPanduan; yaw stands for goal_yaw_err. *)
Reached(yaw) == InPlace /\ yaw

(* isGoalReached where the reference path says nothing: the yaw error is   *)
(* the one computed last, and a status of 3 is enough. *)
Arrived == Reached(yawErr) \/ status = 3

(* The status switches before the command is made for it.  far: more than  *)
(* 0.10 m from the goal; astray: the direction is off by more than what    *)
(* the status before allows.                                               *)
NextStatus(far, astray) ==
  IF Reached(Turned) THEN 3
  ELSE IF status \in {0, 1} /\ InPlace THEN 5
  ELSE IF status = 1 /\ ~far THEN 0
  ELSE IF status = 1 /\ ~astray THEN 4
  ELSE IF status = 0 /\ far /\ astray THEN 1
  ELSE IF status = 2 /\ Turned THEN 3
  ELSE IF status = 4 /\ counter <= 0 THEN 0
  ELSE IF status = 5 /\ counter <= 0 THEN 2
  ELSE status

Command == [s \in 0 .. 5 |-> IF s = 0 THEN "drive" ELSE IF s \in {1, 2} THEN "turn" ELSE "stop"]

(* lineComputeVelocityCommands *)
LineCommand(cmd) ==
  \E far, astray \in BOOLEAN :
    LET next == NextStatus(far, astray)
        start == IF next = status THEN counter ELSE Settle
    IN /\ status' = next
       /\ counter' = IF next \in {4, 5} THEN start - 1 ELSE 0
       /\ cmd = Command[next]
       /\ Look
       /\ UNCHANGED <<robot, goal>>

(* forceLegacyLineRotate *)
StartOver == status' = 1 /\ counter' = 0
=============================================================================
