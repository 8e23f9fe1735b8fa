------------------------------- MODULE MoveBase -------------------------------
(***************************************************************************)
(* move_base (move_base.cpp): the action that drives the robot to a goal.  *)
(* Two threads share its state.  The thread of the action server runs      *)
(* executeCb, and in it executeCycle once per control period; planThread   *)
(* sleeps on planner_cond_ until runPlanner_, makes a plan with the mutex  *)
(* released and installs it.  A plan travels through three buffers: each   *)
(* thread swaps its own with latest_plan_.  A timer wakes the planner for  *)
(* periodic planning.                                                      *)
(*                                                                         *)
(* What is done under planner_mutex_ is one step; every other access to    *)
(* state_, new_global_plan_ and runPlanner_ is a step of its own.  A plan  *)
(* is the goal it leads to.  Timeouts that have or have not passed, plans  *)
(* that are or are not found and sensor data that is or is not current are *)
(* free choices.  SimpleActionServer, the local planner and the clients    *)
(* are external.                                                           *)
(***************************************************************************)
EXTENDS Integers, FiniteSets

CONSTANTS
  Goals,                  \* the goals the clients send, each of them once
  NoGoal,                 \* no goal; an empty plan
  Invalid,                \* those whose quaternion isQuaternionValid refuses
  Periodic,               \* planner_frequency_ > 0
  FixedModes,             \* the values /anav/fixed_route_mode takes
  RecoveryEnabled,        \* recovery_behavior_enabled_
  Behaviors               \* recovery_behaviors_.size()

ASSUME GoalsAssumption == NoGoal \notin Goals /\ Invalid \subseteq Goals
ASSUME ParametersAssumption ==
  /\ Periodic \in BOOLEAN /\ RecoveryEnabled \in BOOLEAN
  /\ FixedModes \subseteq BOOLEAN /\ Behaviors \in Nat

VARIABLES
  status, current, nextGoal,          \* the goals of the action server
  preempt, nextPreempt,               \* preempt_request_, new_goal_preempt_request_
  pc,                                 \* where executeCb is
  ppc, tempGoal, waitForWake, timer,  \* planThread and its wake-up timer
  runPlanner, plannerGoal, newPlan,   \* runPlanner_, planner_goal_, new_global_plan_
  state, trigger, index, fixed,       \* state_, recovery_trigger_, recovery_index_
  latestPlan, controllerPlan,         \* what these buffers hold; planner_plan_
                                      \* holds the plan for tempGoal
  followed,                           \* the plan the local planner has been given
  at,                                 \* the goal where the robot stands
  vel                                 \* the last velocity published

server == <<status, current, nextGoal, preempt, nextPreempt>>
thread == <<ppc, tempGoal, waitForWake, timer>>
plans == <<latestPlan, controllerPlan>>
robot == <<followed, at>>
vars == <<server, pc, thread, runPlanner, plannerGoal, newPlan, state, trigger,
          index, fixed, plans, robot, vel>>

Over == {"recalled", "preempted", "aborted", "succeeded"}
GoalOrNone == Goals \cup {NoGoal}

FlagsOK ==
  /\ preempt \in BOOLEAN /\ nextPreempt \in BOOLEAN
  /\ waitForWake \in BOOLEAN /\ timer \in BOOLEAN
  /\ runPlanner \in BOOLEAN /\ newPlan \in BOOLEAN /\ fixed \in BOOLEAN
GoalsOK ==
  /\ status \in [Goals -> {"unsent", "pending", "active"} \cup Over]
  /\ current \in GoalOrNone /\ nextGoal \in GoalOrNone
  /\ plannerGoal \in GoalOrNone /\ tempGoal \in GoalOrNone
  /\ latestPlan \in GoalOrNone /\ controllerPlan \in GoalOrNone
  /\ followed \in GoalOrNone /\ at \in GoalOrNone
PlacesOK ==
  /\ pc \in {"idle", "loop", "newgoal", "cycle", "swap", "switch", "wake", "recover"}
  /\ ppc \in {"asleep", "woken", "plan", "got", "retry", "rest"}
  /\ state \in {"PLANNING", "CONTROLLING", "CLEARING"}
  /\ trigger \in {"PLANNING_R", "CONTROLLING_R", "OSCILLATION_R"}
  /\ vel \in {"zero", "move"}
TypeOK == FlagsOK /\ GoalsOK /\ PlacesOK /\ index \in 0 .. Behaviors

Init ==
  /\ status = [g \in Goals |-> "unsent"] /\ current = NoGoal /\ nextGoal = NoGoal
  /\ preempt = FALSE /\ nextPreempt = FALSE
  /\ pc = "idle"
  /\ ppc = "asleep" /\ tempGoal = NoGoal /\ waitForWake = FALSE /\ timer = FALSE
  /\ runPlanner = FALSE /\ plannerGoal = NoGoal /\ newPlan = FALSE
  /\ state = "PLANNING" /\ trigger = "PLANNING_R" /\ index = 0
  /\ fixed \in FixedModes
  /\ latestPlan = NoGoal /\ controllerPlan = NoGoal
  /\ followed = NoGoal /\ at = NoGoal /\ vel = "zero"

(* The clients and the action server ************************************* *)

(* goalCallback of SimpleActionServer: the newest goal waits to be taken;  *)
(* one that was waiting is recalled, an active one asked to give way.      *)
SendGoal(g) ==
  /\ status[g] = "unsent"
  /\ status' = [h \in Goals |-> IF h = g THEN "pending"
                                ELSE IF h = nextGoal THEN "recalled" ELSE status[h]]
  /\ nextGoal' = g /\ nextPreempt' = FALSE
  /\ preempt' = (preempt \/ pc # "idle")
  /\ UNCHANGED <<current, pc, thread, runPlanner, plannerGoal, newPlan, state,
                 trigger, index, fixed, plans, robot, vel>>

CancelGoal(g) ==
  /\ \/ g = current /\ pc # "idle" /\ preempt' = TRUE /\ UNCHANGED nextPreempt
     \/ g = nextGoal /\ nextPreempt' = TRUE /\ UNCHANGED preempt
  /\ UNCHANGED <<status, current, nextGoal, pc, thread, runPlanner, plannerGoal,
                 newPlan, state, trigger, index, fixed, plans, robot, vel>>

(* acceptNewGoal, with the result the new goal is given at once. *)
AcceptNewGoal(result) ==
  /\ nextGoal # NoGoal
  /\ current' = nextGoal /\ nextGoal' = NoGoal
  /\ preempt' = nextPreempt /\ nextPreempt' = FALSE
  /\ status' = [g \in Goals |->
                  IF g = nextGoal THEN result
                  ELSE IF g = current /\ pc # "idle" THEN "preempted" ELSE status[g]]

(* planner_cond_.notify_one(). *)
Notify == ppc' = (IF ppc = "asleep" THEN "woken" ELSE ppc)

(* resetState, and the result of the goal that is over. *)
EndGoal(result) ==
  /\ runPlanner' = FALSE
  /\ state' = "PLANNING" /\ index' = 0 /\ trigger' = "PLANNING_R" /\ vel' = "zero"
  /\ status' = [status EXCEPT ![current] = result]
  /\ preempt' = FALSE
  /\ pc' = "idle"
  /\ UNCHANGED <<current, nextGoal, nextPreempt, thread, plannerGoal, newPlan,
                 fixed, at>>

(* executeCb ************************************************************* *)

(* planner_goal_, runPlanner_ and the notification, under the mutex. *)
(* mutant: the planner is not told *)
StartPlannerSilently(goal) ==
  /\ plannerGoal' = goal /\ runPlanner' = TRUE
  /\ UNCHANGED <<ppc, tempGoal, waitForWake, timer>>
StartPlanner(goal) ==
  /\ plannerGoal' = goal /\ runPlanner' = TRUE
  /\ Notify /\ UNCHANGED <<tempGoal, waitForWake, timer>>

ExecuteCb ==
  /\ pc = "idle"
  /\ fixed' \in FixedModes
  /\ IF nextGoal \in Invalid
     THEN /\ AcceptNewGoal("aborted")
          /\ UNCHANGED <<pc, vel, thread, plannerGoal, runPlanner>>
     ELSE /\ AcceptNewGoal("active")
          /\ vel' = "zero"
          /\ StartPlanner(nextGoal)
          /\ pc' = "loop"
  /\ UNCHANGED <<newPlan, state, trigger, index, plans, robot>>

(* A new goal takes over: nothing is shut down.  A goal that is refused    *)
(* ends executeCb on the spot, whatever the planner and the base are doing.*)
TakeNewGoal ==
  /\ pc = "loop" /\ preempt /\ nextGoal # NoGoal
  /\ IF nextGoal \in Invalid
     THEN /\ AcceptNewGoal("aborted")
          /\ pc' = "idle"
          /\ UNCHANGED <<state, index>>
     ELSE /\ AcceptNewGoal("active")
          /\ index' = 0 /\ state' = "PLANNING"
          /\ pc' = "newgoal"
  /\ UNCHANGED <<thread, runPlanner, plannerGoal, newPlan, trigger, fixed,
                 plans, robot, vel>>

Preempted ==
  /\ pc = "loop" /\ preempt /\ nextGoal = NoGoal
  /\ EndGoal("preempted")
  /\ UNCHANGED <<latestPlan, controllerPlan, followed>>

(* The goal is not in the frame of the global costmap: the transform had   *)
(* failed, or the frame has changed.                                       *)
GlobalFrameChanged ==
  /\ pc = "loop" /\ ~preempt
  /\ index' = 0 /\ state' = "PLANNING"
  /\ pc' = "newgoal"
  /\ UNCHANGED <<server, thread, runPlanner, plannerGoal, newPlan, trigger, fixed,
                 plans, robot, vel>>

NewGoalToPlanner ==
  /\ pc = "newgoal"
  /\ StartPlanner(current)
  /\ pc' = "cycle"
  /\ UNCHANGED <<server, newPlan, state, trigger, index, fixed, plans, robot, vel>>

(* mutant: isPreemptRequested is not asked in every cycle *)
NextCycleUnasked ==
  /\ pc = "loop"
  /\ pc' = "cycle"
  /\ UNCHANGED <<server, thread, runPlanner, plannerGoal, newPlan, state, trigger,
                 index, fixed, plans, robot, vel>>
NextCycle ==
  /\ pc = "loop" /\ ~preempt
  /\ pc' = "cycle"
  /\ UNCHANGED <<server, thread, runPlanner, plannerGoal, newPlan, state, trigger,
                 index, fixed, plans, robot, vel>>

(* executeCycle ********************************************************** *)

(* The robot may have moved far enough to call off an oscillation. *)
MovedOn == index' \in (IF trigger = "OSCILLATION_R" THEN {index, 0} ELSE {index})

(* Without current sensor data the base is not driven. *)
CycleBlind ==
  /\ pc = "cycle"
  /\ MovedOn
  /\ vel' = "zero" /\ pc' = "loop"
  /\ UNCHANGED <<server, thread, runPlanner, plannerGoal, newPlan, state, trigger,
                 fixed, plans, robot>>

(* A new plan is noticed before the mutex is taken. *)
CycleBegins ==
  /\ pc = "cycle"
  /\ MovedOn
  /\ newPlan' = FALSE
  /\ pc' = (IF newPlan THEN "swap" ELSE "switch")
  /\ UNCHANGED <<server, thread, runPlanner, plannerGoal, state, trigger, fixed,
                 plans, robot, vel>>

(* The swap under the mutex, then setPlan of the local planner. *)
Swap == controllerPlan' = latestPlan /\ latestPlan' = controllerPlan

NewPlanToController ==
  /\ pc = "swap"
  /\ Swap
  /\ followed' = latestPlan
  /\ index' = (IF trigger = "PLANNING_R" THEN 0 ELSE index)
  /\ pc' = "switch"
  /\ UNCHANGED <<server, thread, runPlanner, plannerGoal, newPlan, state, trigger,
                 fixed, at, vel>>

SetPlanFails ==
  /\ pc = "swap"
  /\ Swap
  /\ EndGoal("aborted")
  /\ UNCHANGED followed

Planning ==
  /\ pc = "switch" /\ state = "PLANNING"
  /\ pc' = "wake"
  /\ UNCHANGED <<server, thread, runPlanner, plannerGoal, newPlan, state, trigger,
                 index, fixed, plans, robot, vel>>

WakeThePlanner ==
  /\ pc = "wake"
  /\ StartPlanner(plannerGoal)
  /\ pc' = "loop"
  /\ UNCHANGED <<server, newPlan, state, trigger, index, fixed, plans, robot, vel>>

(* isGoalReached of the local planner looks at the plan it was given. *)
GoalReached ==
  /\ pc = "switch" /\ state = "CONTROLLING"
  /\ followed # NoGoal /\ at = followed
  /\ EndGoal("succeeded")
  /\ UNCHANGED <<latestPlan, controllerPlan, followed>>

(* An oscillation stops the base and asks for a recovery, and the cycle    *)
(* goes on: a command that is found is published all the same.             *)
Oscillates == ~fixed /\ trigger' = "OSCILLATION_R" /\ state' = "CLEARING"
CommandFound ==
  /\ pc = "switch" /\ state = "CONTROLLING" /\ followed # NoGoal
  /\ Oscillates \/ UNCHANGED <<trigger, state>>
  /\ vel' \in {"zero", "move"}
  /\ at' \in (IF vel' = "zero" THEN {at} ELSE {NoGoal, followed})
  /\ index' = (IF trigger' = "CONTROLLING_R" THEN 0 ELSE index)
  /\ pc' = "loop"
  /\ UNCHANGED <<server, thread, runPlanner, plannerGoal, newPlan, fixed, plans,
                 followed>>

(* No command: on a fixed route the robot waits where it is; otherwise it  *)
(* plans again, or gives up on controlling after controller_patience_.     *)
NoCommandFound ==
  /\ pc = "switch" /\ state = "CONTROLLING"
  /\ vel' = "zero"
  /\ \/ fixed /\ pc' = "loop" /\ UNCHANGED <<state, trigger>>
     \/ ~fixed /\ state' = "CLEARING" /\ trigger' = "CONTROLLING_R" /\ pc' = "loop"
     \/ ~fixed /\ state' = "PLANNING" /\ pc' = "wake"
        /\ trigger' \in {trigger, "OSCILLATION_R"}
  /\ UNCHANGED <<server, thread, runPlanner, plannerGoal, newPlan, index, fixed,
                 plans, robot>>

Recovers == RecoveryEnabled /\ index < Behaviors
Clearing ==
  /\ pc = "switch" /\ state = "CLEARING" /\ Recovers
  /\ pc' = "recover"
  /\ UNCHANGED <<server, thread, runPlanner, plannerGoal, newPlan, state, trigger,
                 index, fixed, plans, robot, vel>>

RecoveryFailed ==
  /\ pc = "switch" /\ state = "CLEARING" /\ ~Recovers
  /\ EndGoal("aborted")
  /\ UNCHANGED <<latestPlan, controllerPlan, followed>>

(* runBehavior returns; the robot may have been turned or pushed back. *)
RunBehavior ==
  /\ pc = "recover"
  /\ at' \in {at, NoGoal}
  /\ state' = "PLANNING" /\ index' = index + 1
  /\ pc' = "loop"
  /\ UNCHANGED <<server, thread, runPlanner, plannerGoal, newPlan, trigger, fixed,
                 plans, followed, vel>>

(* planThread ************************************************************ *)

(* Under the mutex: sleep on the condition variable, or copy the goal. *)
SleepOrPlan(wait) ==
  /\ waitForWake' = wait
  /\ IF wait \/ ~runPlanner
     THEN ppc' = "asleep" /\ UNCHANGED tempGoal
     ELSE ppc' = "plan" /\ tempGoal' = plannerGoal

Woken ==
  /\ ppc = "woken"
  /\ SleepOrPlan(FALSE)
  /\ UNCHANGED <<server, pc, timer, runPlanner, plannerGoal, newPlan, state, trigger,
                 index, fixed, plans, robot, vel>>

(* makePlan, without the mutex.  A failure counts only in PLANNING. *)
MakePlan ==
  /\ ppc = "plan"
  /\ ppc' \in {"got", IF state = "PLANNING" THEN "retry" ELSE "rest"}
  /\ UNCHANGED <<server, pc, tempGoal, waitForWake, timer, runPlanner, plannerGoal,
                 newPlan, state, trigger, index, fixed, plans, robot, vel>>

(* The plan goes to the controller; the buffer the planner gets back is    *)
(* cleared before it is used again (line 612).                             *)
(* mutant: the state is set even when the planner has been disabled *)
InstallPlanAlways ==
  /\ ppc = "got"
  /\ latestPlan' = tempGoal
  /\ newPlan' = TRUE
  /\ state' = "CONTROLLING"
  /\ runPlanner' = (runPlanner /\ Periodic /\ ~fixed)
  /\ ppc' = "rest"
  /\ UNCHANGED <<server, pc, tempGoal, waitForWake, timer, plannerGoal, trigger,
                 index, fixed, controllerPlan, robot, vel>>
InstallPlan ==
  /\ ppc = "got"
  /\ latestPlan' = tempGoal
  /\ newPlan' = TRUE
  /\ state' = (IF runPlanner THEN "CONTROLLING" ELSE state)
  /\ runPlanner' = (runPlanner /\ Periodic /\ ~fixed)
  /\ ppc' = "rest"
  /\ UNCHANGED <<server, pc, tempGoal, waitForWake, timer, plannerGoal, trigger,
                 index, fixed, controllerPlan, robot, vel>>

(* Another try, or the end of planner_patience_ or of the retries. *)
(* mutant: the base is not stopped when planning is given up *)
PlanningFailedMoving ==
  /\ ppc = "retry"
  /\ \/ UNCHANGED <<state, runPlanner, vel, trigger>>
     \/ /\ runPlanner
        /\ state' = "CLEARING" /\ runPlanner' = FALSE /\ trigger' = "PLANNING_R"
        /\ UNCHANGED vel
  /\ ppc' = "rest"
  /\ UNCHANGED <<server, pc, tempGoal, waitForWake, timer, plannerGoal, newPlan,
                 index, fixed, plans, robot>>
PlanningFailed ==
  /\ ppc = "retry"
  /\ \/ UNCHANGED <<state, runPlanner, vel, trigger>>
     \/ /\ runPlanner
        /\ state' = "CLEARING" /\ runPlanner' = FALSE /\ trigger' = "PLANNING_R"
        /\ vel' = "zero"
  /\ ppc' = "rest"
  /\ UNCHANGED <<server, pc, tempGoal, waitForWake, timer, plannerGoal, newPlan,
                 index, fixed, plans, robot>>

(* Periodic planning: unless planning took the whole period, wait for the  *)
(* timer, which goes off again and again until it is replaced.             *)
Rest ==
  /\ ppc = "rest"
  /\ \/ SleepOrPlan(waitForWake) /\ UNCHANGED timer
     \/ Periodic /\ SleepOrPlan(TRUE) /\ timer' = TRUE
  /\ UNCHANGED <<server, pc, runPlanner, plannerGoal, newPlan, state, trigger, index,
                 fixed, plans, robot, vel>>

WakePlanner ==
  /\ timer /\ ppc = "asleep"
  /\ Notify
  /\ UNCHANGED <<server, pc, tempGoal, waitForWake, timer, runPlanner, plannerGoal,
                 newPlan, state, trigger, index, fixed, plans, robot, vel>>

(* fixedRouteModeCB. *)
FixedRouteModeCB ==
  /\ fixed' \in FixedModes /\ fixed' # fixed
  /\ UNCHANGED <<server, pc, thread, runPlanner, plannerGoal, newPlan, state, trigger,
                 index, plans, robot, vel>>

Client == \E g \in Goals : SendGoal(g) \/ CancelGoal(g)
Execute ==
  \/ ExecuteCb \/ TakeNewGoal \/ Preempted \/ GlobalFrameChanged
  \/ NewGoalToPlanner \/ NextCycle
  \/ CycleBlind \/ CycleBegins \/ NewPlanToController \/ SetPlanFails
  \/ Planning \/ WakeThePlanner \/ GoalReached \/ CommandFound \/ NoCommandFound
  \/ Clearing \/ RunBehavior \/ RecoveryFailed
PlanThread == Woken \/ MakePlan \/ InstallPlan \/ PlanningFailed \/ Rest

Next == Client \/ Execute \/ PlanThread \/ WakePlanner \/ FixedRouteModeCB

(* Both threads run, the timer goes off, and the sensor data is current    *)
(* again and again.                                                        *)
Fairness ==
  /\ WF_vars(Execute) /\ WF_vars(PlanThread) /\ WF_vars(WakePlanner)
  /\ SF_vars(CycleBegins)
Spec == Init /\ [][Next]_vars
FairSpec == Spec /\ Fairness
-----------------------------------------------------------------------------
(* When no goal is being executed the planner is disabled, the machine is  *)
(* back at its start and the base has been told to stop, whatever the      *)
(* planner thread was doing when the goal ended.  The exception is a goal  *)
(* that took over and was refused: executeCb then returns without          *)
(* resetState (line 724).                                                  *)
IdleIsReset ==
  pc = "idle" /\ current \notin Invalid =>
    /\ ~runPlanner /\ state = "PLANNING"
    /\ trigger = "PLANNING_R" /\ index = 0
    /\ vel = "zero"

(* The robot stands still while it waits for a recovery behavior, whichever*)
(* thread asked for it: a planner that gave up while a goal that took over *)
(* was still rolling, or the controller.  An oscillation is not covered:   *)
(* its cycle goes on to publish the command it finds (933-949).            *)
StandsStillToRecover ==
  state = "CLEARING" /\ trigger # "OSCILLATION_R" => vel = "zero"

(* A goal that is asked to give way does, whatever the planner is doing.   *)
CancelEnds ==
  \A g \in Goals : (current = g /\ pc # "idle" /\ preempt) ~> (status[g] \in Over)

(* With periodic planning and no fixed route, the planner takes up the goal*)
(* it is given, also when it was busy with the goal before it, gave up on  *)
(* that one afterwards, or was not asleep when the notification came.      *)
GoalIsPlanned ==
  Periodic => \A g \in Goals :
    (plannerGoal = g /\ status[g] = "active" /\ []~fixed) ~>
      (status[g] \in Over \/ tempGoal = g)

(* move_base.h 67: the action moves the robot base to a goal location; a   *)
(* goal that has succeeded, "Goal reached." (line 912), is one where the   *)
(* robot has arrived.                                                      *)
SuccessIsArrival ==
  [][\A g \in Goals : status'[g] = "succeeded" /\ status[g] # "succeeded" => at = g]_vars
=============================================================================
