---------------------------- MODULE LocalPlanner ----------------------------
(***************************************************************************)
(* The local planner (dwa_planner_ros.cpp, reference_path_manager.cpp)     *)
(* with the planner and the goals of move_base around it: in the middle of *)
(* a route the robot follows a smooth reference path through the poses     *)
(* that run_nav publishes, elsewhere straight lines.  The path is computed *)
(* by a thread of its own; the topology comes in on the callback thread of *)
(* move_base; its control thread calls setPlan, isGoalReached and          *)
(* computeVelocityCommands.  A step of the control thread has at most one  *)
(* access to what a mutex protects, or several that no other thread can    *)
(* tell apart.                                                             *)
(***************************************************************************)
EXTENDS LineControl, TrajectoryGenerator, Sequences

CONSTANTS
  Topologies,             \* bound: the topologies that are published, of each
                          \* what it may be
  FixedRoutes             \* whether the goals are those of a fixed route

ASSUME TopologiesAssumption == Topologies \in Seq(SUBSET Seq(Goals))
ASSUME FixedAssumption == FixedRoutes \subseteq BOOLEAN

NoPath == [have |-> FALSE, route |-> <<>>, straight |-> {}]

VARIABLES
  topo, version,      \* topo_waypoints_, topology_version_
  path,               \* have_reference_path_, and of reference_path_ the poses
                      \* it was made of and its straight segments
  job,                \* reference_job_...: running, ready, version, poses, result
  failed,             \* reference_job_failed_topology_version_
  mode, fallback,     \* reference_path_mode_, reference_fallback_segments_
  base,               \* move_base: its state, its goal, whether that is one of
                      \* a fixed route, and runPlanner_
  mark,               \* useLine: the plan is a "line", a line to "wait" on
                      \* (position.z = 2) or something "else"
  passed,             \* reference_goal_reached_
  forced,             \* legacy_line_forced_goal_index_
  pc,                 \* where the control thread stands
  caller,             \* who called consumeReferencePathJob
  taken, given, at,   \* a job, the poses of the topology, and the index of the
                      \* goal among them (current_topology_goal_index_, which
                      \* is always set before it is used)
  verdict,            \* what the last cycle came to: a command to "drive", to
                      \* "turn" or to "wait", a "stop", or "reached"
  torn                \* history: a topology came between two looks at it

manager == <<topo, version, path>>
jobs == <<job, failed>>
used == <<mode, fallback>>
plan == <<mark, passed, forced>>
locals == <<caller, taken, given, at>>
vars == <<lineVars, plannerVars, manager, jobs, used, base, plan, pc, locals, verdict, torn>>

NoJob == [running |-> FALSE, ready |-> FALSE, version |-> -1, route |-> <<>>,
          result |-> NoResult]

Idle == [state |-> "idle", goal |-> NoGoal, fixed |-> FALSE, awake |-> FALSE]

Init ==
  /\ LinePlannerInit /\ LineInit
  /\ topo = <<>> /\ version = 0 /\ path = NoPath
  /\ job = NoJob /\ failed = -1
  /\ mode = "invalid" /\ fallback = {}
  /\ base = Idle
  /\ mark = "else" /\ passed = FALSE /\ forced = -1
  /\ pc = "idle" /\ caller = "cycle" /\ taken = NoJob /\ given = <<>> /\ at = -1
  /\ verdict = "stop" /\ torn = FALSE

-----------------------------------------------------------------------------
(* ReferencePathManager.                                                   *)

(* goalIndex, counted from 0: the first of the nearest poses. *)
GoalIndex(g) ==
  IF \E i \in DOMAIN topo : Place[topo[i]] = Place[g]
  THEN (CHOOSE i \in DOMAIN topo :
          /\ Place[topo[i]] = Place[g]
          /\ \A k \in 1 .. i - 1 : Place[topo[k]] # Place[g]) - 1
  ELSE -1

(* isMiddleGoal, once the index is known. *)
Middle(i) == i > 1 /\ i < Len(topo) - 1

(* Cooled: no path was tried to make within the cooldown of                *)
(* last_regenerate_attempt_, of which the time is left open. *)
NeedRegenerate(cooled) == Len(topo) >= 4 /\ cooled /\ ~path.have

(* The steps of the control thread between two looks at the topology: from *)
(* the poses of a job to the version it is for, and from the comparison of *)
(* the versions to the installation of the path. *)
BetweenLooks == pc \in {"need", "version", "launch", "useful", "install"}

(* topologyCallback, of a message that is not delivered twice.  A route of *)
(* less than two poses is none. *)
TopologyArrives(r) ==
  /\ topo' = (IF Len(r) < 2 THEN <<>> ELSE r)
  /\ version' = version + 1
  /\ path' = NoPath
  /\ torn' = BetweenLooks
  /\ UNCHANGED <<lineVars, plannerVars, jobs, used, base, plan, pc, locals, verdict>>

(* referencePathGenerationThread *)
Generate ==
  /\ job.running
  /\ \E result \in Generated(Len(job.route)) :
       job' = [job EXCEPT !.running = FALSE, !.ready = TRUE, !.result = result]
  /\ UNCHANGED <<lineVars, plannerVars, manager, failed, used, base, plan, pc, locals,
                 verdict, torn>>

-----------------------------------------------------------------------------
(* move_base and the robot.                                                *)

(* executeCb: a goal for an idle move_base begins with a stop, one that    *)
(* takes over from another does not. *)
GoalArrives(g, fixed) ==
  /\ pc = "idle"
  /\ base' = [state |-> "planning", goal |-> g, fixed |-> fixed, awake |-> TRUE]
  /\ verdict' = IF base.state = "idle" THEN "stop" ELSE verdict
  /\ UNCHANGED <<lineVars, plannerVars, manager, jobs, used, plan, pc, locals, torn>>

(* setPlan of the local planner *)
SetPlan(g, m) ==
  /\ mark' = m
  /\ IF m = "else"
     THEN passed' = FALSE /\ forced' = -1 /\ UNCHANGED <<goal, status, been, heading>>
     ELSE /\ NewGoal(g)
          /\ IF g = goal THEN UNCHANGED <<passed, forced>> ELSE passed' = FALSE /\ forced' = -1

(* planThread and the next executeCycle: on a fixed route one plan is the  *)
(* last one. *)
(* mutant: one plan is the last one on every route *)
PlanOnce == FALSE
PlansAgain == ~base.fixed
Plans ==
  /\ pc = "idle" /\ base.state # "idle" /\ base.awake
  /\ \E m \in Marks : MakePlan(base.goal, m) /\ SetPlan(base.goal, m)
  /\ base' = [base EXCEPT !.state = "controlling", !.awake = PlansAgain]
  /\ UNCHANGED <<robot, counter, yawErr, manager, jobs, used, pc, locals, verdict, torn>>

FindsNoPlan ==
  /\ pc = "idle" /\ base.state # "idle" /\ base.awake
  /\ MakePlan(base.goal, "none")
  /\ UNCHANGED <<lineVars, manager, jobs, used, base, plan, pc, locals, verdict, torn>>

(* The goal is cancelled or given up. *)
GoalEnds ==
  /\ pc = "idle" /\ base.state # "idle"
  /\ base' = Idle
  /\ verdict' = "stop"
  /\ UNCHANGED <<lineVars, plannerVars, manager, jobs, used, plan, pc, locals, torn>>

Obstacle ==
  /\ pc = "idle" /\ ObstacleChanges
  /\ UNCHANGED <<lineVars, manager, jobs, used, base, plan, pc, locals, verdict, torn>>

(* By the last command, or by somebody else when there is no goal.  Within *)
(* a cycle neither the robot nor the obstacles are taken to change. *)
Moves ==
  /\ pc = "idle"
  /\ base.state = "idle" \/ verdict \in {"drive", "turn"}
  /\ robot' \in [place : Places, heading : Headings] \ {robot}
  /\ (base.state # "idle" /\ verdict = "turn") => robot'.place = robot.place
  /\ UNCHANGED <<goal, status, counter, yawErr, been, heading, plannerVars, manager, jobs,
                 used, base, plan, pc, locals, verdict, torn>>

-----------------------------------------------------------------------------
(* The control thread.                                                     *)
ForgetsLocals == caller' = "cycle" /\ taken' = NoJob /\ given' = <<>> /\ at' = -1
Ends(v) == pc' = "idle" /\ verdict' = v /\ ForgetsLocals
Goes(p) == pc' = p /\ UNCHANGED verdict
Calls(p) == Goes(p) /\ UNCHANGED locals
Others == UNCHANGED <<plannerVars, manager, torn>>

(* A command could not be found: off a fixed route another plan may help.  *)
Fails(v) ==
  /\ Ends(v)
  /\ base' = IF base.fixed THEN base ELSE [base EXCEPT !.state = "planning"]
Commands(v) == Ends(v) /\ UNCHANGED base

(* referencePathCanFollowGoal *)
CanFollow(i) ==
  /\ i >= 0 /\ mode # "polyline"
  /\ mode = "hybrid" => i - 1 \notin fallback

(* isGoalReached.  The index of the goal is looked up, then compared with  *)
(* the length of the route: first to see whether the robot is to pass the  *)
(* goal without a stop. *)
LooksUp(p) ==
  /\ Goes(p) /\ at' = GoalIndex(goal)
  /\ UNCHANGED <<caller, taken, given>>

Answers(yes) ==
  IF yes THEN Ends("reached") /\ base' = Idle
         ELSE Goes("consume") /\ ForgetsLocals /\ UNCHANGED base

CycleBegins ==
  /\ pc = "idle" /\ base.state = "controlling"
  /\ IF mark = "line" THEN LooksUp("passes") /\ UNCHANGED base
     ELSE IF mark = "wait" THEN Calls("again") /\ UNCHANGED base
     ELSE Commands("drive") \/ Fails("stop") \/ Answers(TRUE)
  /\ UNCHANGED <<lineVars, jobs, used, plan>> /\ Others

(* mutant: the reference path does not keep the goal from being reached *)
NeverPasses == FALSE
Passes == Middle(at) /\ path.have /\ CanFollow(at)
PassesGoal ==
  /\ pc = "passes"
  /\ Goes(IF Passes THEN "consume" ELSE "again") /\ ForgetsLocals
  /\ UNCHANGED <<lineVars, jobs, used, base, plan>> /\ Others

(* Then the progress on the reference path, or else the line decides. *)
Again ==
  /\ pc = "again"
  /\ IF ~passed /\ mark = "line"
     THEN LooksUp("progress") /\ UNCHANGED <<base, been>>
     ELSE Answers(passed \/ Arrived) /\ been' = (been \/ InPlace)
  /\ UNCHANGED <<robot, goal, status, counter, yawErr, heading, jobs, used, mark, passed,
                 forced>> /\ Others

Progress ==
  /\ pc = "progress"
  /\ \/ /\ Middle(at) /\ path.have /\ CanFollow(at)
        /\ passed' = TRUE /\ Answers(TRUE) /\ UNCHANGED been
     \/ Answers(Arrived) /\ been' = (been \/ InPlace) /\ UNCHANGED passed
  /\ UNCHANGED <<robot, goal, status, counter, yawErr, heading, jobs, used, mark, forced>>
  /\ Others

-----------------------------------------------------------------------------
(* consumeReferencePathJob: from computeVelocityCommands (the caller is    *)
(* "cycle"), and first and last in prepareReferencePath.                   *)
NotConsumed == Goes(IF caller = "last" THEN "pending" ELSE "start") /\ taken' = NoJob
Consumed == Goes(IF caller = "cycle" THEN "start" ELSE "got") /\ taken' = NoJob

(* The robot may not be found on the map, or the plan on it. *)
NoPose ==
  /\ pc = "consume" /\ caller = "cycle" /\ Fails("stop")
  /\ UNCHANGED <<lineVars, jobs, used, plan>> /\ Others

Consume ==
  /\ pc = "consume" /\ mark # "else"
  /\ IF job.ready THEN Goes("compare") /\ taken' = job ELSE NotConsumed
  /\ UNCHANGED <<lineVars, jobs, used, base, plan, caller, given, at>> /\ Others

(* What is ready is taken away, and looked at if it is of this version. *)
(* mutant: the version of the job is not compared *)
AnyVersion == TRUE
SameVersion == taken.version = version
Compare ==
  /\ pc = "compare" /\ ~job.running
  /\ job' = [job EXCEPT !.ready = FALSE, !.route = <<>>, !.result = NoResult]
  /\ IF SameVersion THEN Goes("useful") /\ UNCHANGED taken ELSE NotConsumed
  /\ UNCHANGED <<lineVars, failed, used, base, plan, caller, given, at>> /\ Others

(* referenceGenerationUsefulForCurrentGoal *)
Useful(route) ==
  /\ ~passed /\ mark # "wait" /\ Len(route) >= 4
  /\ GoalIndex(goal) > 0 /\ GoalIndex(goal) < Len(route) - 1

UsefulJob ==
  /\ pc = "useful"
  /\ IF ~Useful(topo) THEN NotConsumed /\ UNCHANGED failed
     ELSE IF ~taken.result.ok THEN NotConsumed /\ failed' = taken.version
     ELSE Goes("install") /\ UNCHANGED <<taken, failed>>
  /\ UNCHANGED <<lineVars, job, used, base, plan, caller, given, at>> /\ Others

Install ==
  /\ pc = "install" /\ Consumed
  /\ mode' = taken.result.mode /\ fallback' = taken.result.fallback /\ forced' = -1
  /\ path' = [have |-> TRUE, route |-> taken.route, straight |-> taken.result.straight]
  /\ UNCHANGED <<lineVars, plannerVars, topo, version, jobs, base, mark,
                 passed, caller, given, at, torn>>

-----------------------------------------------------------------------------
(* maybeStartReferencePathJob *)
NotStarted == Goes(IF caller = "cycle" THEN "should" ELSE "have") /\ given' = <<>>

Start ==
  /\ pc = "start"
  /\ IF Len(topo) >= 2 THEN Goes("need") /\ given' = topo ELSE NotStarted
  /\ UNCHANGED <<lineVars, jobs, used, base, plan, caller, taken, at>> /\ Others

Need ==
  /\ pc = "need"
  /\ \E cooled \in BOOLEAN :
     IF Useful(given) /\ NeedRegenerate(cooled) /\ ~job.running THEN Calls("version")
     ELSE NotStarted /\ UNCHANGED <<caller, taken, at>>
  /\ UNCHANGED <<lineVars, jobs, used, base, plan>> /\ Others

Version ==
  /\ pc = "version"
  /\ IF failed # version THEN Calls("launch")
     ELSE NotStarted /\ UNCHANGED <<caller, taken, at>>
  /\ UNCHANGED <<lineVars, jobs, used, base, plan>> /\ Others

(* startReferencePathJob looks at the job once more, waits for the thread  *)
(* before and starts the next. *)
MayLaunch ==
  /\ ~job.running /\ failed # version
  /\ ~(job.ready /\ job.version = version)
Launch ==
  /\ pc = "launch" /\ NotStarted
  /\ IF MayLaunch
     THEN job' = [NoJob EXCEPT !.running = TRUE, !.version = version, !.route = given]
     ELSE UNCHANGED job
  /\ UNCHANGED <<lineVars, plannerVars, topo, version, path, failed, used, base, plan,
                 caller, taken, at, torn>>

-----------------------------------------------------------------------------
(* computeVelocityCommands: a fixed route that is blocked is waited on.    *)
(* Else computeReferenceVelocityCommands: shouldUseReferencePath. *)
Should ==
  /\ pc = "should"
  /\ \/ base.fixed /\ obstacle # "none" /\ Commands("wait")
     \/ UNCHANGED base /\ IF mark = "line" THEN LooksUp("middle") ELSE Calls("line")
  /\ UNCHANGED <<lineVars, jobs, used, plan>> /\ Others

InTheMiddle ==
  /\ pc = "middle"
  /\ IF Middle(at) THEN Calls("prepare") ELSE Goes("line") /\ ForgetsLocals
  /\ UNCHANGED <<lineVars, jobs, used, base, plan>> /\ Others

(* prepareReferencePath *)
ConsumesAs(c) == Goes("consume") /\ caller' = c /\ UNCHANGED <<taken, given, at>>
Prepare ==
  /\ pc = "prepare"
  /\ IF Len(topo) >= 2 THEN ConsumesAs("first") ELSE Calls("line")
  /\ UNCHANGED <<lineVars, jobs, used, base, plan>> /\ Others

Have ==
  /\ pc = "have"
  /\ IF path.have THEN Calls("follow") ELSE ConsumesAs("last")
  /\ UNCHANGED <<lineVars, jobs, used, base, plan>> /\ Others

Got ==
  /\ pc = "got" /\ Calls(IF path.have THEN "follow" ELSE "line")
  /\ UNCHANGED <<lineVars, jobs, used, base, plan>> /\ Others

Pending ==
  /\ pc = "pending"
  /\ IF job.running THEN Commands("wait") ELSE Calls("failed") /\ UNCHANGED base
  /\ UNCHANGED <<lineVars, jobs, used, plan>> /\ Others

Failed ==
  /\ pc = "failed"
  /\ IF failed = version THEN Fails("stop")
     ELSE IF Len(topo) >= 2 THEN Commands("wait")
     ELSE Calls("line") /\ UNCHANGED base
  /\ UNCHANGED <<lineVars, jobs, used, plan>> /\ Others

(* forceLegacyLineRotate, once for each goal and path. *)
ForceLegacy ==
  IF forced = at THEN UNCHANGED <<status, counter, passed, forced>>
  ELSE StartOver /\ passed' = FALSE /\ forced' = at

Follow ==
  /\ pc = "follow"
  /\ IF ~CanFollow(at)
     THEN ForceLegacy /\ Calls("line") /\ UNCHANGED <<yawErr, been, heading>>
     ELSE /\ IF path.have THEN Calls("sync") /\ Look
                          ELSE Calls("line") /\ UNCHANGED <<yawErr, been, heading>>
          /\ UNCHANGED <<status, counter, passed, forced>>
  /\ UNCHANGED <<robot, goal, jobs, used, base, mark>> /\ Others

(* syncReferencePathIndex and referenceEntryHeadingAligned: too far from   *)
(* the path, which is always so when there is none any more; not in its    *)
(* direction; or on it. *)
Sync ==
  /\ pc = "sync"
  /\ \/ Fails("stop") /\ UNCHANGED <<status, counter, passed, forced>>
     \/ path.have /\ ForceLegacy /\ Calls("line") /\ UNCHANGED base
     \/ path.have /\ Calls("track") /\ UNCHANGED <<base, status, counter, passed, forced>>
  /\ UNCHANGED <<robot, goal, yawErr, been, heading, jobs, used, mark>> /\ Others

(* An obstacle on the path is waited for, and then no command is found. *)
Track ==
  /\ pc = "track"
  /\ \/ Commands("drive")
     \/ obstacle # "none" /\ Commands("wait")
     \/ obstacle # "none" /\ Fails("stop")
  /\ UNCHANGED <<lineVars, jobs, used, plan>> /\ Others

Line ==
  /\ pc = "line"
  /\ IF mark = "wait" THEN Commands("wait") /\ UNCHANGED lineVars
     ELSE \E cmd \in {"drive", "turn", "stop"} : LineCommand(cmd) /\ Commands(cmd)
  /\ UNCHANGED <<jobs, used, plan>> /\ Others

IsGoalReached == CycleBegins \/ PassesGoal \/ Again \/ Progress
Consumes == NoPose \/ Consume \/ Compare \/ UsefulJob \/ Install
Starts == Start \/ Need \/ Version \/ Launch
Prepares == Should \/ InTheMiddle \/ Prepare \/ Have \/ Got \/ Pending \/ Failed
Controller ==
  IsGoalReached \/ Consumes \/ Starts \/ Prepares \/ Follow \/ Sync \/ Track \/ Line

Next ==
  \/ version < Len(Topologies) /\ \E r \in Topologies[version + 1] : TopologyArrives(r)
  \/ Generate
  \/ \E g \in Targets, f \in FixedRoutes : GoalArrives(g, f)
  \/ Plans \/ FindsNoPlan \/ GoalEnds
  \/ Obstacle \/ Moves
  \/ Controller

Spec == Init /\ [][Next]_vars

(* The control thread goes on, the generation and the cooldown end.  The   *)
(* planner works between the cycles, and finds a straight line again and   *)
(* again: one is only missing where the robot or the goal are off the map. *)
(* Nothing is assumed of the search for a way round an obstacle.           *)
PlansALine == planner.goal = base.goal => planner.status \notin {"avoid", "far end"}
Fairness ==
  /\ WF_vars(Controller) /\ WF_vars(Generate)
  /\ SF_vars(PlansALine /\ Plans) /\ SF_vars(Need /\ pc' = "version")
FairSpec == Spec /\ Fairness

-----------------------------------------------------------------------------
TypeOK ==
  /\ LinePlannerOK /\ LineOK
  /\ topo \in Seq(Goals) /\ version \in 0 .. Len(Topologies)
  /\ path.have \in BOOLEAN /\ path.route \in Seq(Goals)
  /\ job.version \in -1 .. version /\ failed \in -1 .. version
  /\ mark \in Marks /\ at \in Int /\ passed \in BOOLEAN /\ forced \in Int

(* The path that is followed is one through the poses of the route that    *)
(* holds, and where it is straight is known, however many topologies came  *)
(* while a job ran: a result is dropped if it is of a topology before.     *)
(* The exception is a topology that comes between two looks: as a job gets *)
(* its poses before its version, and the version is compared before the    *)
(* path is installed, the path of the route before may count as that of    *)
(* the new one, and stays. *)
PathIsOfRoute ==
  path.have =>
    /\ torn \/ path.route = topo
    /\ mode = "hybrid" => fallback = path.straight
    /\ mode = "curve" => path.straight = {}

(* A goal that is passed on the reference path does not end, whatever is   *)
(* published between the two looks at the path: move_base would stop. *)
PassedGoalsGoOn == ~passed

(* A goal that is reported as reached is one in whose place the robot has  *)
(* been since it is the goal, and whose heading it was seen to have.  That *)
(* may be long ago: the same pose sent again is no other goal, and with    *)
(* status 3 it is reported although the robot was moved away.  The         *)
(* exception is the first cycle of a goal: it is judged by the yaw error   *)
(* of the goal before, or by none, and ends a goal in the same place at    *)
(* once. *)
ReachedWasThere ==
  (verdict = "reached" /\ mark # "else") => (been /\ heading # "wrong")

(* The robot does not stand for ever for a path that is computed or for an *)
(* obstacle: if the obstacle is gone for good, and goals do not take over  *)
(* from one another for ever, it is commanded to go on, or it stops for    *)
(* want of a command, or its goal ends.  The first is not claimed: a path  *)
(* that could not be made stops it in every cycle until there is another   *)
(* topology, or move_base gives up.  Two exceptions: a robot that was      *)
(* going round the obstacle waits until the search finds a way; and a      *)
(* fixed route is planned once, so that if that plan is one to wait on it  *)
(* waits when the obstacle is long gone, although dwa_planner_ros.cpp:1850 *)
(* says "wait in place until it clears". *)
Stands == base.state # "idle" /\ verdict = "wait" /\ PlansALine
TakesOver == base.state # "idle" /\ \E g \in Targets, f \in FixedRoutes : GoalArrives(g, f)
StandingEnds ==
  <>[](obstacle = "none" /\ ~base.fixed) /\ <>[][~TakesOver]_vars => []<>~Stands
=============================================================================
