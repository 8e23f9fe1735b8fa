------------------------------ MODULE TopoNav -------------------------------
(***************************************************************************)
(* The missions of run_nav.cpp.  A mission drives a route pose by pose: it *)
(* sends one move_base goal, watches it in a loop (sendGoalAndMonitor) and *)
(* then goes on, plans again or ends.                                      *)
(*                                                                         *)
(* Three threads touch the state.  The main thread serves plan_path_and_go *)
(* and runs the mission "service" inside the call.  The Joy spinner thread *)
(* serves the buttons A (pause), X (resume) and Y (start) and the service  *)
(* cancel_navigation; joyPc is its place between the atomic stores of one  *)
(* of these callbacks.  Y creates a third thread, which runs the mission   *)
(* "joy" through all poses.                                                *)
(*                                                                         *)
(* Where the robot is, is not modelled: what depends on it (which pose is  *)
(* nearest, which remaining pose is ahead, is the goal near, has the robot *)
(* been still for blocked_timeout, has goal_timeout passed) may be         *)
(* answered in any way.  stop_and_quit is left out: nothing calls          *)
(* exitgoals, which alone sets it.                                         *)
(***************************************************************************)
EXTENDS TopoGraph, SequencesExt

CONSTANTS
  Graph,              \* the edges loaded from the map
  Runners,            \* missions that exist: "service", and "joy" or not
  Buttons,            \* "A", "X", "Y", "cancel": what the operator uses
  FixedRoutes,        \* whether requests ask for a fixed route (run >= 2)
  Outcomes,           \* how move_base may end a goal: "succeeded", "aborted"
  ValidateDistance,   \* validate_pass_through_action_success_distance_
  MaxRequests         \* bound: plan_path_and_go calls

ASSUME NavAssumption ==
  /\ Graph \subseteq TopoEdges
  /\ Runners \subseteq {"service", "joy"}
  /\ Buttons \subseteq {"A", "X", "Y", "cancel"}
  /\ FixedRoutes \subseteq BOOLEAN
  /\ Outcomes \subseteq {"succeeded", "aborted"}
  /\ ValidateDistance \in BOOLEAN
  /\ MaxRequests \in Nat

VARIABLES
  cancel_requested, pause_robot, pause_reentry_requested,  \* the atomics
  finished,       \* current_status = 3
  joyPc,          \* place in the callback the Joy thread runs, "" if none
  joyThread,      \* runth_: "none", "created", or "aborted": std::terminate
  mission,        \* of every runner: see Mission
  requests,       \* plan_path_and_go calls so far
  temporary,      \* edges blocked for now
  goal,           \* the goal of the action client, shared by the missions
  waypoints,      \* the topology path published last
  tracked,        \* the pose the local planner drives to
  sent, report    \* its status: under way, and as run_nav last heard it

nav == <<cancel_requested, pause_robot, pause_reentry_requested, finished>>
joy == <<joyPc, joyThread>>
planner == <<tracked, sent>>
vars == <<nav, joy, mission, requests, temporary, goal, waypoints, planner, report>>

(* The places of a mission: before sendGoal; at the top of the monitoring  *)
(* loop; in waitForResult; in the pause loop, and behind it; waiting after *)
(* a failed goal; in waitForTemporaryPath, called for the first route or   *)
(* for a new one; after the mission; in finish_motion.                     *)
Places == {"idle", "send", "top", "wait", "paused", "resumed", "failing",
           "planwait", "replanwait", "finish", "centering"}
(* ok is the result of runTopologyMission, outcome the last task status.   *)
Mission == [pc : Places, path : Seq(Pose), pos : Nat, target : Pose,
            fixed : BOOLEAN, replans : Nat, ok : BOOLEAN,
            outcome : {"", "running", "arrived", "canceled", "failed"}]
Codes == {"ACTIVE", "PASSED", "DEVIATED"}
(* index: the position in waypoints the report names; node: the pose it is *)
(* about; fresh: its stamp is not before goal_start_time.                  *)
Report == [code : Codes, index : Nat, node : Pose, fresh : BOOLEAN]
NoReport == [code |-> "none", index |-> 0, node |-> NoPose, fresh |-> FALSE]

TypeOK ==
  /\ cancel_requested \in BOOLEAN /\ pause_robot \in BOOLEAN
  /\ pause_reentry_requested \in BOOLEAN /\ finished \in BOOLEAN
  /\ joyPc \in {"", "paused", "reentry", "canceled", "unpaused", "cleared"}
  /\ joyThread \in {"none", "created", "aborted"}
  /\ mission \in [Runners -> Mission]
  /\ \A r \in Runners : mission[r].pos \in 0 .. Len(mission[r].path)
  /\ requests \in 0 .. MaxRequests
  /\ temporary \subseteq Graph
  /\ goal \in [node : Pose \cup {NoPose},
               state : {"none", "active", "succeeded", "aborted", "preempted"}]
  /\ waypoints \in Seq(Pose) /\ tracked \in Pose \cup {NoPose}
  /\ {sent, report} \subseteq Report \cup {NoReport}

Idle == [pc |-> "idle", path |-> <<>>, pos |-> 0, target |-> 0, fixed |-> FALSE,
         replans |-> 0, ok |-> FALSE, outcome |-> ""]
Init ==
  /\ cancel_requested = FALSE /\ pause_robot = FALSE
  /\ pause_reentry_requested = FALSE /\ finished = FALSE
  /\ joyPc = "" /\ joyThread = "none"
  /\ mission = [r \in Runners |-> Idle] /\ requests = 0
  /\ temporary = {}
  /\ goal = [node |-> NoPose, state |-> "none"]
  /\ waypoints = <<>> /\ tracked = NoPose /\ sent = NoReport /\ report = NoReport

Alive == joyThread # "aborted"
At(r, place) == Alive /\ mission[r].pc = place
Running(r) == mission[r].pc # "idle"
Max2(a, b) == IF a >= b THEN a ELSE b
MaxReplans == Max2(3, 2 * Poses)
-----------------------------------------------------------------------------
(* Planning: dijkstraShortestPath returns some cheapest route, by the      *)
(* property RouteIsShortest of DijkstraPlanner.                            *)
AllRoutes == [ends \in Pose \X Pose |-> Routes(Graph, ends[1], ends[2])]
Plans(blocked, start, target, fixed) ==
  LET open == OpenEdges(Graph, blocked, fixed)
      passable == {p \in AllRoutes[<<start, target>>] :
                     \A i \in 2 .. Len(p) : Between(open, p[i - 1], p[i]) # {}}
  IN  {p \in passable : \A q \in passable : RouteCost(open, p) <= RouteCost(open, q)}

(* blockEdge and markEdgeSuccess with block_bidirectional; EdgeCooldown    *)
(* has the times.                                                          *)
EdgesOf(from, to) == Between(Graph, from, to) \cup Between(Graph, to, from)
BlockEdge(from, to) == temporary \cup {e \in EdgesOf(from, to) : ~e.configured}
MarkEdgeSuccess(from, to) == temporary \ EdgesOf(from, to)

BlockExpires ==
  /\ Alive
  /\ \E e \in temporary : temporary' = temporary \ EdgesOf(e.from, e.to)
  /\ UNCHANGED <<nav, joy, mission, requests, goal, waypoints, planner, report>>
-----------------------------------------------------------------------------
(* The action client.  cancelAllGoals and cancelGoal end the goal, whoever *)
(* sent it; the goal is over at once, the local planner hears of it later. *)
CancelGoal ==
  goal' = [goal EXCEPT !.state = IF @ = "active" THEN "preempted" ELSE @]
GoalDone == goal.state \in {"succeeded", "aborted", "preempted"}

ServerEnds ==
  /\ Alive /\ goal.state = "active"
  /\ \E outcome \in Outcomes : goal' = [goal EXCEPT !.state = outcome]
  /\ UNCHANGED <<nav, joy, mission, requests, temporary, waypoints, planner, report>>

(* The local planner gets a plan for the goal, or stops without one.       *)
SetPlan ==
  /\ Alive
  /\ tracked' = IF goal.state = "active" THEN goal.node ELSE NoPose
  /\ tracked' # tracked
  /\ UNCHANGED <<nav, joy, mission, requests, temporary, goal, waypoints, sent, report>>

(* Only a goal in the middle of the path has a status: not the first two   *)
(* waypoints and not the last.  Its index is looked up in the waypoints in *)
(* every control cycle.                                                    *)
MiddleOf(path) == 3 .. Len(path) - 1
PublishStatus ==
  /\ Alive
  /\ \E code \in Codes, i \in MiddleOf(waypoints) :
       /\ waypoints[i] = tracked
       /\ sent' = [code |-> code, index |-> i, node |-> tracked, fresh |-> TRUE]
       /\ sent' # sent
  /\ UNCHANGED <<nav, joy, mission, requests, temporary, goal, waypoints, tracked, report>>

ReferenceStatusCallback ==
  /\ Alive
  /\ sent # NoReport
  /\ report' = sent /\ sent' = NoReport
  /\ UNCHANGED <<nav, joy, mission, requests, temporary, goal, waypoints, tracked>>

(* mutant: the stamp of the report is not compared *)
MatchesAnyTime(r, codes) ==
  report.index = mission[r].pos /\ report.code \in codes
ReferenceStatusMatches(r, codes) ==
  /\ report.fresh
  /\ report.index = mission[r].pos
  /\ report.code \in codes
-----------------------------------------------------------------------------
(* The Joy thread: buttons and cancel_navigation.                          *)
Press(button) == Alive /\ button \in Buttons /\ joyPc = ""
JoyRest == UNCHANGED <<joyThread, finished, mission, requests, temporary,
                       waypoints, planner, report>>

(* pause(): three stores, then cancelAllGoals. *)
PauseRobot ==
  /\ Press("A") /\ joyPc' = "paused" /\ pause_robot' = TRUE
  /\ UNCHANGED <<cancel_requested, pause_reentry_requested, goal>> /\ JoyRest
PauseReentry ==
  /\ Alive /\ joyPc = "paused" /\ joyPc' = "reentry"
  /\ pause_reentry_requested' = TRUE
  /\ UNCHANGED <<cancel_requested, pause_robot, goal>> /\ JoyRest
PauseCancels ==
  /\ Alive /\ joyPc = "reentry" /\ joyPc' = "" /\ CancelGoal
  /\ UNCHANGED <<cancel_requested, pause_robot, pause_reentry_requested>>
  /\ JoyRest

Resume ==
  /\ Press("X") /\ pause_robot' = FALSE
  /\ UNCHANGED <<joyPc, cancel_requested, pause_reentry_requested, goal>>
  /\ JoyRest

(* Y: resumes, and starts the mission through all poses unless its thread  *)
(* exists and no mission has arrived yet.  A thread object that is         *)
(* replaced was never joined: its destructor ends the process.             *)
StartOrResume ==
  /\ Press("Y") /\ "joy" \in Runners /\ pause_robot' = FALSE
  /\ IF joyThread # "none" /\ ~finished
     THEN UNCHANGED <<joyThread, mission>>
     ELSE IF joyThread = "created"
     THEN joyThread' = "aborted" /\ UNCHANGED mission
     ELSE /\ joyThread' = "created"
          /\ mission' = [mission EXCEPT !["joy"] =
               [Idle EXCEPT !.pc = "send", !.path = [i \in 1 .. Poses |-> i - 1],
                            !.pos = 1, !.target = Poses - 1]]
  /\ UNCHANGED <<joyPc, cancel_requested, pause_reentry_requested, finished,
                 requests, temporary, goal, waypoints, planner, report>>

(* cancelNavigationCallback *)
CancelNavigation ==
  /\ Press("cancel") /\ joyPc' = "canceled" /\ cancel_requested' = TRUE
  /\ UNCHANGED <<pause_robot, pause_reentry_requested, goal>> /\ JoyRest
CancelUnpauses ==
  /\ Alive /\ joyPc = "canceled" /\ joyPc' = "unpaused" /\ pause_robot' = FALSE
  /\ UNCHANGED <<cancel_requested, pause_reentry_requested, goal>> /\ JoyRest
CancelClearsReentry ==
  /\ Alive /\ joyPc = "unpaused" /\ joyPc' = "cleared"
  /\ pause_reentry_requested' = FALSE
  /\ UNCHANGED <<cancel_requested, pause_robot, goal>> /\ JoyRest
CancelEndsGoal ==
  /\ Alive /\ joyPc = "cleared" /\ joyPc' = "" /\ CancelGoal
  /\ UNCHANGED <<cancel_requested, pause_robot, pause_reentry_requested>>
  /\ JoyRest

JoyStep == PauseReentry \/ PauseCancels \/ CancelUnpauses
           \/ CancelClearsReentry \/ CancelEndsGoal
JoyThread == PauseRobot \/ Resume \/ StartOrResume \/ CancelNavigation \/ JoyStep
-----------------------------------------------------------------------------
(* planPathCallback up to the start of the mission.                        *)
Drive(r, m, path, pos) ==
  /\ mission' = [mission EXCEPT ![r] =
                   [m EXCEPT !.pc = "send", !.path = path, !.pos = pos]]
  /\ waypoints' = path
Become(r, m) == mission' = [mission EXCEPT ![r] = m] /\ UNCHANGED waypoints

Request(start, target, fixed) ==
  /\ "service" \in Runners /\ At("service", "idle")
  /\ requests < MaxRequests
  /\ requests' = requests + 1
  /\ cancel_requested' = FALSE
  /\ LET m == [Idle EXCEPT !.target = target, !.fixed = fixed, !.outcome = "running"]
     IN  IF cancel_requested
         THEN Become("service", [m EXCEPT !.outcome = "canceled"])
         ELSE \/ \E p \in Plans(temporary, start, target, fixed) :
                   Drive("service", m, p, 1)
              \/ /\ Plans(temporary, start, target, fixed) = {}
                 /\ Become("service",
                           IF fixed THEN [m EXCEPT !.outcome = "failed"]
                           ELSE [m EXCEPT !.pc = "planwait", !.path = <<start>>])
  /\ UNCHANGED <<pause_robot, pause_reentry_requested, finished, joy, temporary,
                 goal, planner, report>>

(* The loop ends with "Exceeded topology replan limit" before the new      *)
(* route is driven.                                                        *)
Failed(m) == [m EXCEPT !.pc = "finish", !.ok = FALSE]
(* mutant: a re-entry or replan is not counted *)
Uncounted(m) == m
Again(m) == [m EXCEPT !.replans = @ + 1]
GoOn(r, m, path, pos) ==
  IF m.replans > MaxReplans
  THEN /\ mission' = [mission EXCEPT ![r] = Failed([m EXCEPT !.path = path, !.pos = pos])]
       /\ waypoints' = path
  ELSE Drive(r, m, path, pos)

(* waitForTemporaryPath: a way is found; or there is none, and no block    *)
(* can expire any more or the time is over.  While it waits, path holds    *)
(* the pose it starts from, and pos is 0.                                  *)
WaitEnds(r) ==
  /\ Alive /\ mission[r].pc \in {"planwait", "replanwait"}
  /\ LET m == mission[r]
         found == Plans(temporary, m.path[1], m.target, FALSE)
     IN  \/ \E p \in found : GoOn(r, m, p, 1)
         \/ /\ found = {}
            /\ Become(r, IF m.pc = "replanwait" THEN Failed(m)
                         ELSE [Idle EXCEPT !.outcome = "failed"])
  /\ UNCHANGED <<nav, joy, requests, temporary, goal, planner, report>>

(* mutant: the new route is planned before the edge is blocked *)
ReplanTooEarly(r, m, blocked) ==
  \E start \in Pose :
    \/ \E p \in Plans(temporary, start, m.target, FALSE) : GoOn(r, m, p, 1)
    \/ /\ Plans(temporary, start, m.target, FALSE) = {}
       /\ Become(r, [m EXCEPT !.pc = "replanwait", !.path = <<start>>, !.pos = 0])
(* From the pose that is nearest now, with one more replan. *)
Replan(r, m, blocked) ==
  \E start \in Pose :
    \/ \E p \in Plans(blocked, start, m.target, FALSE) : GoOn(r, m, p, 1)
    \/ /\ Plans(blocked, start, m.target, FALSE) = {}
       /\ Become(r, [m EXCEPT !.pc = "replanwait", !.path = <<start>>, !.pos = 0])

(* buildForwardReentryPath: the rest of the route from a pose ahead, with  *)
(* the pose before it for direction only; or none is ahead and reachable.  *)
ReentryPositions(m, passed) ==
  (IF passed /\ m.pos < Len(m.path) THEN m.pos + 1 ELSE m.pos) .. Len(m.path)
Reenter(r, m, passed) ==
  \/ \E p \in ReentryPositions(m, passed) :
       IF p > 1 THEN GoOn(r, m, SubSeq(m.path, p - 1, Len(m.path)), 2)
                ELSE GoOn(r, m, m.path, 1)
  \/ Replan(r, m, temporary)

(* The pose is reached: the next one, or the end of the mission. *)
Advance(r) ==
  LET m == mission[r]
  IN  IF m.path[m.pos] = m.target
      THEN finished' = TRUE /\ Become(r, [m EXCEPT !.pc = "finish", !.ok = TRUE])
      ELSE UNCHANGED finished /\ Become(r, [m EXCEPT !.pc = "send", !.pos = @ + 1])

(* mutant: a fixed route is entered again at a pose ahead, as others are *)
ReturnFixedReenters(r, result) ==
  /\ UNCHANGED temporary
  /\ IF result \in {"REACHED", "PAUSED_AFTER_PASS"} THEN Advance(r)
     ELSE /\ UNCHANGED finished
          /\ IF result = "PAUSED" THEN Reenter(r, mission[r], FALSE)
             ELSE Become(r, Failed(mission[r]))
(* What runFixedTopologyMission and runTopologyMission make of the result  *)
(* of sendGoalAndMonitor.                                                  *)
ReturnFixed(r, result) ==
  /\ UNCHANGED temporary
  /\ IF result \in {"REACHED", "PAUSED_AFTER_PASS"} THEN Advance(r)
     ELSE /\ UNCHANGED finished
          /\ Become(r, IF result = "PAUSED" THEN [mission[r] EXCEPT !.pc = "send"]
                       ELSE Failed(mission[r]))

ReturnReplanning(r, result) ==
  LET m == mission[r]
      again == Again(m)
  IN  \/ /\ result = "REACHED"
         /\ temporary' = IF m.pos > 1
                         THEN MarkEdgeSuccess(m.path[m.pos - 1], m.path[m.pos])
                         ELSE temporary
         /\ Advance(r)
      \/ /\ result = "CANCELED" /\ Become(r, Failed(m))
         /\ UNCHANGED <<temporary, finished>>
      \/ /\ result \in {"PAUSED", "PAUSED_AFTER_PASS", "PATH_DEVIATED"}
         /\ Reenter(r, again, result = "PAUSED_AFTER_PASS")
         /\ UNCHANGED <<temporary, finished>>
      \/ /\ result = "FAILED"
         /\ LET blocked == IF m.pos > 1
                           THEN BlockEdge(m.path[m.pos - 1], m.path[m.pos])
                           ELSE temporary
            IN  temporary' = blocked /\ Replan(r, again, blocked)
         /\ UNCHANGED finished

Return(r, result) ==
  /\ IF mission[r].fixed THEN ReturnFixed(r, result) ELSE ReturnReplanning(r, result)
  /\ UNCHANGED <<cancel_requested, pause_robot>>
  /\ UNCHANGED <<joy, requests, planner, report>>
-----------------------------------------------------------------------------
(* sendGoalAndMonitor *)
Final(r) == mission[r].path[mission[r].pos] = mission[r].target
Move(r, place) ==
  /\ mission' = [mission EXCEPT ![r].pc = place]
  /\ UNCHANGED <<joy, cancel_requested, pause_robot, finished, requests,
                 temporary, waypoints, tracked>>
Stay == UNCHANGED <<goal, pause_reentry_requested, sent, report>>

(* resetReferenceStatus, and the stamp of the goal: what was published     *)
(* before it is too old.                                                   *)
NewGoal(r) ==
  goal' = [node |-> mission[r].path[mission[r].pos], state |-> "active"]
SendGoal(r) ==
  /\ At(r, "send") /\ NewGoal(r)
  /\ report' = NoReport
  /\ sent' = IF sent = NoReport THEN sent ELSE [sent EXCEPT !.fresh = FALSE]
  /\ UNCHANGED pause_reentry_requested
  /\ Move(r, "top")

Canceled(r) == CancelGoal /\ UNCHANGED pause_reentry_requested /\ Return(r, "CANCELED")
Deviated(r) == CancelGoal /\ UNCHANGED pause_reentry_requested /\ Return(r, "PATH_DEVIATED")

(* The top of the loop, lines 1753-1811. *)
Check(r) ==
  /\ At(r, "top")
  /\ IF cancel_requested THEN Canceled(r)
     ELSE IF pause_reentry_requested
     THEN /\ CancelGoal /\ Move(r, "paused")
          /\ UNCHANGED <<pause_reentry_requested, sent, report>>
     ELSE IF ReferenceStatusMatches(r, {"DEVIATED"}) THEN Deviated(r)
     ELSE Move(r, "wait") /\ Stay

(* mutant: the pause loop does not look at the cancellation *)
PausedUncancelable(r) ==
  /\ At(r, "paused")
  /\ ~pause_robot /\ Move(r, "resumed") /\ Stay
(* The pause loop, and what follows it: in between, the Joy thread may     *)
(* have started the next pause.                                            *)
Paused(r) ==
  /\ At(r, "paused")
  /\ IF pause_robot THEN cancel_requested /\ Canceled(r)
                    ELSE Move(r, "resumed") /\ Stay
Resumed(r) ==
  /\ At(r, "resumed")
  /\ pause_reentry_requested' = FALSE
  /\ Return(r, IF ReferenceStatusMatches(r, {"PASSED"}) THEN "PAUSED_AFTER_PASS"
                                                        ELSE "PAUSED")
  /\ UNCHANGED goal

(* mutant: an action that was cancelled counts as failed *)
ResultTellsNothing(r) == FALSE
(* waitForResult returned true and a flag or a deviation explains why. *)
ResultExplained(r) ==
  cancel_requested \/ pause_reentry_requested \/ ReferenceStatusMatches(r, {"DEVIATED"})
ExplainResult(r) ==
  /\ At(r, "wait") /\ GoalDone /\ ResultExplained(r)
  /\ IF cancel_requested THEN Canceled(r)
     ELSE IF pause_reentry_requested THEN Move(r, "top") /\ Stay
     ELSE Deviated(r)

Succeeded(r) ==
  /\ At(r, "wait") /\ GoalDone /\ ~ResultExplained(r) /\ goal.state = "succeeded"
  /\ UNCHANGED pause_reentry_requested
  /\ \/ Return(r, "REACHED") /\ UNCHANGED goal
     \/ /\ ~Final(r) /\ ValidateDistance      \* too far away: the goal again
        /\ NewGoal(r) /\ Move(r, "top") /\ UNCHANGED <<sent, report>>
NotSucceeded(r) ==
  /\ At(r, "wait") /\ GoalDone /\ ~ResultExplained(r) /\ goal.state # "succeeded"
  /\ Move(r, "failing") /\ Stay

(* After a failed goal, until blocked_timeout has passed without progress. *)
FailingEnds(r) ==
  /\ At(r, "failing") /\ Return(r, "FAILED")
  /\ UNCHANGED <<goal, pause_reentry_requested>>

(* waitForResult returned false, lines 1883-1988. *)
PassedByReport(r) ==
  /\ At(r, "wait") /\ ~GoalDone
  /\ ~Final(r) /\ ReferenceStatusMatches(r, {"PASSED"})
  /\ Return(r, "REACHED") /\ UNCHANGED <<goal, pause_reentry_requested>>
Near(r) ==
  /\ At(r, "wait") /\ ~GoalDone
  /\ Final(r) => mission[r].fixed
  /\ IF ~Final(r) /\ ReferenceStatusMatches(r, {"ACTIVE", "PASSED"})
     THEN UNCHANGED goal ELSE CancelGoal
  /\ Return(r, "REACHED") /\ UNCHANGED pause_reentry_requested
GiveUp(r) ==
  /\ At(r, "wait") /\ ~GoalDone
  /\ ~mission[r].fixed
  /\ Final(r) \/ ~ReferenceStatusMatches(r, {"PASSED"})
  /\ CancelGoal /\ UNCHANGED pause_reentry_requested
  /\ Return(r, "FAILED")
KeepWaiting(r) ==
  /\ At(r, "wait") /\ ~GoalDone
  /\ Final(r) \/ ~ReferenceStatusMatches(r, {"PASSED"})
  /\ Move(r, "top") /\ Stay

Monitor(r) == Check(r) \/ Paused(r) \/ Resumed(r) \/ ExplainResult(r)
              \/ Succeeded(r) \/ NotSucceeded(r) \/ FailingEnds(r)
              \/ PassedByReport(r) \/ Near(r) \/ GiveUp(r) \/ KeepWaiting(r)

(* The end of planPathCallback takes the cancellation; that of             *)
(* run_planed_pathnode does not.                                           *)
Finish(r) ==
  /\ At(r, "finish")
  /\ mission' = [mission EXCEPT ![r].pc = "centering",
       ![r].outcome = IF mission[r].ok THEN "arrived"
                      ELSE IF r = "service" /\ cancel_requested THEN "canceled"
                      ELSE "failed"]
  /\ cancel_requested' = (cancel_requested /\ r # "service")
  /\ UNCHANGED <<pause_robot, pause_reentry_requested, finished, joy, requests,
                 temporary, goal, waypoints, planner, report>>

(* finish_motion returns: the robot is centered, or is not. *)
Centered(r) ==
  /\ At(r, "centering")
  /\ mission' = [mission EXCEPT ![r] = [Idle EXCEPT !.outcome = mission[r].outcome]]
  /\ UNCHANGED <<nav, joy, requests, temporary, goal, waypoints, planner, report>>

MissionStep(r) == SendGoal(r) \/ Monitor(r) \/ WaitEnds(r) \/ Finish(r) \/ Centered(r)

Next ==
  \/ \E start, target \in Pose, fixed \in FixedRoutes : Request(start, target, fixed)
  \/ \E r \in Runners : MissionStep(r)
  \/ JoyThread
  \/ BlockExpires \/ ServerEnds \/ SetPlan \/ PublishStatus \/ ReferenceStatusCallback

(* The threads run; every wait of a mission is bounded by a timeout, and a *)
(* goal that stays undecided for ever meets blocked_timeout or             *)
(* goal_timeout.                                                           *)
Fairness ==
  /\ WF_vars(JoyStep)
  /\ \A r \in Runners : WF_vars(MissionStep(r)) /\ SF_vars(GiveUp(r))
Spec == Init /\ [][Next]_vars
FairSpec == Spec /\ Fairness
-----------------------------------------------------------------------------
(* The replanning service mission, while it drives a route. *)
Driving == {"send", "top", "wait", "paused", "resumed", "failing"}

(* The rest of a replanned route never leads through an edge the mission   *)
(* has blocked or the map forbids: no re-entry or fallback brings back an  *)
(* edge a goal has just failed on.  (A fixed route ignores the temporary   *)
(* blocks, and the joy mission plans nothing.)                             *)
RestOfRouteIsOpen ==
  Runners = {"service"} =>
    LET m == mission["service"]
    IN  m.pc \in Driving =>
          \A i \in Max2(m.pos, 2) .. Len(m.path) :
            Between(OpenEdges(Graph, temporary, m.fixed), m.path[i - 1], m.path[i]) # {}

(* Whatever the order of goals, new routes and late status messages, a     *)
(* report that run_nav takes for its goal is about the pose of that goal:  *)
(* no pose is skipped on a report about another.                           *)
ReportIsAboutGoal ==
  Runners = {"service"} =>
    LET m == mission["service"]
    IN  m.pc \in {"top", "wait", "paused", "resumed"}
          /\ ReferenceStatusMatches("service", Codes) =>
        report.node = m.path[m.pos]

(* A fixed route is driven in its order and is never replanned.            *)
FixedRouteIsKept ==
  [][\A r \in Runners :
       mission[r].fixed /\ mission[r].pc \in Driving /\ mission'[r].pc \in Driving =>
         /\ mission'[r].path = mission[r].path
         /\ mission'[r].pos \in {mission[r].pos, mission[r].pos + 1}]_vars

(* "pause() cancels the action from the independent Joy callback queue.    *)
(* Handle that cancellation as a resumable topology re-entry instead of a  *)
(* failed/blocked edge" (1821-1823): an action that was cancelled, and did *)
(* not fail, never blocks an edge.                                         *)
CanceledGoalBlocksNothing ==
  [][goal.state = "preempted" => temporary' \subseteq temporary]_vars

(* A cancellation during a mission ends it, also while it is paused, waits *)
(* after a failure or waits for a block to expire, and whatever is pressed *)
(* after it; unless the process ends.                                      *)
CancelEndsMission ==
  \A r \in Runners : (cancel_requested /\ Running(r)) ~> (~Running(r) \/ ~Alive)

(* A mission that replans comes to an end once the operator leaves it      *)
(* alone, whatever pauses and cancellations went before: re-entries,       *)
(* replans and failures together are bounded.                              *)
LeftAlone == ~pause_robot /\ joyPc = ""
MissionEnds ==
  \A r \in Runners :
    <>[]LeftAlone => (Running(r) /\ ~mission[r].fixed ~> ~Running(r) \/ ~Alive)
=============================================================================
