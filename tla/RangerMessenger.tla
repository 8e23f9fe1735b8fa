-------------------------- MODULE RangerMessenger --------------------------
(***************************************************************************)
(* The chassis node (src/ranger_ros/ranger_base/src/ranger_messenger.cpp). *)
(*                                                                         *)
(* One thread runs Run(): it serves the waiting callbacks (ros::spinOnce:  *)
(* /cmd_vel, the stop-and-center action, the parking service), then checks *)
(* the /cmd_vel watchdog, reads the chassis feedback once, checks it for a *)
(* fault, advances the stop-and-center state machine by one state, and     *)
(* sleeps.  pc is the next step of that loop; callbacks are served at      *)
(* "callbacks" only.                                                       *)
(*                                                                         *)
(* Feedback comes from the CAN bus: any of Reports is possible in any pass *)
(* of the loop.  Of a report only four answers matter: is an error code set,  *)
(* is the vehicle still (VehicleIsStill), is the mode dual-Ackermann and   *)
(* not changing, are the wheels centered (MaxSteeringError within the      *)
(* tolerance).  Time is counted in ticks; a pass of the loop takes any     *)
(* number of ticks in Elapsed.                                             *)
(*                                                                         *)
(* A definition marked "mutant" is a faulty variant of the definition that *)
(* follows it; no other definition uses it.  It serves to show that the    *)
(* properties are able to fail.                                            *)
(***************************************************************************)
EXTENDS Integers

CONSTANTS
  RobotType,             \* robot_type_
  CmdVelTimeout,         \* cmd_vel_timeout_, and the other timeouts, in ticks
  StopWaitTimeout,       \* stop_wait_timeout_
  ModeSwitchTimeout,     \* mode_switch_timeout_
  CenteringTimeout,      \* centering_timeout_
  ModeRetry,             \* the 0.1 s between two mode requests
  StopStableFrames,      \* stop_stable_frames_
  CenterStableFrames,    \* center_stable_frames_
  Elapsed,               \* ticks a pass of the loop may take
  TwistsSent,            \* kinds of /cmd_vel messages that arrive
  GoalReasons,           \* reasons of the goals that arrive
  Reports                \* feedback the chassis can give

RobotTypes == {"ranger", "ranger_mini_v1", "ranger_mini_v2"}
(* What TwistCmdCallback tells apart: not finite; all zero; forwards on an arc
   of at least, or less than, the minimum turn radius; sideways without, or
   with, a forward component. *)
Twists == {"invalid", "zero", "arc", "tight", "sideways", "diagonal"}
Reasons == {"TASK_FINISHED", "TASK_CANCELED", "TASK_FAILED", "CMD_TIMEOUT",
            "SOFTWARE_ESTOP", "CHASSIS_FAULT"}
StopCenterStates == {"idle", "stopping", "wait_still", "switch_mode",
                     "wait_mode", "centering", "done"}
Modes == {"dual_ackerman", "parallel", "spinning", "parking", "side_slip"}
Feedback == [fault : BOOLEAN, still : BOOLEAN, dual : BOOLEAN,
             centered : BOOLEAN]

ASSUME RobotAssumption ==
  /\ RobotType \in RobotTypes
  /\ TwistsSent \subseteq Twists
  /\ GoalReasons \subseteq Reasons
  /\ Reports \subseteq Feedback
ASSUME LimitsAssumption ==
  /\ CmdVelTimeout \in Nat
  /\ StopWaitTimeout \in Nat /\ ModeSwitchTimeout \in Nat
  /\ CenteringTimeout \in Nat /\ ModeRetry \in Nat
  /\ StopStableFrames \in Nat \ {0} /\ CenterStableFrames \in Nat \ {0}
  /\ Elapsed \subseteq Nat \ {0}

VARIABLES
  pc,             \* the next step of Run()
  feedback,       \* what GetRobotState and GetActuatorState returned
  twistReceived,  \* cmd_vel_received_
  twistAge,       \* now - last_cmd_vel_time_, up to CmdVelTimeout + 1
  watchdog,       \* watchdog_active_
  state,          \* stop_center_state_
  reason,         \* stop_center_reason_
  stateAge,       \* now - stop_center_state_started_at_, bounded
  modeAge,        \* now - last_mode_request_time_, up to ModeRetry
  stillFrames,    \* still_feedback_count_
  centeredFrames, \* centered_feedback_count_
  report,         \* report_stop_center_action_result_
  server,         \* goal of the action server: is one active, last result
  lastError,      \* last_error_code_ # 0
  locked,         \* fault_motion_lock_
  pending,        \* fault_recenter_pending_
  parking,        \* parking_mode_
  moving,         \* the last SetMotionCommand was not zero
  mode,           \* the last SetMotionMode
  seen            \* history: the feedback since the last request

watchVars == <<twistReceived, twistAge, watchdog>>
stopVars == <<state, reason, stateAge, modeAge, stillFrames, centeredFrames>>
goalVars == <<report, server>>
faultVars == <<lastError, locked, pending>>
chassisVars == <<parking, moving, mode>>
vars == <<pc, feedback, watchVars, stopVars, goalVars, faultVars,
          chassisVars, seen>>

LargestTimeout ==
  CHOOSE t \in {StopWaitTimeout, ModeSwitchTimeout, CenteringTimeout} :
    t >= StopWaitTimeout /\ t >= ModeSwitchTimeout /\ t >= CenteringTimeout

(* seen: consecutive still frames and consecutive centered frames up to now,
   whether StopStableFrames still ones were seen, and whether no frame showed
   a fault, all since the last RequestStopAndCenter. *)
Seen == [still : 0..StopStableFrames, stood : BOOLEAN,
         centered : 0..CenterStableFrames, healthy : BOOLEAN]

FlagsOK ==
  /\ twistReceived \in BOOLEAN
  /\ watchdog \in BOOLEAN
  /\ report \in BOOLEAN
  /\ lastError \in BOOLEAN
  /\ locked \in BOOLEAN
  /\ pending \in BOOLEAN
  /\ parking \in BOOLEAN
  /\ moving \in BOOLEAN

TypeOK ==
  /\ FlagsOK
  /\ pc \in {"callbacks", "fault", "update", "sleep"}
  /\ feedback \in Feedback
  /\ twistAge \in 0..CmdVelTimeout + 1
  /\ state \in StopCenterStates
  /\ reason \in Reasons
  /\ stateAge \in Nat
  /\ modeAge \in Nat
  /\ stillFrames \in 0..StopStableFrames
  /\ centeredFrames \in 0..CenterStableFrames
  /\ server \in {"idle", "active", "succeeded", "aborted", "preempted"}
  /\ mode \in Modes
  /\ seen \in Seen

NothingSeen(healthy) ==
  [still |-> 0, stood |-> FALSE, centered |-> 0, healthy |-> healthy]

Init ==
  /\ pc = "callbacks"
  /\ feedback = [fault |-> FALSE, still |-> TRUE, dual |-> TRUE,
                 centered |-> TRUE]
  /\ twistReceived = FALSE
  /\ twistAge = 0
  /\ watchdog = TRUE
  /\ state = "idle"
  /\ reason = "TASK_FINISHED"
  /\ stateAge = 0
  /\ modeAge = 0
  /\ stillFrames = 0
  /\ centeredFrames = 0
  /\ report = FALSE
  /\ server = "idle"
  /\ lastError = FALSE
  /\ locked = FALSE
  /\ pending = FALSE
  /\ parking = FALSE
  /\ moving = FALSE
  /\ mode = "dual_ackerman"
  /\ seen = NothingSeen(TRUE)

-----------------------------------------------------------------------------
(* Shared operations.                                                      *)

StopCenterActive == state # "idle"

SendZeroMotionCommand == moving' = FALSE

ReportOnly(requested) == requested        \* mutant: a waiting client is lost
ReportDue(requested) == report \/ requested

KeepRunning ==                  \* mutant: a running operation is not restarted
  IF StopCenterActive THEN state ELSE "stopping"
FirstState == "stopping"

(* fault: is an error code set at the time of the request? *)
RequestStopAndCenter(why, reportResult, fault) ==
  /\ reason' = why
  /\ report' = ReportDue(reportResult)
  /\ stillFrames' = 0
  /\ centeredFrames' = 0
  /\ stateAge' = 0
  /\ state' = FirstState
  /\ SendZeroMotionCommand
  /\ seen' = NothingSeen(~fault)
  /\ UNCHANGED modeAge

MayUnlock == reason = "CHASSIS_FAULT" /\ ~lastError

OnlySuccess(success) ==                  \* mutant: a failure is not reported
  IF success THEN "succeeded" ELSE server
ResultOf(success) == IF success THEN "succeeded" ELSE "aborted"

CompleteStopAndCenter(success) ==
  /\ IF success /\ MayUnlock
     THEN locked' = FALSE /\ pending' = FALSE
     ELSE UNCHANGED <<locked, pending>>
  /\ server' = IF report /\ server = "active" THEN ResultOf(success) ELSE server
  /\ report' = FALSE
  /\ state' = "idle"
  /\ stillFrames' = 0
  /\ centeredFrames' = 0
  /\ UNCHANGED <<reason, stateAge>>

StateTimedOut(timeout) == stateAge >= timeout

-----------------------------------------------------------------------------
(* Callbacks, served by ros::spinOnce.                                     *)

(* A velocity that is not finite counts as a lost /cmd_vel. *)
RejectTwist(twist) ==
  /\ twist = "invalid"
  /\ twistReceived' = FALSE
  /\ watchdog' = TRUE
  /\ RequestStopAndCenter("CMD_TIMEOUT", FALSE, lastError)
  /\ UNCHANGED <<twistAge, server, mode>>

NotStopping == ~StopCenterActive               \* mutant: the lock is forgotten
MayDrive == ~StopCenterActive /\ ~locked

(* A velocity that only keeps the watchdog quiet. *)
HoldTwist(twist) ==
  /\ twist # "invalid"
  /\ ~MayDrive \/ twist = "zero"
  /\ SendZeroMotionCommand
  /\ UNCHANGED mode

(* Parked on a Mini V2: neither a mode nor a command is sent. *)
IgnoreTwist(twist) ==
  /\ twist \notin {"invalid", "zero"}
  /\ MayDrive
  /\ parking /\ RobotType = "ranger_mini_v2"
  /\ UNCHANGED <<moving, mode>>

MotionModeFor(twist) ==
  IF twist \in {"sideways", "diagonal"}
  THEN IF twist = "sideways" /\ RobotType = "ranger_mini_v1"
       THEN "side_slip" ELSE "parallel"
  ELSE IF twist = "tight" THEN "spinning" ELSE "dual_ackerman"

DriveTwist(twist) ==
  /\ twist \notin {"invalid", "zero"}
  /\ MayDrive
  /\ ~(parking /\ RobotType = "ranger_mini_v2")
  /\ mode' = MotionModeFor(twist)
  /\ moving' = TRUE

TwistCmdCallback(twist) ==
  /\ pc = "callbacks"
  /\ \/ RejectTwist(twist)
     \/ /\ HoldTwist(twist) \/ IgnoreTwist(twist) \/ DriveTwist(twist)
        /\ twistReceived' = TRUE
        /\ twistAge' = 0
        /\ watchdog' = FALSE
        /\ UNCHANGED <<stopVars, goalVars, seen>>
  /\ UNCHANGED <<pc, feedback, faultVars, parking>>

(* A goal arrives.  If another one is active, the action server first calls
   the preempt callback, which ends it; acceptNewGoal then takes the new one,
   and the state machine starts over. *)
StopCenterGoalCallback(why) ==
  /\ pc = "callbacks"
  /\ server' = "active"
  /\ RequestStopAndCenter(why, TRUE, lastError)
  /\ UNCHANGED <<pc, feedback, watchVars, faultVars, parking, mode>>

(* The client cancels: the goal ends, the stop goes on unreported. *)
StopCenterPreemptCallback ==
  /\ pc = "callbacks"
  /\ server = "active"
  /\ server' = "preempted"
  /\ report' = FALSE
  /\ UNCHANGED <<pc, feedback, watchVars, stopVars, faultVars, chassisVars,
                 seen>>

TriggerParkingService(park) ==
  /\ pc = "callbacks"
  /\ SendZeroMotionCommand
  /\ mode' = IF park THEN "parking" ELSE "dual_ackerman"
  /\ parking' = park
  /\ UNCHANGED <<pc, feedback, watchVars, stopVars, goalVars, faultVars, seen>>

-----------------------------------------------------------------------------
(* The loop.                                                               *)

NeverReceived == ~twistReceived                  \* mutant: the age is not used
TwistTimedOut == ~twistReceived \/ twistAge > CmdVelTimeout

WatchdogQuiet ==
  /\ ~TwistTimedOut
  /\ UNCHANGED <<watchVars, stopVars, goalVars, moving, seen>>

(* While a stop-and-center operation owns the chassis, and while an earlier
   timeout is still in force, a timeout only repeats the zero command. *)
WatchdogHolds ==
  /\ TwistTimedOut
  /\ StopCenterActive \/ watchdog
  /\ SendZeroMotionCommand
  /\ watchdog' = TRUE
  /\ UNCHANGED <<twistReceived, twistAge, stopVars, goalVars, seen>>

WatchdogFires ==
  /\ TwistTimedOut
  /\ ~StopCenterActive /\ ~watchdog
  /\ RequestStopAndCenter("CMD_TIMEOUT", FALSE, lastError)
  /\ watchdog' = TRUE
  /\ UNCHANGED <<twistReceived, twistAge, server>>

(* spinOnce has returned. *)
CheckCmdVelWatchdog ==
  /\ pc = "callbacks"
  /\ WatchdogQuiet \/ WatchdogHolds \/ WatchdogFires
  /\ pc' = "fault"
  /\ UNCHANGED <<feedback, faultVars, parking, mode>>

FaultAppears(fault) ==
  /\ fault /\ ~lastError
  /\ locked' = TRUE
  /\ pending' = TRUE
  /\ RequestStopAndCenter("CHASSIS_FAULT", FALSE, fault)

FaultClearsQuietly(fault) ==             \* mutant: no operation is started
  /\ ~fault /\ lastError /\ pending
  /\ UNCHANGED <<locked, pending, stopVars, report, moving, seen>>
FaultClears(fault) ==
  /\ ~fault /\ lastError /\ pending
  /\ RequestStopAndCenter("CHASSIS_FAULT", FALSE, fault)
  /\ UNCHANGED <<locked, pending>>

FaultUnchanged(fault) ==
  /\ fault = lastError \/ (~fault /\ ~pending)
  /\ UNCHANGED <<locked, pending, stopVars, report, moving>>
  /\ seen' = [seen EXCEPT !.healthy = @ /\ ~fault]

(* The feedback is read once for this pass. *)
CheckChassisFault(fb) ==
  /\ pc = "fault"
  /\ feedback' = fb
  /\ lastError' = fb.fault
  /\ \/ FaultAppears(fb.fault)
     \/ FaultClears(fb.fault)
     \/ FaultUnchanged(fb.fault)
  /\ pc' = "update"
  /\ UNCHANGED <<watchVars, server, parking, mode>>

(* Frames in a row that satisfy a condition, counted up to a limit. *)
InARow(count, holds, limit) ==
  IF ~holds THEN 0 ELSE IF count < limit THEN count + 1 ELSE limit

Stable(frames, limit) == frames >= limit

UpdateIdle ==
  /\ ~StopCenterActive
  /\ UNCHANGED <<stopVars, goalVars, locked, pending, moving, mode>>

UpdateStopping ==
  /\ state = "stopping"
  /\ SendZeroMotionCommand
  /\ stillFrames' = 0
  /\ stateAge' = 0
  /\ state' = "wait_still"
  /\ UNCHANGED <<reason, modeAge, centeredFrames, goalVars, locked, pending,
                 mode>>

UpdateWaitStill ==
  LET frames == IF feedback.still THEN stillFrames + 1 ELSE 0
  IN /\ state = "wait_still"
     /\ SendZeroMotionCommand
     /\ IF ~Stable(frames, StopStableFrames) /\ StateTimedOut(StopWaitTimeout)
        THEN CompleteStopAndCenter(FALSE)
        ELSE /\ stillFrames' = frames
             /\ state' = IF Stable(frames, StopStableFrames)
                         THEN "switch_mode" ELSE state
             /\ UNCHANGED <<reason, stateAge, centeredFrames, goalVars,
                            locked, pending>>
     /\ UNCHANGED <<modeAge, mode>>

UpdateSwitchMode ==
  /\ state = "switch_mode"
  /\ SendZeroMotionCommand
  /\ mode' = "dual_ackerman"
  /\ stateAge' = 0
  /\ modeAge' = 0
  /\ state' = "wait_mode"
  /\ UNCHANGED <<reason, stillFrames, centeredFrames, goalVars, locked,
                 pending>>

UpdateWaitMode ==
  /\ state = "wait_mode"
  /\ SendZeroMotionCommand
  /\ \/ /\ feedback.dual
        /\ centeredFrames' = 0
        /\ stateAge' = 0
        /\ state' = "centering"
        /\ UNCHANGED <<reason, modeAge, stillFrames, goalVars, locked,
                       pending, mode>>
     \/ /\ ~feedback.dual
        /\ IF modeAge >= ModeRetry
           THEN mode' = "dual_ackerman" /\ modeAge' = 0
           ELSE UNCHANGED <<mode, modeAge>>
        /\ IF StateTimedOut(ModeSwitchTimeout)
           THEN CompleteStopAndCenter(FALSE)
           ELSE UNCHANGED <<state, reason, stateAge, stillFrames,
                            centeredFrames, goalVars, locked, pending>>

UpdateCentering ==
  LET frames == IF feedback.centered THEN centeredFrames + 1 ELSE 0
  IN /\ state = "centering"
     /\ SendZeroMotionCommand
     /\ IF ~Stable(frames, CenterStableFrames) /\ StateTimedOut(CenteringTimeout)
        THEN CompleteStopAndCenter(FALSE)
        ELSE /\ centeredFrames' = frames
             /\ state' = IF Stable(frames, CenterStableFrames)
                         THEN "done" ELSE state
             /\ UNCHANGED <<reason, stateAge, stillFrames, goalVars, locked,
                            pending>>
     /\ UNCHANGED <<modeAge, mode>>

UpdateDone ==
  /\ state = "done"
  /\ SendZeroMotionCommand
  /\ CompleteStopAndCenter(TRUE)
  /\ UNCHANGED <<modeAge, mode>>

Observe ==
  LET still == InARow(seen.still, feedback.still, StopStableFrames)
  IN seen' = [seen EXCEPT
       !.still = still,
       !.stood = @ \/ still = StopStableFrames,
       !.centered = InARow(@, feedback.centered, CenterStableFrames)]

UpdateStopAndCenter ==
  /\ pc = "update"
  /\ \/ UpdateIdle \/ UpdateStopping \/ UpdateWaitStill \/ UpdateSwitchMode
     \/ UpdateWaitMode \/ UpdateCentering \/ UpdateDone
  /\ Observe
  /\ pc' = "sleep"
  /\ UNCHANGED <<feedback, watchVars, lastError, parking>>

Later(age, ticks, limit) == IF age + ticks < limit THEN age + ticks ELSE limit

(* The rest of the pass: the state is published and the loop sleeps.  Ages
   stop growing where no comparison can tell them apart any more. *)
Sleep(ticks) ==
  /\ pc = "sleep"
  /\ pc' = "callbacks"
  /\ twistAge' = Later(twistAge, ticks, CmdVelTimeout + 1)
  /\ stateAge' = Later(stateAge, ticks, LargestTimeout)
  /\ modeAge' = Later(modeAge, ticks, ModeRetry)
  /\ UNCHANGED <<feedback, twistReceived, watchdog, state, reason,
                 stillFrames, centeredFrames, goalVars, faultVars,
                 chassisVars, seen>>

Run ==
  \/ CheckCmdVelWatchdog
  \/ \E fb \in Reports : CheckChassisFault(fb)
  \/ UpdateStopAndCenter
  \/ \E ticks \in Elapsed : Sleep(ticks)

Callbacks ==
  \/ \E twist \in TwistsSent : TwistCmdCallback(twist)
  \/ \E why \in GoalReasons : StopCenterGoalCallback(why)
  \/ StopCenterPreemptCallback
  \/ \E park \in BOOLEAN : TriggerParkingService(park)

Next == Run \/ Callbacks

Spec == Init /\ [][Next]_vars

(* spinOnce serves the callbacks that are waiting and returns: the loop is
   always taken further.  Nothing is assumed of callbacks or of feedback. *)
FairSpec == Spec /\ WF_vars(Run)

-----------------------------------------------------------------------------
(* Safety.                                                                 *)

(* While a stop-and-center operation is in progress, and from a chassis fault
   until it is released, the last motion command is zero, whatever arrives on
   /cmd_vel and whichever callback or check started the operation; and so it
   is while a Mini V2 is parked. *)
NoMotionWhileStopping ==
  StopCenterActive \/ locked \/ (parking /\ RobotType = "ranger_mini_v2")
    => ~moving

(* Past the watchdog of a pass of the loop, the chassis is only moving on a
   velocity received within the last CmdVelTimeout ticks, although every
   callback can start or end an operation that owns the chassis. *)
MotionIsFresh ==
  pc # "callbacks" /\ moving => twistReceived /\ twistAge <= CmdVelTimeout

(* A goal of the action server that is active is always served: the state
   machine runs and will report to it.  No preempting goal, cancellation,
   watchdog, rejected velocity or chassis fault leaves it without one, and no
   report is due when nobody waits for it. *)
GoalIsServed == (server = "active" <=> report) /\ (report => StopCenterActive)

(* The client reads success only if, since the last request of anybody, the
   vehicle was seen still in StopStableFrames consecutive frames and then the
   last CenterStableFrames frames showed centered wheels. *)
SuccessMeansCentered ==
  [][server' = "succeeded" /\ server # "succeeded"
       => seen.stood /\ seen.centered = CenterStableFrames]_vars

(* The fault lock is held as long as the chassis reports an error, and is
   only released by an operation that was started after the error had gone,
   during which no error was seen, and which found the vehicle still and its
   wheels centered. *)
FaultLocks == lastError => locked /\ pending
UnlockOnlyCentered ==
  [][locked /\ ~locked'
       => /\ seen.healthy /\ seen.stood
          /\ seen.centered = CenterStableFrames]_vars

-----------------------------------------------------------------------------
(* Liveness.                                                               *)

(* A request that throws a running operation back to its first state. *)
Restart == state \notin {"idle", "stopping"} /\ state' = "stopping"

(* If operations are not restarted for ever, every goal gets its result: each
   state has a timeout, whatever the chassis reports. *)
GoalsEnd ==
  <>[][~Restart]_vars => []<>(server # "active")

(* On a chassis that always comes to a stop and centers its wheels at once,
   when the fault is gone for good and operations are not restarted for ever,
   the fault lock is released for good.  An operation for another reason that
   takes the place of the one of the fault ends without unlocking: the lock
   then stays until the next fault has come and gone. *)
StopsAndCenters == feedback.still /\ feedback.dual /\ feedback.centered
LockIsReleased ==
  /\ []StopsAndCenters
  /\ <>[]~lastError
  /\ <>[](locked => reason = "CHASSIS_FAULT")
  /\ <>[][~Restart]_vars
  => <>[]~locked

=============================================================================
