----------------------- MODULE RangerMessengerProofs -----------------------
(***************************************************************************)
(* Proofs of the safety of the chassis node, for every robot type, every   *)
(* timeout and frame count and every feedback.                             *)
(***************************************************************************)
EXTENDS RangerMessenger, TLAPS

(* What the state of the stop-and-center machine says of the feedback seen
   since the last request: the counters of the code never exceed the number
   of frames in a row that were really seen, a state past wait_still has seen
   the vehicle stand, and an operation that runs without an error has not
   seen one. *)
Evidence ==
  /\ state = "wait_still" =>
       stillFrames < StopStableFrames /\ stillFrames <= seen.still
  /\ state \in {"switch_mode", "wait_mode", "centering", "done"} => seen.stood
  /\ state = "centering" =>
       centeredFrames < CenterStableFrames /\ centeredFrames <= seen.centered
  /\ state = "done" => seen.centered = CenterStableFrames
  /\ StopCenterActive /\ ~lastError => seen.healthy

Inv ==
  /\ TypeOK
  /\ NoMotionWhileStopping
  /\ MotionIsFresh
  /\ GoalIsServed
  /\ FaultLocks
  /\ Evidence

-----------------------------------------------------------------------------

LEMMA LargestTimeoutInNat == LargestTimeout \in Nat
<1>. DEFINE S == {StopWaitTimeout, ModeSwitchTimeout, CenteringTimeout}
            IsMax(t) == t >= StopWaitTimeout /\ t >= ModeSwitchTimeout
                          /\ t >= CenteringTimeout
<1>1. \E t \in S : IsMax(t)
  BY LimitsAssumption
<1>2. LargestTimeout \in S
  BY <1>1 DEF LargestTimeout
<1>. QED
  BY <1>2, LimitsAssumption

LEMMA LaterInRange ==
  ASSUME NEW age \in Nat, NEW ticks \in Nat, NEW limit \in Nat
  PROVE  Later(age, ticks, limit) \in 0..limit
BY DEF Later

LEMMA InARowInRange ==
  ASSUME NEW limit \in Nat \ {0}, NEW count \in 0..limit, NEW holds \in BOOLEAN
  PROVE  /\ InARow(count, holds, limit) \in 0..limit
         /\ holds /\ count < limit => InARow(count, holds, limit) = count + 1
         /\ holds /\ count >= limit => InARow(count, holds, limit) = limit
BY DEF InARow

LEMMA InitInv == Init => Inv
<1>. SUFFICES ASSUME Init PROVE Inv
  OBVIOUS
<1>1. seen \in Seen
  BY LimitsAssumption DEF Init, NothingSeen, Seen
<1>2. feedback \in Feedback
  BY DEF Init, Feedback
<1>3. FlagsOK
  BY DEF Init, FlagsOK
<1>4. TypeOK
  <2>1. /\ 0 \in Nat /\ 0 \in 0..CmdVelTimeout + 1
        /\ 0 \in 0..StopStableFrames /\ 0 \in 0..CenterStableFrames
    BY LimitsAssumption
  <2>. QED
    BY <1>1, <1>2, <1>3, <2>1, Zenon
      DEF Init, TypeOK, StopCenterStates, Reasons, Modes
<1>5. NoMotionWhileStopping /\ MotionIsFresh /\ GoalIsServed /\ FaultLocks
  BY DEF Init, NoMotionWhileStopping, MotionIsFresh, GoalIsServed, FaultLocks,
         StopCenterActive
<1>6. Evidence
  BY DEF Init, Evidence, StopCenterActive
<1>. QED
  BY <1>4, <1>5, <1>6 DEF Inv

(* A request leaves the state machine in a state that satisfies Inv. *)
LEMMA RequestFacts ==
  ASSUME NEW why \in Reasons, NEW due \in BOOLEAN, NEW fault \in BOOLEAN,
         report \in BOOLEAN, RequestStopAndCenter(why, due, fault)
  PROVE  /\ reason' = why /\ report' = (report \/ due)
         /\ stillFrames' = 0 /\ centeredFrames' = 0 /\ stateAge' = 0
         /\ modeAge' = modeAge
         /\ state' = "stopping" /\ moving' = FALSE
         /\ seen' \in Seen /\ seen'.healthy = ~fault
BY LimitsAssumption
   DEF RequestStopAndCenter, ReportDue, FirstState, SendZeroMotionCommand,
       NothingSeen, Seen

-----------------------------------------------------------------------------
(* Callbacks.                                                              *)

LEMMA TwistStep ==
  ASSUME Inv, NEW twist \in TwistsSent, TwistCmdCallback(twist)
  PROVE  Inv'
<1>. USE DEF Inv
<1>1. CASE RejectTwist(twist)
  <2>1. "CMD_TIMEOUT" \in Reasons /\ lastError \in BOOLEAN /\ report \in BOOLEAN
    BY DEF Reasons, TypeOK, FlagsOK
  <2>2. RequestStopAndCenter("CMD_TIMEOUT", FALSE, lastError)
    BY <1>1 DEF RejectTwist
  <2>3. /\ reason' = "CMD_TIMEOUT" /\ report' = report
        /\ stillFrames' = 0 /\ centeredFrames' = 0 /\ stateAge' = 0
        /\ modeAge' = modeAge /\ state' = "stopping" /\ moving' = FALSE
        /\ seen' \in Seen /\ seen'.healthy = ~lastError
    BY <2>1, <2>2, RequestFacts, Zenon
  <2>4. /\ pc = "callbacks" /\ pc' = pc /\ feedback' = feedback
        /\ twistReceived' = FALSE /\ twistAge' = twistAge /\ watchdog' = TRUE
        /\ server' = server /\ mode' = mode /\ parking' = parking
        /\ lastError' = lastError /\ locked' = locked /\ pending' = pending
    BY <1>1 DEF RejectTwist, TwistCmdCallback, faultVars
  <2>5. FlagsOK'
    BY <2>3, <2>4 DEF TypeOK, FlagsOK
  <2>6. TypeOK'
    BY <2>1, <2>3, <2>4, <2>5, LimitsAssumption DEF TypeOK, StopCenterStates
  <2>7. NoMotionWhileStopping' /\ MotionIsFresh' /\ FaultLocks'
    BY <2>3, <2>4 DEF NoMotionWhileStopping, MotionIsFresh, FaultLocks
  <2>8. GoalIsServed' /\ Evidence'
    BY <2>3, <2>4 DEF GoalIsServed, Evidence, StopCenterActive
  <2>. QED
    BY <2>6, <2>7, <2>8
<1>2. CASE ~RejectTwist(twist)
  <2>1. /\ pc = "callbacks" /\ pc' = pc /\ feedback' = feedback
        /\ twistReceived' = TRUE /\ twistAge' = 0 /\ watchdog' = FALSE
        /\ UNCHANGED <<stopVars, goalVars, seen, faultVars, parking>>
        /\ HoldTwist(twist) \/ IgnoreTwist(twist) \/ DriveTwist(twist)
    BY <1>2 DEF TwistCmdCallback
  <2>2. MotionModeFor(twist) \in Modes
    BY DEF MotionModeFor, Modes
  <2>3. mode' \in Modes
    BY <2>1, <2>2 DEF HoldTwist, IgnoreTwist, DriveTwist, TypeOK
  <2>4. FlagsOK'
    BY <2>1 DEF HoldTwist, IgnoreTwist, DriveTwist, SendZeroMotionCommand,
                TypeOK, FlagsOK, goalVars, faultVars
  <2>5. TypeOK'
    BY <2>1, <2>3, <2>4, LimitsAssumption DEF TypeOK, stopVars, goalVars
  <2>6. NoMotionWhileStopping'
    BY <2>1 DEF HoldTwist, IgnoreTwist, DriveTwist, SendZeroMotionCommand,
                NoMotionWhileStopping, MayDrive, StopCenterActive, stopVars,
                faultVars
  <2>7. MotionIsFresh' /\ GoalIsServed' /\ FaultLocks' /\ Evidence'
    BY <2>1 DEF MotionIsFresh, GoalIsServed, FaultLocks, Evidence,
                StopCenterActive, stopVars, goalVars, faultVars
  <2>. QED
    BY <2>5, <2>6, <2>7
<1>. QED
  BY <1>1, <1>2

LEMMA GoalStep ==
  ASSUME Inv, NEW why \in GoalReasons, StopCenterGoalCallback(why)
  PROVE  Inv'
<1>. USE DEF Inv
<1>1. why \in Reasons /\ lastError \in BOOLEAN /\ report \in BOOLEAN
  BY RobotAssumption DEF TypeOK, FlagsOK
<1>2. RequestStopAndCenter(why, TRUE, lastError)
  BY DEF StopCenterGoalCallback
<1>3. /\ reason' = why /\ report' = TRUE
      /\ stillFrames' = 0 /\ centeredFrames' = 0 /\ stateAge' = 0
      /\ modeAge' = modeAge /\ state' = "stopping" /\ moving' = FALSE
      /\ seen' \in Seen /\ seen'.healthy = ~lastError
  BY <1>1, <1>2, RequestFacts, Zenon
<1>4. /\ pc = "callbacks" /\ pc' = pc /\ feedback' = feedback
      /\ UNCHANGED <<watchVars, faultVars, parking, mode>>
      /\ server' = "active"
  BY DEF StopCenterGoalCallback
<1>5. FlagsOK'
  BY <1>3, <1>4 DEF TypeOK, FlagsOK, faultVars, watchVars
<1>6. TypeOK'
  BY <1>1, <1>3, <1>4, <1>5, LimitsAssumption
    DEF TypeOK, StopCenterStates, watchVars
<1>7. NoMotionWhileStopping' /\ MotionIsFresh' /\ FaultLocks'
  BY <1>3, <1>4 DEF NoMotionWhileStopping, MotionIsFresh, FaultLocks, faultVars
<1>8. GoalIsServed' /\ Evidence'
  BY <1>3, <1>4 DEF GoalIsServed, Evidence, StopCenterActive, faultVars
<1>. QED
  BY <1>6, <1>7, <1>8

LEMMA PreemptStep ==
  ASSUME Inv, StopCenterPreemptCallback
  PROVE  Inv'
<1>. USE DEF Inv, StopCenterPreemptCallback, watchVars, stopVars, faultVars,
             chassisVars
<1>1. FlagsOK'
  BY DEF TypeOK, FlagsOK
<1>2. TypeOK'
  BY <1>1 DEF TypeOK
<1>3. NoMotionWhileStopping' /\ MotionIsFresh' /\ GoalIsServed'
  BY DEF NoMotionWhileStopping, MotionIsFresh, GoalIsServed, StopCenterActive
<1>4. FaultLocks' /\ Evidence'
  BY DEF FaultLocks, Evidence, StopCenterActive
<1>. QED
  BY <1>2, <1>3, <1>4

LEMMA ParkingStep ==
  ASSUME Inv, NEW park \in BOOLEAN, TriggerParkingService(park)
  PROVE  Inv'
<1>. USE DEF Inv, TriggerParkingService, SendZeroMotionCommand, watchVars,
             stopVars, goalVars, faultVars
<1>1. FlagsOK'
  BY DEF TypeOK, FlagsOK
<1>2. TypeOK'
  BY <1>1 DEF TypeOK, Modes
<1>3. NoMotionWhileStopping' /\ MotionIsFresh' /\ GoalIsServed'
  BY DEF NoMotionWhileStopping, MotionIsFresh, GoalIsServed, StopCenterActive
<1>4. FaultLocks' /\ Evidence'
  BY DEF FaultLocks, Evidence, StopCenterActive
<1>. QED
  BY <1>2, <1>3, <1>4

-----------------------------------------------------------------------------
(* The loop.                                                               *)

LEMMA WatchdogStep ==
  ASSUME Inv, CheckCmdVelWatchdog
  PROVE  Inv'
<1>. USE DEF Inv
<1>1. /\ pc = "callbacks" /\ pc' = "fault" /\ feedback' = feedback
      /\ UNCHANGED <<faultVars, parking, mode>>
  BY DEF CheckCmdVelWatchdog
<1>2. CASE WatchdogQuiet
  <2>. USE <1>1, <1>2 DEF WatchdogQuiet, watchVars, stopVars, goalVars, faultVars
  <2>1. FlagsOK'
    BY DEF TypeOK, FlagsOK
  <2>2. TypeOK'
    BY <2>1 DEF TypeOK
  <2>3. MotionIsFresh'
    <3>1. twistReceived
      BY DEF TwistTimedOut
    <3>2. twistAge <= CmdVelTimeout
      BY LimitsAssumption DEF TwistTimedOut, TypeOK
    <3>. QED
      BY <3>1, <3>2 DEF MotionIsFresh
  <2>4. NoMotionWhileStopping' /\ GoalIsServed' /\ FaultLocks' /\ Evidence'
    BY DEF NoMotionWhileStopping, GoalIsServed, FaultLocks, Evidence,
           StopCenterActive
  <2>. QED
    BY <2>2, <2>3, <2>4
<1>3. CASE WatchdogHolds
  <2>. USE <1>1, <1>3 DEF WatchdogHolds, SendZeroMotionCommand, stopVars,
                          goalVars, faultVars
  <2>1. FlagsOK'
    BY DEF TypeOK, FlagsOK
  <2>2. TypeOK'
    BY <2>1 DEF TypeOK
  <2>3. MotionIsFresh' /\ NoMotionWhileStopping'
    BY DEF MotionIsFresh, NoMotionWhileStopping
  <2>4. GoalIsServed' /\ FaultLocks' /\ Evidence'
    BY DEF GoalIsServed, FaultLocks, Evidence, StopCenterActive
  <2>. QED
    BY <2>2, <2>3, <2>4
<1>4. CASE WatchdogFires
  <2>1. "CMD_TIMEOUT" \in Reasons /\ lastError \in BOOLEAN /\ report \in BOOLEAN
    BY DEF Reasons, TypeOK, FlagsOK
  <2>2. RequestStopAndCenter("CMD_TIMEOUT", FALSE, lastError)
    BY <1>4 DEF WatchdogFires
  <2>3. /\ reason' = "CMD_TIMEOUT" /\ report' = report
        /\ stillFrames' = 0 /\ centeredFrames' = 0 /\ stateAge' = 0
        /\ modeAge' = modeAge /\ state' = "stopping" /\ moving' = FALSE
        /\ seen' \in Seen /\ seen'.healthy = ~lastError
    BY <2>1, <2>2, RequestFacts, Zenon
  <2>4. /\ twistReceived' = twistReceived /\ twistAge' = twistAge
        /\ watchdog' = TRUE /\ server' = server
    BY <1>4 DEF WatchdogFires
  <2>5. FlagsOK'
    BY <1>1, <2>3, <2>4 DEF TypeOK, FlagsOK, faultVars
  <2>6. TypeOK'
    BY <1>1, <2>1, <2>3, <2>4, <2>5, LimitsAssumption
      DEF TypeOK, StopCenterStates
  <2>7. NoMotionWhileStopping' /\ MotionIsFresh' /\ FaultLocks'
    BY <1>1, <2>3, <2>4
      DEF NoMotionWhileStopping, MotionIsFresh, FaultLocks, faultVars
  <2>8. GoalIsServed' /\ Evidence'
    BY <1>1, <2>3, <2>4 DEF GoalIsServed, Evidence, StopCenterActive, faultVars
  <2>. QED
    BY <2>6, <2>7, <2>8
<1>. QED
  BY <1>2, <1>3, <1>4 DEF CheckCmdVelWatchdog

LEMMA FaultStep ==
  ASSUME Inv, NEW fb \in Reports, CheckChassisFault(fb)
  PROVE  Inv'
<1>. USE DEF Inv
<1>1. /\ fb \in Feedback /\ fb.fault \in BOOLEAN /\ lastError \in BOOLEAN
      /\ report \in BOOLEAN /\ "CHASSIS_FAULT" \in Reasons
  BY RobotAssumption DEF Feedback, Reasons, TypeOK, FlagsOK
<1>2. /\ pc = "fault" /\ pc' = "update" /\ feedback' = fb
      /\ lastError' = fb.fault
      /\ UNCHANGED <<watchVars, server, parking, mode>>
  BY DEF CheckChassisFault
<1>3. CASE FaultAppears(fb.fault) \/ FaultClears(fb.fault)
  <2>1. RequestStopAndCenter("CHASSIS_FAULT", FALSE, fb.fault)
    BY <1>3 DEF FaultAppears, FaultClears
  <2>2. /\ reason' = "CHASSIS_FAULT" /\ report' = report
        /\ stillFrames' = 0 /\ centeredFrames' = 0 /\ stateAge' = 0
        /\ modeAge' = modeAge /\ state' = "stopping" /\ moving' = FALSE
        /\ seen' \in Seen /\ seen'.healthy = ~fb.fault
    BY <1>1, <2>1, RequestFacts, Zenon
  <2>3. locked' \in BOOLEAN /\ pending' \in BOOLEAN
    BY <1>3 DEF FaultAppears, FaultClears, TypeOK, FlagsOK
  <2>4. fb.fault => locked' /\ pending'
    BY <1>3 DEF FaultAppears, FaultClears
  <2>5. FlagsOK'
    BY <1>1, <1>2, <2>2, <2>3 DEF TypeOK, FlagsOK, watchVars
  <2>6. TypeOK'
    BY <1>1, <1>2, <2>2, <2>5, LimitsAssumption
      DEF TypeOK, StopCenterStates, watchVars
  <2>7. NoMotionWhileStopping' /\ MotionIsFresh' /\ FaultLocks'
    BY <1>2, <2>2, <2>4 DEF NoMotionWhileStopping, MotionIsFresh, FaultLocks
  <2>8. GoalIsServed' /\ Evidence'
    BY <1>2, <2>2 DEF GoalIsServed, Evidence, StopCenterActive
  <2>. QED
    BY <2>6, <2>7, <2>8
<1>4. CASE FaultUnchanged(fb.fault)
  <2>1. /\ UNCHANGED <<locked, pending, stopVars, report, moving>>
        /\ seen' = [seen EXCEPT !.healthy = @ /\ ~fb.fault]
    BY <1>4 DEF FaultUnchanged
  <2>2. fb.fault = lastError
    BY <1>1, <1>4 DEF FaultUnchanged, FaultLocks
  <2>3. /\ seen' \in Seen /\ seen'.still = seen.still
        /\ seen'.stood = seen.stood /\ seen'.centered = seen.centered
        /\ seen'.healthy = (seen.healthy /\ ~fb.fault)
    BY <1>1, <2>1 DEF TypeOK, Seen
  <2>4. FlagsOK'
    BY <1>1, <1>2, <2>1 DEF TypeOK, FlagsOK, watchVars
  <2>5. TypeOK'
    BY <1>1, <1>2, <2>1, <2>3, <2>4 DEF TypeOK, stopVars, watchVars
  <2>6. NoMotionWhileStopping' /\ MotionIsFresh' /\ GoalIsServed' /\ FaultLocks'
    BY <1>2, <2>1, <2>2
      DEF NoMotionWhileStopping, MotionIsFresh, GoalIsServed, FaultLocks,
          StopCenterActive, stopVars, watchVars
  <2>7. Evidence'
    BY <1>2, <2>1, <2>2, <2>3 DEF Evidence, StopCenterActive, stopVars
  <2>. QED
    BY <2>5, <2>6, <2>7
<1>. QED
  BY <1>3, <1>4 DEF CheckChassisFault

(* What the history variable records of a frame. *)
LEMMA ObserveFacts ==
  ASSUME TypeOK, Observe
  PROVE  /\ seen' \in Seen
         /\ seen'.still = InARow(seen.still, feedback.still, StopStableFrames)
         /\ seen'.stood = (seen.stood \/ seen'.still = StopStableFrames)
         /\ seen'.centered
              = InARow(seen.centered, feedback.centered, CenterStableFrames)
         /\ seen'.healthy = seen.healthy
<1>. DEFINE still == InARow(seen.still, feedback.still, StopStableFrames)
            centered ==
              InARow(seen.centered, feedback.centered, CenterStableFrames)
<1>1. /\ still \in 0..StopStableFrames
      /\ centered \in 0..CenterStableFrames
  BY InARowInRange, LimitsAssumption DEF TypeOK, Seen, Feedback
<1>2. seen' = [seen EXCEPT !.still = still,
                           !.stood = seen.stood \/ still = StopStableFrames,
                           !.centered = centered]
  BY DEF Observe
<1>. HIDE DEF still, centered
<1>3. /\ seen' \in Seen /\ seen'.still = still
      /\ seen'.stood = (seen.stood \/ still = StopStableFrames)
      /\ seen'.centered = centered /\ seen'.healthy = seen.healthy
  BY <1>1, <1>2 DEF TypeOK, Seen
<1>. QED
  BY <1>3 DEF still, centered

(* How an operation ends: nobody is left waiting for a report, and the fault
   lock can only be released without an error. *)
LEMMA CompleteFacts ==
  ASSUME Inv, NEW success \in BOOLEAN, CompleteStopAndCenter(success)
  PROVE  /\ state' = "idle" /\ report' = FALSE
         /\ stillFrames' = 0 /\ centeredFrames' = 0
         /\ reason' = reason /\ stateAge' = stateAge
         /\ server' \in {"idle", "succeeded", "aborted", "preempted"}
         /\ locked' \in BOOLEAN /\ pending' \in BOOLEAN
         /\ lastError => locked' = locked /\ pending' = pending
         /\ ~locked' => ~locked \/ (success /\ ~lastError)
         /\ server' = "succeeded" => server = "succeeded" \/ success
<1>. USE DEF CompleteStopAndCenter, MayUnlock, ResultOf
<1>1. /\ state' = "idle" /\ report' = FALSE
      /\ stillFrames' = 0 /\ centeredFrames' = 0
      /\ reason' = reason /\ stateAge' = stateAge
  OBVIOUS
<1>2. server' \in {"idle", "succeeded", "aborted", "preempted"}
  BY DEF Inv, GoalIsServed, TypeOK, FlagsOK
<1>3. /\ locked' \in BOOLEAN /\ pending' \in BOOLEAN
      /\ lastError => locked' = locked /\ pending' = pending
      /\ ~locked' => ~locked \/ (success /\ ~lastError)
  BY DEF Inv, TypeOK, FlagsOK
<1>4. server' = "succeeded" => server = "succeeded" \/ success
  OBVIOUS
<1>. QED
  BY <1>1, <1>2, <1>3, <1>4

(* What every update has in common. *)
UpdateFrame ==
  /\ pc = "update" /\ pc' = "sleep"
  /\ Observe
  /\ UNCHANGED <<feedback, watchVars, lastError, parking>>

(* An operation that ends satisfies Inv, whatever its state was. *)
LEMMA CompleteStep ==
  ASSUME Inv, UpdateFrame, NEW success \in BOOLEAN,
         CompleteStopAndCenter(success), moving' = FALSE,
         mode' \in Modes, modeAge' \in Nat
  PROVE  Inv'
<1>. USE DEF Inv, UpdateFrame
<1>1. seen' \in Seen /\ seen'.healthy = seen.healthy
  BY ObserveFacts
<1>2. FlagsOK'
  BY CompleteFacts DEF TypeOK, FlagsOK, watchVars
<1>3. TypeOK'
  <2>1. server' \in {"idle", "active", "succeeded", "aborted", "preempted"}
    BY CompleteFacts
  <2>2. /\ state' = "idle" /\ stillFrames' = 0 /\ centeredFrames' = 0
        /\ reason' = reason /\ stateAge' = stateAge
    BY CompleteFacts
  <2>3. /\ reason \in Reasons /\ stateAge \in Nat
        /\ 0 \in 0..StopStableFrames /\ 0 \in 0..CenterStableFrames
    BY LimitsAssumption DEF TypeOK
  <2>. QED
    BY <1>1, <1>2, <2>1, <2>2, <2>3 DEF TypeOK, StopCenterStates, watchVars
<1>4. FaultLocks'
  BY CompleteFacts DEF FaultLocks
<1>5. NoMotionWhileStopping' /\ MotionIsFresh'
  BY DEF NoMotionWhileStopping, MotionIsFresh
<1>6. GoalIsServed' /\ Evidence'
  BY CompleteFacts DEF GoalIsServed, Evidence, StopCenterActive
<1>. QED
  BY <1>3, <1>4, <1>5, <1>6

(* A change of state inside an operation. *)
LEMMA InsideStep ==
  ASSUME Inv, UpdateFrame, StopCenterActive, state' # "idle",
         state' \in StopCenterStates, moving' = FALSE, mode' \in Modes,
         UNCHANGED <<reason, goalVars, locked, pending>>,
         stateAge' \in Nat, modeAge' \in Nat,
         stillFrames' \in 0..StopStableFrames,
         centeredFrames' \in 0..CenterStableFrames,
         Evidence'
  PROVE  Inv'
<1>. USE DEF Inv, UpdateFrame
<1>1. seen' \in Seen
  BY ObserveFacts
<1>2. FlagsOK'
  BY DEF TypeOK, FlagsOK, watchVars, goalVars
<1>3. TypeOK'
  BY <1>1, <1>2 DEF TypeOK, watchVars, goalVars
<1>4. NoMotionWhileStopping' /\ MotionIsFresh' /\ GoalIsServed' /\ FaultLocks'
  BY DEF NoMotionWhileStopping, MotionIsFresh, GoalIsServed, FaultLocks,
         StopCenterActive, goalVars
<1>. QED
  BY <1>3, <1>4

LEMMA UpdateIdleStep ==
  ASSUME Inv, UpdateFrame, UpdateIdle
  PROVE  Inv'
<1>. USE DEF Inv, UpdateFrame, UpdateIdle
<1>1. seen' \in Seen
  BY ObserveFacts
<1>2. FlagsOK'
  BY DEF TypeOK, FlagsOK, watchVars, goalVars
<1>3. TypeOK'
  BY <1>1, <1>2 DEF TypeOK, watchVars, stopVars, goalVars
<1>4. /\ NoMotionWhileStopping' /\ MotionIsFresh' /\ GoalIsServed' /\ FaultLocks'
      /\ Evidence'
  BY DEF NoMotionWhileStopping, MotionIsFresh, GoalIsServed, FaultLocks,
         Evidence, StopCenterActive, watchVars, stopVars, goalVars
<1>. QED
  BY <1>3, <1>4

LEMMA UpdateStoppingStep ==
  ASSUME Inv, UpdateFrame, UpdateStopping
  PROVE  Inv'
<1>. USE DEF UpdateStopping, SendZeroMotionCommand
<1>1. /\ seen' \in Seen /\ seen'.healthy = seen.healthy
  BY ObserveFacts DEF Inv, UpdateFrame
<1>2. 0 < StopStableFrames /\ 0 <= seen'.still
  BY <1>1, LimitsAssumption DEF Seen
<1>3. Evidence'
  BY <1>1, <1>2 DEF Inv, Evidence, StopCenterActive, UpdateFrame
<1>4. /\ state' \in StopCenterStates /\ StopCenterActive /\ mode' \in Modes
      /\ stateAge' \in Nat /\ modeAge' \in Nat
      /\ stillFrames' \in 0..StopStableFrames
      /\ centeredFrames' \in 0..CenterStableFrames
  BY LimitsAssumption DEF Inv, TypeOK, StopCenterStates, StopCenterActive
<1>. QED
  BY <1>3, <1>4, InsideStep

LEMMA UpdateWaitStillStep ==
  ASSUME Inv, UpdateFrame, UpdateWaitStill
  PROVE  Inv'
<1>. DEFINE frames == IF feedback.still THEN stillFrames + 1 ELSE 0
<1>. USE DEF SendZeroMotionCommand, Stable
<1>1. /\ state = "wait_still" /\ moving' = FALSE
      /\ modeAge' = modeAge /\ mode' = mode
  BY DEF UpdateWaitStill
<1>2. mode' \in Modes /\ modeAge' \in Nat
  BY <1>1 DEF Inv, TypeOK
<1>3. CASE CompleteStopAndCenter(FALSE)
  BY <1>1, <1>2, <1>3, CompleteStep
<1>4. CASE ~CompleteStopAndCenter(FALSE)
  <2>1. /\ stillFrames' = frames
        /\ state' = IF frames >= StopStableFrames THEN "switch_mode" ELSE state
        /\ UNCHANGED <<reason, stateAge, centeredFrames, goalVars, locked,
                       pending>>
    BY <1>4 DEF UpdateWaitStill
  <2>2. /\ stillFrames \in Nat /\ stillFrames < StopStableFrames
        /\ stillFrames <= seen.still /\ seen.still \in 0..StopStableFrames
        /\ feedback.still \in BOOLEAN
    BY <1>1, LimitsAssumption DEF Inv, TypeOK, Seen, Feedback, Evidence
  <2>3. frames \in 0..StopStableFrames
    BY <2>2, LimitsAssumption
  <2>4. /\ seen' \in Seen /\ seen'.healthy = seen.healthy
        /\ seen'.still = InARow(seen.still, feedback.still, StopStableFrames)
        /\ seen'.stood = (seen.stood \/ seen'.still = StopStableFrames)
    BY ObserveFacts DEF Inv, UpdateFrame
  <2>5. frames <= seen'.still
    BY <2>2, <2>4, LimitsAssumption DEF InARow
  <2>6. frames >= StopStableFrames => seen'.still = StopStableFrames
    BY <2>3, <2>4, <2>5, LimitsAssumption DEF Seen
  <2>7. frames >= StopStableFrames => seen'.stood
    BY <2>4, <2>6
  <2>8. ~(frames >= StopStableFrames) => frames < StopStableFrames
    BY <2>3, LimitsAssumption
  <2>. HIDE DEF frames
  <2>9. state' \in {"switch_mode", "wait_still"}
    BY <1>1, <2>1
  <2>10. Evidence'
    <3>1. state' = "wait_still" =>
            stillFrames' < StopStableFrames /\ stillFrames' <= seen'.still
      BY <2>1, <2>5, <2>8
    <3>2. state' = "switch_mode" => seen'.stood
      BY <1>1, <2>1, <2>7
    <3>3. ~lastError' => seen'.healthy
      BY <1>1, <2>4 DEF Inv, Evidence, StopCenterActive, UpdateFrame
    <3>. QED
      BY <2>9, <3>1, <3>2, <3>3 DEF Evidence
  <2>11. /\ state' \in StopCenterStates /\ state' # "idle" /\ StopCenterActive
         /\ stateAge' \in Nat /\ stillFrames' \in 0..StopStableFrames
         /\ centeredFrames' \in 0..CenterStableFrames
    BY <1>1, <2>1, <2>3, <2>9 DEF Inv, TypeOK, StopCenterStates, StopCenterActive
  <2>. QED
    BY <1>1, <1>2, <2>1, <2>10, <2>11, InsideStep
<1>. QED
  BY <1>3, <1>4

LEMMA UpdateSwitchModeStep ==
  ASSUME Inv, UpdateFrame, UpdateSwitchMode
  PROVE  Inv'
<1>. USE DEF UpdateSwitchMode, SendZeroMotionCommand
<1>1. seen'.healthy = seen.healthy /\ (seen.stood => seen'.stood)
  BY ObserveFacts DEF Inv, UpdateFrame
<1>2. Evidence'
  BY <1>1 DEF Inv, Evidence, StopCenterActive, UpdateFrame
<1>3. /\ state' \in StopCenterStates /\ StopCenterActive /\ mode' \in Modes
      /\ stateAge' \in Nat /\ modeAge' \in Nat
      /\ stillFrames' \in 0..StopStableFrames
      /\ centeredFrames' \in 0..CenterStableFrames
  BY LimitsAssumption
    DEF Inv, TypeOK, StopCenterStates, StopCenterActive, Modes
<1>. QED
  BY <1>2, <1>3, InsideStep

LEMMA UpdateWaitModeStep ==
  ASSUME Inv, UpdateFrame, UpdateWaitMode
  PROVE  Inv'
<1>1. state = "wait_mode" /\ StopCenterActive /\ moving' = FALSE
  BY DEF UpdateWaitMode, SendZeroMotionCommand, StopCenterActive
<1>2. mode' \in Modes
  BY DEF UpdateWaitMode, Inv, TypeOK, Modes
<1>3. modeAge' \in Nat
  <2>1. modeAge' = modeAge \/ modeAge' = 0
    BY DEF UpdateWaitMode
  <2>. QED
    BY <2>1 DEF Inv, TypeOK
<1>4. /\ seen.stood /\ (~lastError => seen.healthy)
      /\ lastError' = lastError
  BY <1>1 DEF Inv, Evidence, UpdateFrame
<1>5. /\ seen' \in Seen /\ seen'.stood /\ seen'.healthy = seen.healthy
  BY <1>4, ObserveFacts DEF Inv, UpdateFrame
<1>6. 0 < CenterStableFrames /\ 0 <= seen'.centered
  BY <1>5, LimitsAssumption DEF Seen
<1>7. CASE CompleteStopAndCenter(FALSE)
  BY <1>1, <1>2, <1>3, <1>7, CompleteStep
<1>8. CASE ~CompleteStopAndCenter(FALSE)
  <2>1. /\ UNCHANGED <<reason, goalVars, locked, pending, stillFrames>>
        /\ \/ state' = "centering" /\ centeredFrames' = 0 /\ stateAge' = 0
           \/ state' = state /\ UNCHANGED <<centeredFrames, stateAge>>
    BY <1>8 DEF UpdateWaitMode
  <2>2. /\ state' \in StopCenterStates /\ state' # "idle"
        /\ stateAge' \in Nat /\ stillFrames' \in 0..StopStableFrames
        /\ centeredFrames' \in 0..CenterStableFrames
    BY <1>1, <2>1, LimitsAssumption DEF Inv, TypeOK, StopCenterStates
  <2>3. Evidence'
    BY <1>1, <1>4, <1>5, <1>6, <2>1 DEF Evidence
  <2>. QED
    BY <1>1, <1>2, <1>3, <2>1, <2>2, <2>3, InsideStep
<1>. QED
  BY <1>7, <1>8

LEMMA UpdateCenteringStep ==
  ASSUME Inv, UpdateFrame, UpdateCentering
  PROVE  Inv'
<1>. DEFINE frames == IF feedback.centered THEN centeredFrames + 1 ELSE 0
<1>. USE DEF SendZeroMotionCommand, Stable
<1>1. /\ state = "centering" /\ moving' = FALSE
      /\ modeAge' = modeAge /\ mode' = mode
  BY DEF UpdateCentering
<1>2. mode' \in Modes /\ modeAge' \in Nat
  BY <1>1 DEF Inv, TypeOK
<1>3. CASE CompleteStopAndCenter(FALSE)
  BY <1>1, <1>2, <1>3, CompleteStep
<1>4. CASE ~CompleteStopAndCenter(FALSE)
  <2>1. /\ centeredFrames' = frames
        /\ state' = IF frames >= CenterStableFrames THEN "done" ELSE state
        /\ UNCHANGED <<reason, stateAge, stillFrames, goalVars, locked,
                       pending>>
    BY <1>4 DEF UpdateCentering
  <2>2. /\ centeredFrames \in Nat /\ centeredFrames < CenterStableFrames
        /\ centeredFrames <= seen.centered
        /\ seen.centered \in 0..CenterStableFrames
        /\ feedback.centered \in BOOLEAN
    BY <1>1, LimitsAssumption DEF Inv, TypeOK, Seen, Feedback, Evidence
  <2>3. frames \in 0..CenterStableFrames
    BY <2>2, LimitsAssumption
  <2>4. seen.stood /\ (~lastError => seen.healthy)
    BY <1>1 DEF Inv, Evidence, StopCenterActive
  <2>5. /\ seen' \in Seen /\ seen'.stood /\ seen'.healthy = seen.healthy
        /\ seen'.centered
             = InARow(seen.centered, feedback.centered, CenterStableFrames)
    BY <2>4, ObserveFacts DEF Inv, UpdateFrame
  <2>6. frames <= seen'.centered
    BY <2>2, <2>5, LimitsAssumption DEF InARow
  <2>7. frames >= CenterStableFrames => seen'.centered = CenterStableFrames
    BY <2>3, <2>5, <2>6, LimitsAssumption DEF Seen
  <2>8. ~(frames >= CenterStableFrames) => frames < CenterStableFrames
    BY <2>3, LimitsAssumption
  <2>. HIDE DEF frames
  <2>9. state' \in {"centering", "done"}
    BY <1>1, <2>1
  <2>10. Evidence'
    <3>1. state' = "centering" => /\ centeredFrames' < CenterStableFrames
                                  /\ centeredFrames' <= seen'.centered
      BY <2>1, <2>6, <2>8
    <3>2. state' = "done" => seen'.centered = CenterStableFrames
      BY <1>1, <2>1, <2>7
    <3>3. ~lastError' => seen'.healthy
      BY <2>4, <2>5 DEF UpdateFrame
    <3>. QED
      BY <2>5, <2>9, <3>1, <3>2, <3>3 DEF Evidence
  <2>11. /\ state' \in StopCenterStates /\ state' # "idle" /\ StopCenterActive
         /\ stateAge' \in Nat /\ stillFrames' \in 0..StopStableFrames
         /\ centeredFrames' \in 0..CenterStableFrames
    BY <1>1, <2>1, <2>3, <2>9 DEF Inv, TypeOK, StopCenterStates, StopCenterActive
  <2>. QED
    BY <1>1, <1>2, <2>1, <2>10, <2>11, InsideStep
<1>. QED
  BY <1>3, <1>4

LEMMA UpdateDoneStep ==
  ASSUME Inv, UpdateFrame, UpdateDone
  PROVE  Inv'
<1>1. /\ CompleteStopAndCenter(TRUE) /\ moving' = FALSE
      /\ mode' \in Modes /\ modeAge' \in Nat
  BY DEF UpdateDone, SendZeroMotionCommand, Inv, TypeOK
<1>. QED
  BY <1>1, CompleteStep

LEMMA SleepStep ==
  ASSUME Inv, NEW ticks \in Elapsed, Sleep(ticks)
  PROVE  Inv'
<1>. USE DEF Inv, Sleep
<1>1. /\ Later(twistAge, ticks, CmdVelTimeout + 1) \in 0..CmdVelTimeout + 1
      /\ Later(stateAge, ticks, LargestTimeout) \in Nat
      /\ Later(modeAge, ticks, ModeRetry) \in Nat
  BY LargestTimeoutInNat, LaterInRange, LimitsAssumption DEF TypeOK
<1>2. FlagsOK'
  BY DEF TypeOK, FlagsOK, goalVars, faultVars, chassisVars
<1>3. TypeOK'
  BY <1>1, <1>2 DEF TypeOK, goalVars, chassisVars
<1>4. NoMotionWhileStopping' /\ MotionIsFresh' /\ GoalIsServed' /\ FaultLocks'
  BY DEF NoMotionWhileStopping, MotionIsFresh, GoalIsServed, FaultLocks,
         StopCenterActive, goalVars, faultVars, chassisVars
<1>5. Evidence'
  BY DEF Evidence, StopCenterActive, faultVars
<1>. QED
  BY <1>3, <1>4, <1>5

LEMMA NextStep == Inv /\ [Next]_vars => Inv'
<1>. SUFFICES ASSUME Inv, [Next]_vars PROVE Inv'
  OBVIOUS
<1>1. CASE UpdateStopAndCenter
  <2>1. UpdateFrame
    BY <1>1 DEF UpdateStopAndCenter, UpdateFrame
  <2>. QED
    BY <1>1, <2>1, UpdateIdleStep, UpdateStoppingStep, UpdateWaitStillStep,
       UpdateSwitchModeStep, UpdateWaitModeStep, UpdateCenteringStep,
       UpdateDoneStep DEF UpdateStopAndCenter
<1>2. CASE Callbacks
  BY <1>2, TwistStep, GoalStep, PreemptStep, ParkingStep DEF Callbacks
<1>3. CASE Run
  BY <1>1, <1>3, WatchdogStep, FaultStep, SleepStep DEF Run
<1>4. CASE UNCHANGED vars
  <2>. USE <1>4 DEF Inv, vars, watchVars, stopVars, goalVars, faultVars,
                    chassisVars
  <2>1. FlagsOK'
    BY DEF TypeOK, FlagsOK
  <2>2. TypeOK'
    BY <2>1 DEF TypeOK
  <2>3. /\ NoMotionWhileStopping' /\ MotionIsFresh' /\ GoalIsServed'
        /\ FaultLocks' /\ Evidence'
    BY DEF NoMotionWhileStopping, MotionIsFresh, GoalIsServed, FaultLocks,
           Evidence, StopCenterActive
  <2>. QED
    BY <2>2, <2>3
<1>. QED
  BY <1>2, <1>3, <1>4 DEF Next

(* Inv is an invariant of the chassis node. *)
THEOREM Invariance == Spec => []Inv
<1>. QED
  BY InitInv, NextStep, PTL DEF Spec

-----------------------------------------------------------------------------
(* Consequences.                                                           *)

(* Every variable keeps its type; in particular the frame counters of the
   code never run past the number of stable frames asked for. *)
THEOREM TypeCorrect == Spec => []TypeOK
<1>1. Inv => TypeOK
  BY DEF Inv
<1>. QED
  BY <1>1, Invariance, PTL

(* Whatever arrives, no motion command is in force while an operation owns
   the chassis, while a fault locks it, or while a Mini V2 is parked. *)
THEOREM StoppedWhileOwned == Spec => []NoMotionWhileStopping
<1>1. Inv => NoMotionWhileStopping
  BY DEF Inv
<1>. QED
  BY <1>1, Invariance, PTL

(* Past the watchdog, motion is backed by a velocity that is recent enough. *)
THEOREM FreshMotion == Spec => []MotionIsFresh
<1>1. Inv => MotionIsFresh
  BY DEF Inv
<1>. QED
  BY <1>1, Invariance, PTL

(* An active goal always has an operation that will report to it, and no
   report is due when nobody waits. *)
THEOREM GoalsServed == Spec => []GoalIsServed
<1>1. Inv => GoalIsServed
  BY DEF Inv
<1>. QED
  BY <1>1, Invariance, PTL

(* As long as the chassis reports an error, the fault lock is on. *)
THEOREM FaultHoldsLock == Spec => []FaultLocks
<1>1. Inv => FaultLocks
  BY DEF Inv
<1>. QED
  BY <1>1, Invariance, PTL

(* Which steps end an operation with success or release the lock: only the
   last state of an operation. *)
LEMMA DoneFacts ==
  ASSUME Inv, [Next]_vars,
         \/ server' = "succeeded" /\ server # "succeeded"
         \/ locked /\ ~locked'
  PROVE  /\ seen.stood /\ seen.centered = CenterStableFrames
         /\ locked /\ ~locked' => seen.healthy
<1>1. CASE UpdateDone
  <2>1. state = "done" /\ CompleteStopAndCenter(TRUE)
    BY <1>1 DEF UpdateDone
  <2>2. seen.stood /\ seen.centered = CenterStableFrames
    BY <2>1 DEF Inv, Evidence
  <2>3. ~lastError => seen.healthy
    BY <2>1 DEF Inv, Evidence, StopCenterActive
  <2>4. locked /\ ~locked' => ~lastError
    BY <2>1, CompleteFacts
  <2>. QED
    BY <2>2, <2>3, <2>4
<1>2. CASE UpdateWaitStill \/ UpdateWaitMode \/ UpdateCentering
  <2>1. \/ CompleteStopAndCenter(FALSE)
        \/ UNCHANGED <<goalVars, locked>>
    BY <1>2 DEF UpdateWaitStill, UpdateWaitMode, UpdateCentering
  <2>2. CASE CompleteStopAndCenter(FALSE)
    <3>1. /\ ~locked' => ~locked
          /\ server' = "succeeded" => server = "succeeded"
      BY <2>2, CompleteFacts
    <3>. QED
      BY <3>1
  <2>. QED
    BY <2>1, <2>2 DEF goalVars
<1>3. CASE UpdateIdle \/ UpdateStopping \/ UpdateSwitchMode
  BY <1>3 DEF UpdateIdle, UpdateStopping, UpdateSwitchMode, goalVars
<1>4. CASE Callbacks
  <2>1. locked' = locked
    BY <1>4 DEF Callbacks, TwistCmdCallback, StopCenterGoalCallback,
                StopCenterPreemptCallback, TriggerParkingService, faultVars
  <2>2. server' # "succeeded" \/ server' = server
    BY <1>4 DEF Callbacks, TwistCmdCallback, RejectTwist,
                StopCenterGoalCallback, StopCenterPreemptCallback,
                TriggerParkingService, goalVars
  <2>. QED
    BY <2>1, <2>2
<1>5. CASE CheckCmdVelWatchdog
  BY <1>5 DEF CheckCmdVelWatchdog, WatchdogQuiet, WatchdogHolds,
              WatchdogFires, goalVars, faultVars
<1>6. CASE \E fb \in Reports : CheckChassisFault(fb)
  <2>1. server' = server
    BY <1>6 DEF CheckChassisFault
  <2>2. locked' = TRUE \/ locked' = locked
    BY <1>6 DEF CheckChassisFault, FaultAppears, FaultClears, FaultUnchanged
  <2>. QED
    BY <2>1, <2>2
<1>7. CASE \E ticks \in Elapsed : Sleep(ticks)
  BY <1>7 DEF Sleep, goalVars, faultVars
<1>8. CASE UNCHANGED vars
  BY <1>8 DEF vars, goalVars, faultVars
<1>. QED
  BY <1>1, <1>2, <1>3, <1>4, <1>5, <1>6, <1>7, <1>8
    DEF Next, Run, UpdateStopAndCenter

(* A goal only succeeds after the vehicle was seen to stand and, in the last
   frames, to have its wheels centered, since the last request of anybody. *)
THEOREM SuccessIsCentered == Spec => SuccessMeansCentered
<1>1. Inv /\ [Next]_vars =>
        [server' = "succeeded" /\ server # "succeeded"
           => seen.stood /\ seen.centered = CenterStableFrames]_vars
  BY DoneFacts
<1>. QED
  BY <1>1, Invariance, PTL DEF Spec, SuccessMeansCentered

(* The fault lock is only released after an error-free operation that saw the
   vehicle stand with its wheels centered. *)
THEOREM UnlockIsCentered == Spec => UnlockOnlyCentered
<1>1. Inv /\ [Next]_vars =>
        [locked /\ ~locked'
           => /\ seen.healthy /\ seen.stood
              /\ seen.centered = CenterStableFrames]_vars
  BY DoneFacts
<1>. QED
  BY <1>1, Invariance, PTL DEF Spec, UnlockOnlyCentered
=============================================================================
