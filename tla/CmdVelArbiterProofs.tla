------------------------ MODULE CmdVelArbiterProofs ------------------------
(***************************************************************************)
(* Proofs of the safety of the velocity arbiter, and that it implements    *)
(* MotionGate, for every set of inputs, every priority, timeout, number of *)
(* stop cycles and suppression period.                                     *)
(***************************************************************************)
EXTENDS CmdVelArbiter, TLAPS

(* What a change of source leaves to be stopped: until the active source has
   moved the vehicle itself, the zero cycles published since the last motion
   and those still owed make up SwitchStopCycles. *)
HandoverOwed ==
  /\ mover \notin {None, active} => zeros + stopCycles >= SwitchStopCycles
  /\ out \in {None, mover}

(* Nothing has moved the vehicle since the goal was sent that is in progress
   or that finish_motion waits for. *)
StillSinceGoal == centering \/ phase = "wait" => ~moved

Inv ==
  /\ TypeOK
  /\ NoMotionWhileCentering
  /\ SafetyNeverMoves
  /\ FinishedSourceIsMute
  /\ HandoverOwed
  /\ StillSinceGoal

-----------------------------------------------------------------------------

LEMMA StopCyclesIsNat == SwitchStopCycles \in Nat /\ SwitchStopCycles >= 1
BY ParametersAssumption

(* What is owed after a stop or a change of source, with z zero cycles
   published, k still to come, and n asked for. *)
LEMMA Owed ==
  ASSUME NEW n \in Nat, NEW z \in 0..n, NEW y \in 0..n, NEW k \in 0..n
  PROVE  /\ y + n >= n
         /\ y >= 1 => y + (n - 1) >= n
         /\ y >= z /\ z + k >= n => y + k >= n
         /\ (y = z + 1 \/ y = n) /\ z + k >= n
              => y + (IF k > 0 THEN k - 1 ELSE 0) >= n
         /\ z + 0 >= n => z = n
OBVIOUS

LEMMA InitInv == Init => Inv
<1>. SUFFICES ASSUME Init PROVE Inv
  OBVIOUS
<1>. USE DEF Init
<1>1. FlagsOK
  BY DEF FlagsOK
<1>2. TypeOK
  <2>1. /\ 0 \in Nat /\ 0 \in 0..SwitchStopCycles /\ 0 \in 0..WaitTimeout
    BY ParametersAssumption
  <2>. QED
    BY <1>1, <2>1, Zenon DEF TypeOK
<1>3. NoMotionWhileCentering /\ HandoverOwed /\ StillSinceGoal
  BY DEF NoMotionWhileCentering, HandoverOwed, StillSinceGoal
<1>4. SafetyNeverMoves /\ FinishedSourceIsMute
  BY SourcesAssumption DEF SafetyNeverMoves, FinishedSourceIsMute
<1>. QED
  BY <1>2, <1>3, <1>4 DEF Inv

(* What starting an operation, or finding one started, leaves behind. *)
LEMMA RequestFacts ==
  ASSUME Inv, NEW serverUp, RequestStopAndCenter(serverUp)
  PROVE  /\ centering' \in BOOLEAN /\ moved' \in BOOLEAN
         /\ goal' \in {"none", "active", "succeeded", "failed"}
         /\ goal' = "active" => centering'
         /\ centering' => ~moved'
         /\ moved' => moved
         /\ centering => centering'
         /\ Requested(serverUp) => centering'
<1>1. CASE ~centering /\ serverUp
  BY <1>1 DEF RequestStopAndCenter
<1>2. CASE ~(~centering /\ serverUp)
  <2>1. centering' = centering /\ moved' = moved /\ goal' = goal
    BY <1>2 DEF RequestStopAndCenter, actionVars
  <2>. QED
    BY <1>2, <2>1 DEF Inv, TypeOK, FlagsOK, NoMotionWhileCentering,
                      StillSinceGoal, Requested
<1>. QED
  BY <1>1, <1>2

LEMMA ZeroFacts ==
  ASSUME Inv, PublishZero
  PROVE  /\ out' = None /\ mover' = mover
         /\ zeros' \in 0..SwitchStopCycles
         /\ zeros' = zeros + 1 \/ zeros' = SwitchStopCycles
         /\ zeros' >= 1 /\ zeros' >= zeros
BY ParametersAssumption DEF Inv, TypeOK, PublishZero, CountZero

LEMMA SelectedIsFresh ==
  ASSUME NEW selected \in SelectInput
  PROVE  /\ selected \in Sources \cup {None}
         /\ selected # None => Fresh(selected)
BY DEF SelectInput

-----------------------------------------------------------------------------
(* Steps of the environment: messages, the end of a goal, wall time.       *)

LEMMA PublishStep ==
  ASSUME Inv, NEW s \in Sources, NEW twist \in Sends[s], Publish(s, twist)
  PROVE  Inv'
<1>. USE DEF Inv, Publish, inputVars, actionVars, outVars
<1>1. FlagsOK'
  BY DEF TypeOK, FlagsOK
<1>2. TypeOK'
  <2>1. twist \in Twists
    BY ParametersAssumption
  <2>2. queue' \in [Sources -> Twists \cup {None}]
    BY <2>1 DEF TypeOK
  <2>. QED
    BY <1>1, <2>2 DEF TypeOK
<1>3. /\ NoMotionWhileCentering' /\ SafetyNeverMoves' /\ FinishedSourceIsMute'
      /\ HandoverOwed' /\ StillSinceGoal'
  BY DEF NoMotionWhileCentering, SafetyNeverMoves, FinishedSourceIsMute,
         HandoverOwed, StillSinceGoal
<1>. QED
  BY <1>2, <1>3

LEMMA GoalDoneStep ==
  ASSUME Inv, NEW result \in {"succeeded", "failed"}, GoalDone(result)
  PROVE  Inv'
<1>. USE DEF Inv, GoalDone, inputVars, outVars
<1>1. FlagsOK'
  BY DEF TypeOK, FlagsOK
<1>2. TypeOK'
  BY <1>1 DEF TypeOK
<1>3. /\ NoMotionWhileCentering' /\ SafetyNeverMoves' /\ FinishedSourceIsMute'
      /\ HandoverOwed' /\ StillSinceGoal'
  BY DEF NoMotionWhileCentering, SafetyNeverMoves, FinishedSourceIsMute,
         HandoverOwed, StillSinceGoal
<1>. QED
  BY <1>2, <1>3

LEMMA StopCenterDoneStep ==
  ASSUME Inv, StopCenterDone
  PROVE  Inv'
<1>. USE DEF Inv, StopCenterDone, inputVars, outVars
<1>1. FlagsOK'
  BY DEF TypeOK, FlagsOK
<1>2. TypeOK'
  BY <1>1 DEF TypeOK
<1>3. /\ NoMotionWhileCentering' /\ SafetyNeverMoves' /\ FinishedSourceIsMute'
      /\ HandoverOwed' /\ StillSinceGoal'
  BY DEF NoMotionWhileCentering, SafetyNeverMoves, FinishedSourceIsMute,
         HandoverOwed, StillSinceGoal
<1>. QED
  BY <1>2, <1>3

LEMMA TickStep ==
  ASSUME Inv, Tick
  PROVE  Inv'
<1>. USE DEF Inv
<1>1. UNCHANGED <<queue, received, command, active, stopCycles, actionVars,
                  phase, reply, outVars>>
  BY DEF Tick
<1>2. FlagsOK'
  BY <1>1 DEF TypeOK, FlagsOK, actionVars
<1>3. /\ age' \in [Sources -> Nat] /\ ignore' \in [Sources -> Nat]
      /\ waitLeft' \in 0..WaitTimeout
  BY ParametersAssumption DEF Tick, TypeOK
<1>4. TypeOK'
  BY <1>1, <1>2, <1>3 DEF TypeOK, actionVars, outVars
<1>5. \A s \in Sources : ignore'[s] > 0 => ignore[s] > 0
  BY DEF Tick, TypeOK
<1>6. SafetyNeverMoves' /\ FinishedSourceIsMute'
  BY <1>1, <1>5 DEF SafetyNeverMoves, FinishedSourceIsMute, outVars
<1>7. NoMotionWhileCentering' /\ HandoverOwed' /\ StillSinceGoal'
  BY <1>1 DEF NoMotionWhileCentering, HandoverOwed, StillSinceGoal,
              actionVars, outVars
<1>. QED
  BY <1>4, <1>6, <1>7

-----------------------------------------------------------------------------
(* Input callbacks and finish_motion.                                      *)

LEMMA InputStep ==
  ASSUME Inv, NEW s \in Sources, InputCallback(s)
  PROVE  Inv'
<1>. USE DEF Inv
<1>1. /\ queue[s] # None /\ queue' = [queue EXCEPT ![s] = None]
      /\ UNCHANGED <<active, stopCycles, actionVars, phase, waitLeft, reply,
                     outVars>>
  BY DEF InputCallback
<1>2. /\ queue' \in [Sources -> Twists \cup {None}]
      /\ queue[s] \in Twists
  BY <1>1 DEF TypeOK
<1>3. NoMotionWhileCentering' /\ HandoverOwed' /\ StillSinceGoal'
  BY <1>1 DEF NoMotionWhileCentering, HandoverOwed, StillSinceGoal,
              actionVars, outVars
<1>4. CASE UNCHANGED inputVars
  <2>1. FlagsOK'
    BY <1>1, <1>4 DEF TypeOK, FlagsOK, inputVars, actionVars
  <2>2. TypeOK'
    BY <1>1, <1>2, <1>4, <2>1 DEF TypeOK, inputVars, actionVars, outVars
  <2>3. SafetyNeverMoves' /\ FinishedSourceIsMute'
    BY <1>1, <1>4 DEF SafetyNeverMoves, FinishedSourceIsMute, inputVars, outVars
  <2>. QED
    BY <1>3, <2>2, <2>3
<1>5. CASE /\ received' = [received EXCEPT ![s] = FALSE]
           /\ UNCHANGED <<command, age, ignore>>
  <2>1. FlagsOK'
    BY <1>1, <1>5 DEF TypeOK, FlagsOK, actionVars
  <2>2. TypeOK'
    BY <1>1, <1>2, <1>5, <2>1 DEF TypeOK, actionVars, outVars
  <2>3. \A t \in Sources : received'[t] => received[t]
    BY <1>5 DEF TypeOK, FlagsOK
  <2>4. SafetyNeverMoves' /\ FinishedSourceIsMute'
    BY <1>1, <1>5, <2>3 DEF SafetyNeverMoves, FinishedSourceIsMute, outVars
  <2>. QED
    BY <1>3, <2>2, <2>4
<1>6. CASE /\ ignore[s] = 0
           /\ queue[s] # "invalid" \/ s = Safety
           /\ command' = [command EXCEPT ![s] = Accepted(s)]
           /\ age' = [age EXCEPT ![s] = 0]
           /\ received' = [received EXCEPT ![s] = TRUE]
           /\ UNCHANGED ignore
  <2>1. FlagsOK'
    BY <1>1, <1>6 DEF TypeOK, FlagsOK, actionVars
  <2>2. Accepted(s) \in {"zero", "move"}
    BY <1>2, <1>6 DEF Accepted, Twists
  <2>3. command' \in [Sources -> {"zero", "move"}]
    BY <1>6, <2>2 DEF TypeOK
  <2>4. age' \in [Sources -> Nat]
    BY <1>6 DEF TypeOK
  <2>5. TypeOK'
    BY <1>1, <1>2, <1>6, <2>1, <2>3, <2>4 DEF TypeOK, actionVars, outVars
  <2>6. SafetyNeverMoves'
    BY <1>1, <1>6, SourcesAssumption
      DEF SafetyNeverMoves, Accepted, outVars, TypeOK
  <2>7. \A t \in Sources : t # s => /\ received'[t] = received[t]
                                    /\ command'[t] = command[t]
    BY <1>6 DEF TypeOK, FlagsOK
  <2>8. FinishedSourceIsMute'
    BY <1>1, <1>6, <2>7 DEF FinishedSourceIsMute, outVars
  <2>. QED
    BY <1>3, <2>5, <2>6, <2>8
<1>. QED
  BY <1>4, <1>5, <1>6 DEF InputCallback

LEMMA AnswerStep ==
  ASSUME Inv,
         \/ FinishUnknown
         \/ \E s \in Sources, r \in Reasons : FinishNotOwner(s, r)
  PROVE  Inv'
<1>1. /\ reply' \in {"unknown", "not_centered"}
      /\ UNCHANGED <<queue, inputVars, active, stopCycles, actionVars, phase,
                     waitLeft, outVars>>
  BY DEF FinishUnknown, FinishNotOwner
<1>. USE <1>1 DEF Inv, inputVars, actionVars, outVars
<1>2. FlagsOK'
  BY DEF TypeOK, FlagsOK
<1>3. TypeOK'
  BY <1>2 DEF TypeOK
<1>4. /\ NoMotionWhileCentering' /\ SafetyNeverMoves' /\ FinishedSourceIsMute'
      /\ HandoverOwed' /\ StillSinceGoal'
  BY DEF NoMotionWhileCentering, SafetyNeverMoves, FinishedSourceIsMute,
         HandoverOwed, StillSinceGoal
<1>. QED
  BY <1>3, <1>4

LEMMA FinishMotionStep ==
  ASSUME Inv, NEW s \in Sources, NEW r \in Reasons, FinishMotion(s, r)
  PROVE  Inv'
<1>. USE DEF Inv
<1>1. /\ stopCycles' = SwitchStopCycles /\ phase' = "request"
      /\ UNCHANGED <<queue, actionVars, waitLeft, reply>>
      /\ phase = "spin"
  BY DEF FinishMotion
<1>2. /\ out' = None /\ mover' = mover /\ zeros' \in 0..SwitchStopCycles
  BY ZeroFacts DEF FinishMotion
<1>3. active' \in Sources \cup {None}
  BY DEF FinishMotion
<1>4. SwitchStopCycles \in 0..SwitchStopCycles
  BY ParametersAssumption
<1>5. HandoverOwed'
  <2>1. zeros' + stopCycles' >= SwitchStopCycles
    BY <1>1, <1>2, StopCyclesIsNat, Owed DEF TypeOK
  <2>. QED
    BY <1>2, <2>1 DEF HandoverOwed
<1>6. NoMotionWhileCentering' /\ StillSinceGoal'
  BY <1>1, <1>2 DEF NoMotionWhileCentering, StillSinceGoal, actionVars
<1>7. CASE ForceStop(s)
  <2>1. FlagsOK'
    BY <1>1, <1>7 DEF TypeOK, FlagsOK, ForceStop, actionVars
  <2>2. /\ command' \in [Sources -> {"zero", "move"}]
        /\ age' \in [Sources -> Nat] /\ ignore' = ignore
    BY <1>7 DEF ForceStop, TypeOK
  <2>3. TypeOK'
    BY <1>1, <1>2, <1>3, <1>4, <2>1, <2>2 DEF TypeOK, actionVars
  <2>4. /\ command'[s] = "zero"
        /\ \A t \in Sources : t # s => /\ received'[t] = received[t]
                                       /\ command'[t] = command[t]
    BY <1>7 DEF ForceStop, TypeOK, FlagsOK
  <2>5. SafetyNeverMoves' /\ FinishedSourceIsMute'
    BY <1>2, <2>2, <2>4, SourcesAssumption
      DEF SafetyNeverMoves, FinishedSourceIsMute
  <2>. QED
    BY <1>5, <1>6, <2>3, <2>5
<1>8. CASE SuppressSource(s)
  <2>1. FlagsOK'
    BY <1>1, <1>8 DEF TypeOK, FlagsOK, SuppressSource, actionVars
  <2>2. ignore' \in [Sources -> Nat]
    BY <1>8, ParametersAssumption DEF SuppressSource, TypeOK
  <2>3. TypeOK'
    BY <1>1, <1>2, <1>3, <1>4, <1>8, <2>1, <2>2
      DEF TypeOK, SuppressSource, actionVars
  <2>4. /\ ~received'[s] /\ command' = command
        /\ \A t \in Sources : t # s => /\ received'[t] = received[t]
                                       /\ ignore'[t] = ignore[t]
    BY <1>8 DEF SuppressSource, TypeOK, FlagsOK
  <2>5. SafetyNeverMoves' /\ FinishedSourceIsMute'
    BY <1>2, <2>4, SourcesAssumption
      DEF SafetyNeverMoves, FinishedSourceIsMute
  <2>. QED
    BY <1>5, <1>6, <2>3, <2>5
<1>. QED
  BY <1>7, <1>8 DEF FinishMotion

LEMMA FinishRequestStep ==
  ASSUME Inv, NEW up \in ServerAnswers, FinishRequest(up)
  PROVE  Inv'
<1>. USE DEF Inv
<1>1. /\ phase = "request" /\ UNCHANGED <<queue, inputVars, active,
                                          stopCycles, outVars>>
  BY DEF FinishRequest
<1>2. /\ centering' \in BOOLEAN /\ moved' \in BOOLEAN
      /\ goal' \in {"none", "active", "succeeded", "failed"}
      /\ goal' = "active" => centering'
      /\ centering' => ~moved'
      /\ Requested(up) => centering'
  <2>1. RequestStopAndCenter(up)
    BY DEF FinishRequest
  <2>. QED
    BY <2>1, RequestFacts
<1>3. /\ phase' \in {"spin", "wait"}
      /\ phase' = "wait" => Requested(up)
  BY DEF FinishRequest
<1>4. waitLeft' = WaitTimeout \/ waitLeft' = waitLeft
  BY DEF FinishRequest
<1>5. waitLeft' \in 0..WaitTimeout
  BY <1>4, ParametersAssumption DEF TypeOK
<1>6. reply' \in {"none", "unknown", "not_centered", "centered"}
  BY DEF FinishRequest, TypeOK
<1>7. FlagsOK'
  BY <1>1, <1>2 DEF TypeOK, FlagsOK, inputVars
<1>8. TypeOK'
  <2>1. phase' \in {"spin", "request", "wait"}
    BY <1>3
  <2>2. goal' \in {"none", "active", "succeeded", "failed"}
    BY <1>2
  <2>. QED
    BY <1>1, <1>5, <1>6, <1>7, <2>1, <2>2 DEF TypeOK, inputVars, outVars
<1>9. NoMotionWhileCentering' /\ StillSinceGoal'
  BY <1>1, <1>2, <1>3 DEF NoMotionWhileCentering, StillSinceGoal, outVars
<1>10. SafetyNeverMoves' /\ FinishedSourceIsMute' /\ HandoverOwed'
  BY <1>1 DEF SafetyNeverMoves, FinishedSourceIsMute, HandoverOwed, inputVars,
              outVars
<1>. QED
  BY <1>8, <1>9, <1>10

LEMMA WaitStep ==
  ASSUME Inv, WaitHeartbeat \/ WaitReturn
  PROVE  Inv'
<1>. USE DEF Inv
<1>1. /\ phase = "wait" /\ phase' \in {"spin", "wait"}
      /\ UNCHANGED <<queue, inputVars, active, stopCycles, actionVars>>
  BY DEF WaitHeartbeat, WaitReturn
<1>2. /\ out' = None /\ mover' = mover /\ zeros' \in 0..SwitchStopCycles
      /\ zeros' >= zeros
  BY ZeroFacts DEF WaitHeartbeat, WaitReturn
<1>3. reply' \in {"none", "unknown", "not_centered", "centered"}
  BY DEF WaitHeartbeat, WaitReturn, Result, TypeOK
<1>4. waitLeft' = 0 \/ waitLeft' = waitLeft
  BY DEF WaitHeartbeat, WaitReturn
<1>5. waitLeft' \in 0..WaitTimeout
  BY <1>4, ParametersAssumption DEF TypeOK
<1>6. FlagsOK'
  BY <1>1 DEF TypeOK, FlagsOK, inputVars, actionVars
<1>7. TypeOK'
  BY <1>1, <1>2, <1>3, <1>5, <1>6 DEF TypeOK, inputVars, actionVars
<1>8. HandoverOwed'
  <2>1. zeros + stopCycles >= SwitchStopCycles
          => zeros' + stopCycles' >= SwitchStopCycles
    BY <1>1, <1>2, StopCyclesIsNat, Owed DEF TypeOK
  <2>. QED
    BY <1>1, <1>2, <2>1 DEF HandoverOwed
<1>9. NoMotionWhileCentering' /\ StillSinceGoal'
  BY <1>1, <1>2 DEF NoMotionWhileCentering, StillSinceGoal, actionVars
<1>10. SafetyNeverMoves' /\ FinishedSourceIsMute'
  BY <1>1, <1>2, SourcesAssumption
    DEF SafetyNeverMoves, FinishedSourceIsMute, inputVars
<1>. QED
  BY <1>7, <1>8, <1>9, <1>10

-----------------------------------------------------------------------------
(* The timer.                                                              *)

(* What every turn of the timer has in common. *)
TimerFrame ==
  /\ phase = "spin"
  /\ UNCHANGED <<queue, inputVars, phase, waitLeft, reply>>

LEMMA SwitchStep ==
  ASSUME Inv, TimerFrame, NEW selected \in SelectInput, NEW up,
         SwitchSource(selected, up)
  PROVE  Inv'
<1>. USE DEF Inv, TimerFrame
<1>1. /\ active' = selected /\ stopCycles' = SwitchStopCycles - 1
  BY DEF SwitchSource, CyclesAfterSwitch
<1>2. /\ out' = None /\ mover' = mover /\ zeros' \in 0..SwitchStopCycles
      /\ zeros' >= 1
  BY ZeroFacts DEF SwitchSource
<1>3. /\ centering' \in BOOLEAN /\ moved' \in BOOLEAN
      /\ goal' \in {"none", "active", "succeeded", "failed"}
      /\ goal' = "active" => centering'
      /\ centering' => ~moved'
  <2>1. CASE RequestStopAndCenter(up)
    BY <2>1, RequestFacts
  <2>2. CASE UNCHANGED actionVars
    BY <2>2 DEF actionVars, TypeOK, FlagsOK, NoMotionWhileCentering,
                StillSinceGoal
  <2>. QED
    BY <2>1, <2>2 DEF SwitchSource
<1>4. selected \in Sources \cup {None}
  BY SelectedIsFresh
<1>5. stopCycles' \in 0..SwitchStopCycles
  BY <1>1, ParametersAssumption
<1>6. FlagsOK'
  BY <1>3 DEF TypeOK, FlagsOK, inputVars
<1>7. TypeOK'
  BY <1>1, <1>2, <1>3, <1>4, <1>5, <1>6 DEF TypeOK, inputVars
<1>8. HandoverOwed'
  <2>1. zeros' + stopCycles' >= SwitchStopCycles
    BY <1>1, <1>2, StopCyclesIsNat, Owed DEF TypeOK
  <2>. QED
    BY <1>2, <2>1 DEF HandoverOwed
<1>9. NoMotionWhileCentering' /\ StillSinceGoal'
  BY <1>2, <1>3 DEF NoMotionWhileCentering, StillSinceGoal
<1>10. SafetyNeverMoves' /\ FinishedSourceIsMute'
  BY <1>2, SourcesAssumption
    DEF SafetyNeverMoves, FinishedSourceIsMute, inputVars
<1>. QED
  BY <1>7, <1>8, <1>9, <1>10

LEMMA HoldStep ==
  ASSUME Inv, TimerFrame, NEW selected \in SelectInput, HoldZero(selected)
  PROVE  Inv'
<1>. USE DEF Inv, TimerFrame
<1>1. /\ stopCycles' = IF stopCycles > 0 THEN stopCycles - 1 ELSE 0
      /\ UNCHANGED <<active, actionVars>>
  BY DEF HoldZero
<1>2. /\ out' = None /\ mover' = mover /\ zeros' \in 0..SwitchStopCycles
      /\ zeros' = zeros + 1 \/ zeros' = SwitchStopCycles
      /\ zeros' >= zeros
  BY ZeroFacts DEF HoldZero
<1>3. stopCycles' \in 0..SwitchStopCycles
  BY <1>1, ParametersAssumption DEF TypeOK
<1>4. FlagsOK'
  BY <1>1 DEF TypeOK, FlagsOK, inputVars, actionVars
<1>5. TypeOK'
  BY <1>1, <1>2, <1>3, <1>4 DEF TypeOK, inputVars, actionVars
<1>6. HandoverOwed'
  <2>1. zeros + stopCycles >= SwitchStopCycles
          => zeros' + stopCycles' >= SwitchStopCycles
    BY <1>1, <1>2, <1>3, StopCyclesIsNat, Owed DEF TypeOK
  <2>. QED
    BY <1>1, <1>2, <2>1 DEF HandoverOwed
<1>7. NoMotionWhileCentering' /\ StillSinceGoal'
  BY <1>1, <1>2 DEF NoMotionWhileCentering, StillSinceGoal, actionVars
<1>8. SafetyNeverMoves' /\ FinishedSourceIsMute'
  BY <1>2, SourcesAssumption
    DEF SafetyNeverMoves, FinishedSourceIsMute, inputVars
<1>. QED
  BY <1>5, <1>6, <1>7, <1>8

LEMMA ForwardStep ==
  ASSUME Inv, TimerFrame, NEW selected \in SelectInput, Forward(selected)
  PROVE  Inv'
<1>. USE DEF Inv, TimerFrame
<1>1. /\ selected = active /\ selected # None /\ ~centering /\ stopCycles = 0
      /\ UNCHANGED <<active, stopCycles, centering, goal>>
  BY DEF Forward
<1>2. selected \in Sources /\ received[selected]
  BY <1>1, SelectedIsFresh DEF Fresh
<1>3. CASE Moves(selected)
  <2>1. out' = selected /\ mover' = selected /\ zeros' = 0 /\ moved' = TRUE
    BY <1>3 DEF Forward, PublishMove
  <2>2. command[selected] = "move" /\ selected # Safety
    BY <1>3, SourcesAssumption DEF Moves
  <2>3. ~(ignore[selected] > 0)
    BY <1>2, <2>2 DEF FinishedSourceIsMute
  <2>4. FlagsOK'
    BY <1>1, <2>1 DEF TypeOK, FlagsOK, inputVars
  <2>5. zeros' \in 0..SwitchStopCycles
    BY <2>1, ParametersAssumption
  <2>6. TypeOK'
    BY <1>1, <1>2, <2>1, <2>4, <2>5 DEF TypeOK, inputVars
  <2>7. NoMotionWhileCentering' /\ StillSinceGoal' /\ HandoverOwed'
    BY <1>1, <2>1 DEF NoMotionWhileCentering, StillSinceGoal, HandoverOwed
  <2>8. SafetyNeverMoves' /\ FinishedSourceIsMute'
    BY <2>1, <2>2, <2>3 DEF SafetyNeverMoves, FinishedSourceIsMute, inputVars
  <2>. QED
    BY <2>6, <2>7, <2>8
<1>4. CASE ~Moves(selected)
  <2>1. PublishZero /\ moved' = moved
    BY <1>4 DEF Forward
  <2>2. /\ out' = None /\ mover' = mover /\ zeros' \in 0..SwitchStopCycles
        /\ zeros' >= zeros
    BY <2>1, ZeroFacts
  <2>3. FlagsOK'
    BY <1>1, <2>1 DEF TypeOK, FlagsOK, inputVars
  <2>4. TypeOK'
    BY <1>1, <2>2, <2>3 DEF TypeOK, inputVars
  <2>5. NoMotionWhileCentering' /\ StillSinceGoal'
    BY <1>1, <2>1, <2>2 DEF NoMotionWhileCentering, StillSinceGoal
  <2>6. HandoverOwed'
    <3>1. zeros + stopCycles >= SwitchStopCycles
            => zeros' + stopCycles' >= SwitchStopCycles
      BY <1>1, <2>2, StopCyclesIsNat, Owed DEF TypeOK
    <3>. QED
      BY <1>1, <2>2, <3>1 DEF HandoverOwed
  <2>7. SafetyNeverMoves' /\ FinishedSourceIsMute'
    BY <2>2, SourcesAssumption
      DEF SafetyNeverMoves, FinishedSourceIsMute, inputVars
  <2>. QED
    BY <2>4, <2>5, <2>6, <2>7
<1>. QED
  BY <1>3, <1>4

LEMMA NextStep == Inv /\ [Next]_vars => Inv'
<1>. SUFFICES ASSUME Inv, [Next]_vars PROVE Inv'
  OBVIOUS
<1>1. CASE Timer
  <2>1. TimerFrame
    BY <1>1 DEF Timer, TimerCallback, TimerFrame
  <2>. QED
    BY <1>1, <2>1, SwitchStep, HoldStep, ForwardStep DEF Timer, TimerCallback
<1>2. CASE Request
  BY <1>2, FinishRequestStep DEF Request
<1>3. CASE UNCHANGED vars
  <2>. USE <1>3 DEF Inv, vars, inputVars, actionVars, outVars
  <2>1. FlagsOK'
    BY DEF TypeOK, FlagsOK
  <2>2. TypeOK'
    BY <2>1 DEF TypeOK
  <2>3. /\ NoMotionWhileCentering' /\ SafetyNeverMoves'
        /\ FinishedSourceIsMute' /\ HandoverOwed' /\ StillSinceGoal'
    BY DEF NoMotionWhileCentering, SafetyNeverMoves, FinishedSourceIsMute,
           HandoverOwed, StillSinceGoal
  <2>. QED
    BY <2>2, <2>3
<1>. QED
  BY <1>1, <1>2, <1>3, PublishStep, InputStep, AnswerStep, FinishMotionStep,
     WaitStep, GoalDoneStep, StopCenterDoneStep, TickStep DEF Next

(* Inv is an invariant of the arbiter. *)
THEOREM Invariance == Spec => []Inv
<1>. QED
  BY InitInv, NextStep, PTL DEF Spec

-----------------------------------------------------------------------------
(* Consequences.                                                           *)

(* Every variable keeps its type; in particular the cycles still owed after a
   change of source never fall below zero. *)
THEOREM TypeCorrect == Spec => []TypeOK
<1>1. Inv => TypeOK
  BY DEF Inv
<1>. QED
  BY <1>1, Invariance, PTL

(* While the chassis works on a goal the arbiter knows it, and while it knows
   of one, or finish_motion holds the callback thread, the last message on
   /cmd_vel is a zero. *)
THEOREM StillWhileCentering == Spec => []NoMotionWhileCentering
<1>1. Inv => NoMotionWhileCentering
  BY DEF Inv
<1>. QED
  BY <1>1, Invariance, PTL

(* The safety input cannot move the vehicle. *)
THEOREM SafetyOnlyStops == Spec => []SafetyNeverMoves
<1>1. Inv => SafetyNeverMoves
  BY DEF Inv
<1>. QED
  BY <1>1, Invariance, PTL

(* A source that has finished drives nothing while it is suppressed. *)
THEOREM FinishedIsMute == Spec => []FinishedSourceIsMute
<1>1. Inv => FinishedSourceIsMute
  BY DEF Inv
<1>. QED
  BY <1>1, Invariance, PTL

(* The only step that puts a source on /cmd_vel. *)
LEMMA MoveFacts ==
  ASSUME Inv, Next, out' # None, out' # out \/ mover' # mover \/ zeros' # zeros
  PROVE  \E s \in Sources :
           /\ out' = s /\ mover' = s /\ zeros' = 0 /\ s # Safety
           /\ mover \in {None, s} \/ zeros = SwitchStopCycles
           /\ ~centering /\ centering' = centering
<1>1. PICK s \in SelectInput : Forward(s) /\ Moves(s)
  <2>1. ~PublishZero
    BY DEF PublishZero
  <2>. QED
    BY <2>1 DEF Next, Publish, InputCallback, FinishUnknown, FinishNotOwner,
                FinishMotion, Request, FinishRequest, WaitHeartbeat,
                WaitReturn, GoalDone, StopCenterDone, Timer, TimerCallback,
                SwitchSource, HoldZero, Forward, Tick, outVars
<1>2. /\ s = active /\ s # None /\ ~centering /\ stopCycles = 0
      /\ centering' = centering /\ out' = s /\ mover' = s /\ zeros' = 0
  BY <1>1 DEF Forward, PublishMove
<1>3. s \in Sources /\ s # Safety
  BY <1>1, <1>2, SelectedIsFresh, SourcesAssumption DEF Moves
<1>4. zeros + stopCycles >= SwitchStopCycles => zeros = SwitchStopCycles
  BY <1>2, ParametersAssumption DEF Inv, TypeOK
<1>5. mover \in {None, s} \/ zeros = SwitchStopCycles
  BY <1>2, <1>4 DEF Inv, HandoverOwed
<1>. QED
  BY <1>2, <1>3, <1>5

(* Two sources never drive back to back. *)
THEOREM HandoverIsStopped == Spec => HandoverStops
<1>1. ASSUME Inv, [Next]_vars, out' \notin {None, mover}, mover # None
      PROVE  UNCHANGED vars \/ zeros >= SwitchStopCycles
  <2>1. CASE out' # out
    <3>1. UNCHANGED vars \/ mover \in {None, out'} \/ zeros = SwitchStopCycles
      BY <1>1, <2>1, MoveFacts
    <3>2. zeros = SwitchStopCycles => zeros >= SwitchStopCycles
      BY ParametersAssumption
    <3>. QED
      BY <1>1, <3>1, <3>2
  <2>2. CASE out' = out
    BY <1>1, <2>2 DEF Inv, HandoverOwed
  <2>. QED
    BY <2>1, <2>2
<1>2. Inv /\ [Next]_vars =>
        [out' \notin {None, mover} /\ mover # None
           => zeros >= SwitchStopCycles]_vars
  BY <1>1
<1>. QED
  BY <1>2, Invariance, PTL DEF Spec, HandoverStops

(* finish_motion answers "centered" only for an operation that has succeeded,
   with nothing having moved the vehicle since it was started. *)
THEOREM CenteredReplyHolds == Spec => CenteredReplyIsCurrent
<1>1. ASSUME Inv, [Next]_vars, phase = "wait", phase' = "spin",
             reply' = "centered"
      PROVE  UNCHANGED vars \/ (goal = "succeeded" /\ ~moved /\ out = None)
  <2>1. ~moved /\ out = None
    BY <1>1 DEF Inv, StillSinceGoal, NoMotionWhileCentering
  <2>2. CASE WaitReturn
    BY <2>1, <2>2, <1>1 DEF WaitReturn, Result
  <2>3. CASE ~WaitReturn
    BY <1>1, <2>3
      DEF Next, Publish, InputCallback, FinishUnknown, FinishNotOwner,
          FinishMotion, Request, FinishRequest, WaitHeartbeat, GoalDone,
          StopCenterDone, Timer, TimerCallback, Tick
  <2>. QED
    BY <2>2, <2>3
<1>2. Inv /\ [Next]_vars =>
        [phase = "wait" /\ phase' = "spin" /\ reply' = "centered"
           => goal = "succeeded" /\ ~moved /\ out = None]_vars
  BY <1>1
<1>. QED
  BY <1>2, Invariance, PTL DEF Spec, CenteredReplyIsCurrent

-----------------------------------------------------------------------------
(* The arbiter implements MotionGate: every step is a step of the gate or    *)
(* leaves the gate's variables alone.                                        *)

LEMMA GateInit == Init => Gate!Init
BY DEF Init, Gate!Init

(* A zero command, with whatever else happens, is a Stop unless it opens the
   gate. *)
LEMMA StopIsGateStep ==
  ASSUME PublishZero, centering' = centering \/ centering' = TRUE
  PROVE  Gate!Stop
BY DEF PublishZero, Gate!Stop, CountZero, Gate!CountZero

(* The timer: losing or changing the source is a Stop, forwarding a Move. *)
LEMMA TimerIsGateStep ==
  ASSUME Inv, Next, NEW up, TimerCallback(up)
  PROVE  Gate!Next
<1>1. PICK selected \in SelectInput :
        \/ SwitchSource(selected, up)
        \/ HoldZero(selected)
        \/ Forward(selected)
  BY DEF TimerCallback
<1>2. CASE SwitchSource(selected, up)
  <2>1. centering' = centering \/ centering' = TRUE
    BY <1>2 DEF SwitchSource, RequestStopAndCenter, actionVars
  <2>. QED
    BY <1>2, <2>1, StopIsGateStep DEF SwitchSource, Gate!Next
<1>3. CASE HoldZero(selected)
  BY <1>3, StopIsGateStep DEF HoldZero, actionVars, Gate!Next
<1>4. CASE Forward(selected)
  <2>1. CASE Moves(selected)
    <3>1. /\ selected = active /\ selected # None /\ ~centering
          /\ stopCycles = 0 /\ centering' = centering
          /\ out' = selected /\ mover' = selected /\ zeros' = 0
      BY <1>4, <2>1 DEF Forward, PublishMove
    <3>2. selected \in Sources /\ selected # Safety
      BY <2>1, <3>1, SelectedIsFresh, SourcesAssumption DEF Moves
    <3>3. zeros + stopCycles >= SwitchStopCycles => zeros = SwitchStopCycles
      BY <3>1, StopCyclesIsNat, Owed DEF Inv, TypeOK
    <3>4. mover \in {None, selected} \/ zeros = SwitchStopCycles
      BY <3>1, <3>3 DEF Inv, HandoverOwed
    <3>5. Gate!Move(selected)
      BY <3>1, <3>2, <3>4 DEF Gate!Move
    <3>. QED
      BY <3>2, <3>5 DEF Gate!Next
  <2>2. CASE ~Moves(selected)
    BY <1>4, <2>2, StopIsGateStep DEF Forward, Gate!Next
  <2>. QED
    BY <2>1, <2>2
<1>. QED
  BY <1>1, <1>2, <1>3, <1>4

LEMMA GateStep == Inv /\ [Next]_vars => [Gate!Next]_(Gate!gateVars)
<1>. SUFFICES ASSUME Inv, [Next]_vars
              PROVE  Gate!Next \/ UNCHANGED Gate!gateVars
  OBVIOUS
<1>1. CASE Timer
  BY <1>1, TimerIsGateStep DEF Timer, Next
<1>2. CASE Request
  <2>1. PICK up \in ServerAnswers : FinishRequest(up)
    BY <1>2 DEF Request
  <2>2. /\ phase = "request" /\ RequestStopAndCenter(up)
        /\ UNCHANGED outVars
    BY <2>1 DEF FinishRequest
  <2>3. out = None
    BY <2>2 DEF Inv, NoMotionWhileCentering
  <2>4. centering' = centering \/ centering' = TRUE
    BY <2>2 DEF RequestStopAndCenter, actionVars
  <2>5. CASE centering' = centering
    BY <2>2, <2>5 DEF Gate!gateVars, outVars
  <2>6. CASE centering' = TRUE
    BY <2>2, <2>3, <2>6 DEF Gate!Close, Gate!Next, outVars
  <2>. QED
    BY <2>4, <2>5, <2>6
<1>3. CASE StopCenterDone
  BY <1>3 DEF StopCenterDone, Gate!Open, Gate!Next, outVars
<1>4. CASE \/ \E s \in Sources, r \in Reasons : FinishMotion(s, r)
           \/ WaitHeartbeat
           \/ WaitReturn
  <2>1. PublishZero /\ centering' = centering
    BY <1>4 DEF FinishMotion, WaitHeartbeat, WaitReturn, actionVars
  <2>. QED
    BY <2>1, StopIsGateStep DEF Gate!Next
<1>5. CASE \/ \E s \in Sources : \E twist \in Sends[s] : Publish(s, twist)
           \/ \E s \in Sources : InputCallback(s)
           \/ FinishUnknown
           \/ \E s \in Sources, r \in Reasons : FinishNotOwner(s, r)
           \/ \E result \in {"succeeded", "failed"} : GoalDone(result)
           \/ Tick
           \/ UNCHANGED vars
  BY <1>5 DEF Publish, InputCallback, FinishUnknown, FinishNotOwner, GoalDone,
              Tick, vars, actionVars, outVars, Gate!gateVars
<1>. QED
  BY <1>1, <1>2, <1>3, <1>4, <1>5 DEF Next

(* The velocities the arbiter publishes are those MotionGate lets through. *)
THEOREM ArbiterImplementsGate == Spec => GateSpec
<1>. QED
  BY GateInit, GateStep, Invariance, PTL DEF Spec, GateSpec, Gate!Spec
============================================================================
