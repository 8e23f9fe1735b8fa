--------------------------- MODULE CmdVelArbiter ---------------------------
(***************************************************************************)
(* The velocity arbiter (src/cmd_vel_arbiter/src/cmd_vel_arbiter_node.cpp).*)
(*                                                                         *)
(* Four inputs (safety, teleop, tag, nav) publish velocities on topics of  *)
(* their own; a 50 Hz timer forwards the freshest command of the highest   *)
(* priority to /cmd_vel.  The arbiter also owns the stop-and-center action *)
(* of the chassis: it starts it when the safety input takes over, when an  *)
(* autonomous input disappears, and when a task calls finish_motion, whose *)
(* handler blocks until the action is done or a deadline has passed.       *)
(*                                                                         *)
(* Threads.  Input callbacks, finish_motion and the timer share one ROS    *)
(* callback thread (ros::spin), so none of them runs while finish_motion   *)
(* waits (phase # "spin").  The done callback of the action client runs on *)
(* the client's own thread, at any time.  The goal's end is a step of the  *)
(* chassis.  Topic messages arrive at any time, in a queue of length 1 per *)
(* input that keeps the newest.                                            *)
(*                                                                         *)
(* Time is counted in ticks: an age for every stored command and a count-  *)
(* down for every deadline, so that no clock value appears in the state.   *)
(* A velocity is "zero", "move" (finite and not zero) or "invalid" (not    *)
(* finite); the clamping of an axis only matters for sources that are not  *)
(* in Mobile, whose limits are zero on all axes.                           *)
(*                                                                         *)
(* A definition marked "mutant" is a faulty variant of the definition that *)
(* follows it; no other definition uses it.  It serves to show that the    *)
(* properties are able to fail.                                            *)
(***************************************************************************)
EXTENDS Integers

CONSTANTS
  Sources,            \* names of the inputs
  Safety,             \* the input loaded with safety_only
  None,               \* the empty active_input_, an empty queue
  Priority,           \* [Sources -> Int]
  Timeout,            \* [Sources -> Nat] ticks a command stays fresh
  CenterOnLoss,       \* inputs whose loss is centered (nav, tag)
  Mobile,             \* inputs with a non-zero velocity limit
  SwitchStopCycles,   \* zero cycles after every change of source
  Suppression,        \* ticks a finished source is ignored
  WaitTimeout,        \* ticks finish_motion waits for the action
  Sends,              \* [Sources -> SUBSET Twists], what the inputs publish
  ServerAnswers       \* possible answers of waitForServer

Twists == {"zero", "move", "invalid"}
Reasons == {"TASK_FINISHED", "TASK_CANCELED", "TASK_FAILED", "SOFTWARE_ESTOP"}

ASSUME SourcesAssumption ==
  /\ Safety \in Sources
  /\ None \notin Sources \cup Twists
  /\ CenterOnLoss \subseteq Sources \ {Safety}
  /\ Mobile \subseteq Sources \ {Safety}
ASSUME ParametersAssumption ==
  /\ Priority \in [Sources -> Int]
  /\ Timeout \in [Sources -> Nat]
  /\ SwitchStopCycles \in Nat \ {0}
  /\ Suppression \in Nat
  /\ WaitTimeout \in Nat \ {0}
  /\ Sends \in [Sources -> SUBSET Twists]
  /\ ServerAnswers \subseteq BOOLEAN

VARIABLES
  queue,       \* subscriber queues: the newest unhandled message, or None
  received,    \* Input.received
  command,     \* Input.command
  age,         \* now - Input.received_at, in ticks, up to Timeout + 1
  ignore,      \* ticks left until Input.ignored_until
  active,      \* active_input_
  stopCycles,  \* stop_cycles_remaining_
  moved,       \* motion_since_center_
  centering,   \* centering_active_
  goal,        \* the client's goal handle: its state, and its result
  phase,       \* where the callback thread is in finish_motion
  waitLeft,    \* ticks left until the deadline of WaitForStopAndCenter
  reply,       \* the last finish_motion response
  out,         \* source of the last /cmd_vel message if non-zero, or None
  mover,       \* history: source of the last non-zero /cmd_vel message
  zeros        \* history: zero messages since, up to SwitchStopCycles

inputVars == <<received, command, age, ignore>>
actionVars == <<moved, centering, goal>>
outVars == <<out, mover, zeros>>
vars == <<queue, inputVars, active, stopCycles, actionVars, phase, waitLeft,
          reply, outVars>>

FlagsOK ==
  /\ received \in [Sources -> BOOLEAN]
  /\ moved \in BOOLEAN
  /\ centering \in BOOLEAN

TypeOK ==
  /\ FlagsOK
  /\ queue \in [Sources -> Twists \cup {None}]
  /\ command \in [Sources -> {"zero", "move"}]
  /\ age \in [Sources -> Nat]
  /\ ignore \in [Sources -> Nat]
  /\ active \in Sources \cup {None}
  /\ stopCycles \in 0..SwitchStopCycles
  /\ goal \in {"none", "active", "succeeded", "failed"}
  /\ phase \in {"spin", "request", "wait"}
  /\ waitLeft \in 0..WaitTimeout
  /\ reply \in {"none", "unknown", "not_centered", "centered"}
  /\ out \in Sources \cup {None}
  /\ mover \in Sources \cup {None}
  /\ zeros \in 0..SwitchStopCycles

Init ==
  /\ queue = [s \in Sources |-> None]
  /\ received = [s \in Sources |-> FALSE]
  /\ command = [s \in Sources |-> "zero"]
  /\ age = [s \in Sources |-> 0]
  /\ ignore = [s \in Sources |-> 0]
  /\ active = None
  /\ stopCycles = 0
  /\ moved = FALSE
  /\ centering = FALSE
  /\ goal = "none"
  /\ phase = "spin"
  /\ waitLeft = 0
  /\ reply = "none"
  /\ out = None
  /\ mover = None
  /\ zeros = 0

-----------------------------------------------------------------------------
(* Selection of the input, and the two ways to publish.                    *)

Fresh(s) == received[s] /\ age[s] <= Timeout[s]

Outranks(s, t) ==
  \/ Priority[s] > Priority[t]
  \/ Priority[s] = Priority[t] /\ age[s] < age[t]

(* The possible results of SelectInput: the fresh input that no other fresh
   input outranks.  Inputs of one priority whose commands arrived in the same
   tick are told apart only by the order in which they were loaded; either may
   be selected here. *)
SelectInput ==
  LET fresh == {s \in Sources : Fresh(s)}
  IN IF fresh = {} THEN {None}
     ELSE {s \in fresh : \A t \in fresh : ~Outranks(t, s)}

CenterOnSafetyLoss(s) == s = Safety                 \* mutant: the wrong source
ShouldCenterOnLoss(s) == s \in CenterOnLoss

CountZero(n) == IF n < SwitchStopCycles THEN n + 1 ELSE n

PublishZero ==
  /\ out' = None
  /\ zeros' = CountZero(zeros)
  /\ UNCHANGED mover

PublishMove(s) ==
  /\ out' = s
  /\ mover' = s
  /\ zeros' = 0

(* A velocity of s is still non-zero after it was clamped to its limits. *)
Moves(s) == command[s] = "move" /\ s \in Mobile

-----------------------------------------------------------------------------
(* The stop-and-center action client.                                      *)

(* RequestStopAndCenter: nothing is sent while an earlier goal's callback is
   outstanding, or when the server does not answer in time. *)
RequestStopAndCenter(serverUp) ==
  IF ~centering /\ serverUp
  THEN /\ centering' = TRUE
       /\ moved' = FALSE
       /\ goal' = "active"
  ELSE UNCHANGED actionVars

Requested(serverUp) == centering \/ serverUp

(* The chassis ends the goal: getState().isDone() holds from here on. *)
GoalDone(result) ==
  /\ goal = "active"
  /\ goal' = result
  /\ UNCHANGED <<queue, inputVars, active, stopCycles, moved, centering,
                 phase, waitLeft, reply, outVars>>

(* The client's thread then calls StopCenterDone. *)
StopCenterDone ==
  /\ centering
  /\ goal \in {"succeeded", "failed"}
  /\ centering' = FALSE
  /\ UNCHANGED <<queue, inputVars, active, stopCycles, moved, goal, phase,
                 waitLeft, reply, outVars>>

-----------------------------------------------------------------------------
(* The inputs.                                                             *)

(* A message arrives; the queue of length 1 drops the one it still held. *)
Publish(s, twist) ==
  /\ queue' = [queue EXCEPT ![s] = twist]
  /\ UNCHANGED <<inputVars, active, stopCycles, actionVars, phase, waitLeft,
                 reply, outVars>>

(* The velocity stored for a message that is accepted. *)
Accepted(s) == IF s = Safety THEN "zero" ELSE queue[s]

InputCallback(s) ==
  /\ phase = "spin"
  /\ queue[s] # None
  /\ queue' = [queue EXCEPT ![s] = None]
  /\ \/ /\ ignore[s] > 0
        /\ UNCHANGED inputVars
     \/ /\ ignore[s] = 0
        /\ queue[s] = "invalid" /\ s # Safety
        /\ received' = [received EXCEPT ![s] = FALSE]
        /\ UNCHANGED <<command, age, ignore>>
     \/ /\ ignore[s] = 0
        /\ queue[s] # "invalid" \/ s = Safety
        /\ command' = [command EXCEPT ![s] = Accepted(s)]
        /\ age' = [age EXCEPT ![s] = 0]
        /\ received' = [received EXCEPT ![s] = TRUE]
        /\ UNCHANGED ignore
  /\ UNCHANGED <<active, stopCycles, actionVars, phase, waitLeft, reply,
                 outVars>>

-----------------------------------------------------------------------------
(* finish_motion.                                                          *)

(* A request for a name that is no input. *)
FinishUnknown ==
  /\ phase = "spin"
  /\ reply' = "unknown"
  /\ UNCHANGED <<queue, inputVars, active, stopCycles, actionVars, phase,
                 waitLeft, outVars>>

OwnsControl(s) == active = s \/ s \in SelectInput

(* The caller lost control before it finished: answered at once. *)
FinishNotOwner(s, reason) ==
  /\ phase = "spin"
  /\ ~OwnsControl(s) /\ ~centering /\ reason # "SOFTWARE_ESTOP"
  /\ reply' = "not_centered"
  /\ UNCHANGED <<queue, inputVars, active, stopCycles, actionVars, phase,
                 waitLeft, outVars>>

(* The source is forgotten, and ignored for a while. *)
SuppressOnly(s) ==                      \* mutant: the last command is kept
  /\ ignore' = [ignore EXCEPT ![s] = Suppression]
  /\ UNCHANGED <<received, command, age>>
SuppressSource(s) ==
  /\ received' = [received EXCEPT ![s] = FALSE]
  /\ ignore' = [ignore EXCEPT ![s] = Suppression]
  /\ UNCHANGED <<command, age>>

(* An emergency stop through this source: a fresh zero command of its own. *)
ForceStop(s) ==
  /\ command' = [command EXCEPT ![s] = "zero"]
  /\ received' = [received EXCEPT ![s] = TRUE]
  /\ age' = [age EXCEPT ![s] = 0]
  /\ UNCHANGED ignore

(* The handler up to its call of RequestStopAndCenter. *)
FinishMotion(s, reason) ==
  /\ phase = "spin"
  /\ OwnsControl(s) \/ centering \/ reason = "SOFTWARE_ESTOP"
  /\ IF reason = "SOFTWARE_ESTOP"
     THEN ForceStop(s) /\ active' = s
     ELSE SuppressSource(s) /\ active' = None
  /\ stopCycles' = SwitchStopCycles
  /\ PublishZero
  /\ phase' = "request"
  /\ UNCHANGED <<queue, actionVars, waitLeft, reply>>

FinishRequest(serverUp) ==
  /\ phase = "request"
  /\ RequestStopAndCenter(serverUp)
  /\ IF Requested(serverUp)
     THEN /\ phase' = "wait"
          /\ waitLeft' = WaitTimeout
          /\ UNCHANGED reply
     ELSE /\ phase' = "spin"
          /\ reply' = "not_centered"
          /\ UNCHANGED waitLeft
  /\ UNCHANGED <<queue, inputVars, active, stopCycles, outVars>>

WaitForEver == goal # "active"                     \* mutant: no deadline
WaitOver == goal # "active" \/ waitLeft = 0

AnyResult ==                     \* mutant: the result itself is not looked at
  IF goal # "active" THEN "centered" ELSE "not_centered"
Result == IF goal = "succeeded" THEN "centered" ELSE "not_centered"

(* One turn of the loop in WaitForStopAndCenter: the zero heartbeat. *)
WaitHeartbeat ==
  /\ phase = "wait"
  /\ ~WaitOver
  /\ PublishZero
  /\ UNCHANGED <<queue, inputVars, active, stopCycles, actionVars, phase,
                 waitLeft, reply>>

(* The loop ends: the goal is done, or the deadline has passed. *)
WaitReturn ==
  /\ phase = "wait"
  /\ WaitOver
  /\ PublishZero
  /\ phase' = "spin"
  /\ waitLeft' = 0
  /\ reply' = Result
  /\ UNCHANGED <<queue, inputVars, active, stopCycles, actionVars>>

-----------------------------------------------------------------------------
(* The 50 Hz timer.                                                        *)

OneCycleDone == 0                     \* mutant: one zero cycle is enough
CyclesAfterSwitch == SwitchStopCycles - 1

(* The selected input is not the active one: one zero cycle is published
   here, since stop_cycles_remaining_ is at least 1, and centering starts
   when the change calls for it. *)
SwitchSource(selected, serverUp) ==
  /\ selected # active
  /\ active' = selected
  /\ IF \/ selected = Safety
        \/ selected = None /\ ShouldCenterOnLoss(active) /\ moved
     THEN RequestStopAndCenter(serverUp)
     ELSE UNCHANGED actionVars
  /\ PublishZero
  /\ stopCycles' = CyclesAfterSwitch

(* The active input stays, and must not move the vehicle in this cycle. *)
HoldZero(selected) ==
  /\ selected = active
  /\ centering \/ selected = None \/ stopCycles > 0
  /\ PublishZero
  /\ stopCycles' = IF stopCycles > 0 THEN stopCycles - 1 ELSE 0
  /\ UNCHANGED <<active, actionVars>>

(* The active input's command goes out. *)
Forward(selected) ==
  /\ selected = active
  /\ ~centering /\ selected # None /\ stopCycles = 0
  /\ IF Moves(selected)
     THEN PublishMove(selected) /\ moved' = TRUE
     ELSE PublishZero /\ UNCHANGED moved
  /\ UNCHANGED <<active, stopCycles, centering, goal>>

TimerCallback(serverUp) ==
  /\ phase = "spin"
  /\ \E selected \in SelectInput :
       \/ SwitchSource(selected, serverUp)
       \/ HoldZero(selected)
       \/ Forward(selected)
  /\ UNCHANGED <<queue, inputVars, phase, waitLeft, reply>>

-----------------------------------------------------------------------------
(* Wall time.                                                              *)

Tick ==
  /\ age' = [s \in Sources |->
               IF age[s] <= Timeout[s] THEN age[s] + 1 ELSE age[s]]
  /\ ignore' = [s \in Sources |-> IF ignore[s] > 0 THEN ignore[s] - 1 ELSE 0]
  /\ waitLeft' = IF waitLeft > 0 THEN waitLeft - 1 ELSE 0
  /\ UNCHANGED <<queue, received, command, active, stopCycles, actionVars,
                 phase, reply, outVars>>

Timer == \E up \in ServerAnswers : TimerCallback(up)
Request == \E up \in ServerAnswers : FinishRequest(up)

Next ==
  \/ \E s \in Sources : \E twist \in Sends[s] : Publish(s, twist)
  \/ \E s \in Sources : InputCallback(s)
  \/ FinishUnknown
  \/ \E s \in Sources, r \in Reasons : FinishNotOwner(s, r)
  \/ \E s \in Sources, r \in Reasons : FinishMotion(s, r)
  \/ Request
  \/ WaitHeartbeat
  \/ WaitReturn
  \/ \E result \in {"succeeded", "failed"} : GoalDone(result)
  \/ StopCenterDone
  \/ Timer
  \/ Tick

Spec == Init /\ [][Next]_vars

(* Wall time passes, the callback thread and the client's thread run what is
   ready for them; nothing is assumed of the inputs or of the chassis. *)
Fairness ==
  /\ WF_vars(Tick)
  /\ WF_vars(Timer)
  /\ WF_vars(Request)
  /\ WF_vars(WaitReturn)
  /\ WF_vars(StopCenterDone)
  /\ \A s \in Sources : WF_vars(InputCallback(s))

FairSpec == Spec /\ Fairness

-----------------------------------------------------------------------------
(* Safety.                                                                 *)

(* A goal the chassis is still working on is known to the arbiter: no second
   goal is sent over it (line 219) and the timer keeps publishing zeros (line
   347).  While centering_active_ is set, and while finish_motion has the
   callback thread, the last message on /cmd_vel is a zero. *)
NoMotionWhileCentering ==
  /\ goal = "active" => centering
  /\ centering \/ phase # "spin" => out = None

(* The safety input cannot move the vehicle, not even with a non-zero or a
   non-finite message (lines 149-164), nor through a finish_motion that
   writes to its slot. *)
SafetyNeverMoves ==
  /\ command[Safety] = "zero"
  /\ out # Safety

(* A source whose task has called finish_motion drives nothing for the
   suppression period: what it still publishes is dropped, what it published
   before is forgotten (lines 144 and 302-304), whatever the timer, an
   emergency stop or another finish_motion do meanwhile. *)
FinishedSourceIsMute ==
  \A s \in Sources :
    ignore[s] > 0 => out # s /\ ~(received[s] /\ command[s] = "move")

(* Two sources never drive back to back: when a source other than the last
   mover gets through, at least SwitchStopCycles zero messages have gone out
   in between, through every chain of losses, hand-overs, emergency stops and
   finish_motion calls (lines 307, 333 and 347-353). *)
HandoverStops ==
  [][out' \notin {None, mover} /\ mover # None => zeros >= SwitchStopCycles]_vars

(* finish_motion answers "centered" only if the operation it waited for has
   succeeded and nothing has moved the vehicle since that operation was
   started, also when it joined an operation started by somebody else or one
   whose done callback had not run yet (lines 219-221 and 265-267). *)
CenteredReplyIsCurrent ==
  [][phase = "wait" /\ phase' = "spin" /\ reply' = "centered"
       => goal = "succeeded" /\ ~moved /\ out = None]_vars

(* The velocities on /cmd_vel are those the abstract gate lets through. *)
Gate == INSTANCE MotionGate
          WITH StopCycles <- SwitchStopCycles, closed <- centering
GateSpec == Gate!Spec

-----------------------------------------------------------------------------
(* Liveness.                                                               *)

AllSilent == \A s \in Sources : ~Fresh(s)

(* When every input has fallen silent for good and the action server always
   answers, the vehicle is stopped for good, even if the chassis never says
   that it is done, and no motion is left that was not followed by a
   stop-and-center goal.  It needs every input but safety to be in
   CenterOnLoss: an input whose loss is not centered may have taken over from
   one whose loss is. *)
SilenceStopsAndCenters == <>[]AllSilent => <>[](out = None /\ ~moved)

(* finish_motion never keeps the callback thread for good. *)
FinishReturns == phase # "spin" ~> phase = "spin"
=============================================================================
