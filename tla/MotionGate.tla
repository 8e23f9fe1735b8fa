----------------------------- MODULE MotionGate -----------------------------
(***************************************************************************)
(* What the velocity arbiter promises to whoever listens on /cmd_vel,      *)
(* whatever its inputs, timers and services do inside:                     *)
(*                                                                         *)
(*   - while a stop-and-center operation is in progress the gate is closed *)
(*     and only zero velocities pass;                                      *)
(*   - a source that takes the vehicle over from another one moves it only *)
(*     after StopCycles zero velocities;                                   *)
(*   - the safety input never moves the vehicle.                           *)
(*                                                                         *)
(* CmdVelArbiter implements this specification (CmdVelArbiter!GateSpec).   *)
(***************************************************************************)
EXTENDS Naturals

CONSTANTS
  Sources,      \* the velocity inputs
  Safety,       \* the input that may only stop
  None,         \* "no source"
  StopCycles    \* zero velocities between two movers

VARIABLES
  out,          \* source of the last velocity if it is non-zero, else None
  mover,        \* source of the last non-zero velocity
  zeros,        \* zero velocities since then, counted up to StopCycles
  closed        \* a stop-and-center operation is in progress

gateVars == <<out, mover, zeros, closed>>

CountZero(n) == IF n < StopCycles THEN n + 1 ELSE n

Init ==
  /\ out = None
  /\ mover = None
  /\ zeros = 0
  /\ closed = FALSE

(* A non-zero velocity of source s passes. *)
Move(s) ==
  /\ ~closed
  /\ s # Safety
  /\ mover \in {None, s} \/ zeros = StopCycles
  /\ out' = s
  /\ mover' = s
  /\ zeros' = 0
  /\ UNCHANGED closed

(* A zero velocity passes; the gate may close with it. *)
Stop ==
  /\ out' = None
  /\ zeros' = CountZero(zeros)
  /\ closed' \in {closed, TRUE}
  /\ UNCHANGED mover

(* The gate closes without a velocity of its own: only when stopped. *)
Close ==
  /\ out = None
  /\ closed' = TRUE
  /\ UNCHANGED <<out, mover, zeros>>

Open ==
  /\ closed
  /\ closed' = FALSE
  /\ UNCHANGED <<out, mover, zeros>>

Next ==
  \/ \E s \in Sources : Move(s)
  \/ Stop
  \/ Close
  \/ Open

Spec == Init /\ [][Next]_gateVars
=============================================================================
