-------------------------- MODULE MCCmdVelArbiter --------------------------
(* Instances of CmdVelArbiter for TLC.  The inputs keep the order of their
   priorities in config/cmd_vel_arbiter.yaml; a command is fresh in the
   tick in which it arrived. *)
EXTENDS CmdVelArbiter

PriorityOf == [s \in Sources |->
                 CASE s = "safety" -> 100 [] s = "teleop" -> 80
                   [] s = "tag" -> 60 [] OTHER -> 20]
NoAge == [s \in Sources |-> 0]

\* Safety run: the vehicle inputs send moves; the emergency stop comes
\* through finish_motion.
SendsMoves == [s \in Sources |-> IF s = "safety" THEN {} ELSE {"move"}]
\* Liveness run: the navigation sends anything, and safety sends moves too.
SendsAnything ==
  [s \in Sources |-> IF s = "safety" THEN {"move"} ELSE {"zero", "move", "invalid"}]
BothAnswers == BOOLEAN
AlwaysAnswers == {TRUE}
=============================================================================
