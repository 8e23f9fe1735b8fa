------------------------- MODULE MCOperatorConsole --------------------------
(* An instance of OperatorConsole for TLC. *)
EXTENDS OperatorConsole, FiniteSets
MCWorks == {"dock", "drive"}

(* Two loops, or one and gotop, with one message under way on /joy; or one *)
(* of them with two; or docking and an emergency stop, pressed once.       *)
Begun == {c \in Callers : thread[c] # "idle"}
Few ==
  /\ Cardinality(Begun) <= 2 /\ Cardinality(Begun) + Len(joy) <= 3
  /\ work = "dock" => joy = <<>> \/ ~paused
=============================================================================
