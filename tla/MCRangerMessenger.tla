------------------------- MODULE MCRangerMessenger -------------------------
(* Instances of RangerMessenger for TLC: stability after two frames, timeouts
   of two or three ticks, passes of the loop of one or two ticks. *)
EXTENDS RangerMessenger

AnyReport == Feedback
=============================================================================
