----------------------------- MODULE TagControl -----------------------------
(***************************************************************************)
(* TagCtl_srv.cpp: the service set_target_y, which drives the robot to a   *)
(* pose relative to a tag it sees: rotate, correct x, move in y, correct x *)
(* again.  The handler runs until the pose is reached or the tag has been  *)
(* lost for too long, and calls ros::spinOnce in its loop.  So readings    *)
(* are taken in there, and a second request is handled inside the first.   *)
(*                                                                         *)
(* Geometry is left out: what a reading says of the target is whether the  *)
(* yaw, x and y are within their thresholds, after the filter.  A round of *)
(* the inner loop for a lost tag is the unit of time.                      *)
(***************************************************************************)
EXTENDS Integers, Sequences

CONSTANTS
  MaxRequests,            \* bound: requests that are made
  StableFrames,           \* yaw_stable_required_
  TagAbortTimeout,        \* tag_abort_timeout_, in rounds of the inner loop
  InnerRounds,            \* the 20 rounds of the inner loop
  FinalRecheck            \* enable_final_y_yaw_after_x_check_

ASSUME RequestsAssumption == MaxRequests \in Nat
ASSUME FramesAssumption == StableFrames \in Nat \ {0}
ASSUME TimeoutAssumption == TagAbortTimeout \in Nat \ {0} /\ InnerRounds \in Nat \ {0}
ASSUME RecheckAssumption == FinalRecheck \in BOOLEAN

Requests == 1 .. MaxRequests
None == 0                 \* no target yet
State == {"ROTATING", "CORRECTING_X", "MOVING_Y_YAW", "FINAL_CORRECTING_X"}
Reading == [yaw : BOOLEAN, x : BOOLEAN, y : BOOLEAN]
Nowhere == [yaw |-> FALSE, x |-> FALSE, y |-> FALSE]
Unset == -1               \* invalid_since is zero

VARIABLES
  tag,      \* what the callback keeps: seen, valid and not stale; at, the
            \* filtered reading; fresh, tag_update_seq_ # last_yaw_stable_seq_;
            \* and good, readings of this request with the yaw reached
  state,    \* state_
  stable,   \* yaw_stable_count_
  target,   \* the request the targets are from
  active,   \* control_active_
  calls,    \* the handlers on the stack, the running one last: their request,
            \* invalid_since as rounds since then, and the round of the inner
            \* loop, 0 outside of it
  vel,      \* "move" or "stop": the last command on /cmd_vel/tag
  answer    \* the answer to each request

tagVars == <<tag, state, stable, target, active, calls, vel, answer>>

TagOK ==
  /\ tag \in [seen : BOOLEAN, at : Reading, fresh : BOOLEAN, good : 0 .. StableFrames]
  /\ state \in State /\ stable \in 0 .. StableFrames
  /\ target \in Requests \cup {None} /\ active \in BOOLEAN
  /\ calls \in Seq([req : Requests, since : Unset .. TagAbortTimeout - 1,
                    inner : 0 .. InnerRounds])
  /\ vel \in {"move", "stop"}
  /\ answer \in [Requests -> {"open", "called", "served", "success", "failed", "rejected"}]

TagInit ==
  /\ tag = [seen |-> FALSE, at |-> Nowhere, fresh |-> FALSE, good |-> 0]
  /\ state = "ROTATING" /\ stable = 0 /\ target = None
  /\ active = FALSE /\ calls = <<>> /\ vel = "stop"
  /\ answer = [r \in Requests |-> "open"]

-----------------------------------------------------------------------------
(* ros::spinOnce: the readings that have come in are taken over.  Nothing  *)
(* new; the tag is in sight; or it is lost (a reading without a tag, or    *)
(* none for data_timeout_), perhaps after a last sight of it.  The filter  *)
(* keeps its position then, but nobody looks at it before the next sight.  *)
AtMost(n, bound) == IF n < bound THEN n ELSE bound
Goods(more) == AtMost(tag.good + more, StableFrames)
Spins ==
  {tag} \cup
  {[seen |-> TRUE, at |-> r, fresh |-> TRUE, good |-> Goods(IF r.yaw THEN 1 ELSE 0)] :
     r \in Reading} \cup
  {[seen |-> FALSE, at |-> Nowhere, fresh |-> FALSE, good |-> Goods(more)] :
     more \in {0, 1}}

(* resetYawStableCounter *)
(* mutant: the reading that was counted last is not remembered *)
ResetCountOnly(sensed) == sensed
ResetYaw(sensed) == [sensed EXCEPT !.fresh = FALSE]

(* yawReachedForStableFrames: a reading counts once. *)
Counted(sensed) ==
  IF ~sensed.fresh THEN stable
  ELSE IF sensed.at.yaw THEN AtMost(stable + 1, StableFrames) ELSE 0
YawReached(sensed) == Counted(sensed) >= StableFrames

Running == calls[Len(calls)]
Below == SubSeq(calls, 1, Len(calls) - 1)
KeepsRunning(since, inner) ==
  calls' = Append(Below, [Running EXCEPT !.since = since, !.inner = inner])

-----------------------------------------------------------------------------
(* A request: rejected while another is active, otherwise the start of     *)
(* the loop.  It is handled between two spins of the one that runs.        *)
(* mutant: the guard that clears control_active_ is made before the test *)
RejectAndClear == active' = FALSE
Reject == UNCHANGED active

HandleSetTargetY(r) ==
  /\ answer[r] = "called"
  /\ IF active
     THEN /\ answer' = [answer EXCEPT ![r] = "rejected"]
          /\ Reject
          /\ UNCHANGED <<tag, state, stable, target, calls, vel>>
     ELSE /\ active' = TRUE /\ target' = r
          /\ state' = "ROTATING" /\ stable' = 0
          /\ \E at \in IF tag.seen THEN Reading ELSE {Nowhere} :  \* a new target
               tag' = ResetYaw([tag EXCEPT !.at = at, !.good = 0])
          /\ calls' = Append(calls, [req |-> r, since |-> Unset, inner |-> 0])
          /\ answer' = [answer EXCEPT ![r] = "served"]
          /\ UNCHANGED vel

(* publishStop, notifyMotionFinished, return. *)
End(sensed, result) ==
  /\ answer' = [answer EXCEPT ![Running.req] = result]
  /\ calls' = Below /\ active' = FALSE
  /\ vel' = "stop" /\ tag' = sensed
  /\ UNCHANGED <<state, stable, target>>

(* publishStop and on to the next state. *)
Switch(sensed, to) ==
  /\ state' = to /\ stable' = 0 /\ tag' = ResetYaw(sensed)
  /\ vel' = "stop" /\ KeepsRunning(Unset, 0)
  /\ UNCHANGED <<target, active, answer>>

(* One more command in the same state, where count says what has become    *)
(* of yaw_stable_count_. *)
Command(sensed, velocity) ==
  /\ IF state = "CORRECTING_X"
     THEN stable' = stable /\ tag' = sensed
     ELSE stable' = Counted(sensed) /\ tag' = [sensed EXCEPT !.fresh = FALSE]
  /\ vel' = velocity /\ KeepsRunning(Unset, 0)
  /\ UNCHANGED <<state, target, active, answer>>

Rotate(sensed) ==
  /\ state = "ROTATING"
  /\ IF YawReached(sensed) THEN Switch(sensed, "CORRECTING_X")
                           ELSE Command(sensed, "move")
CorrectX(sensed) ==
  /\ state = "CORRECTING_X"
  /\ IF sensed.at.x THEN Switch(sensed, "MOVING_Y_YAW") ELSE Command(sensed, "move")
MoveYYaw(sensed) ==
  /\ state = "MOVING_Y_YAW"
  /\ IF ~sensed.at.y THEN Command(sensed, "move")
     ELSE IF sensed.at.x THEN End(sensed, "success")
     ELSE Switch(sensed, "FINAL_CORRECTING_X")
FinalCorrectX(sensed) ==
  /\ state = "FINAL_CORRECTING_X"
  /\ IF ~sensed.at.x THEN Command(sensed, "move")
     ELSE IF ~FinalRecheck \/ (sensed.at.y /\ YawReached(sensed))
          THEN End(sensed, "success")
     ELSE IF ~sensed.at.y \/ ~sensed.at.yaw THEN Switch(sensed, "MOVING_Y_YAW")
     ELSE Command(sensed, "stop")

(* The tag is not seen: stop, and look for it in the inner loop. *)
(* mutant: invalid_since is taken in every round of the outer loop *)
SinceAgain == 0
Since == IF Running.since = Unset THEN 0 ELSE Running.since

Lose(sensed) ==
  /\ vel' = "stop" /\ tag' = sensed /\ KeepsRunning(Since, 1)
  /\ UNCHANGED <<state, stable, target, active, answer>>

Round ==
  /\ calls # <<>> /\ Running.inner = 0
  /\ \E sensed \in Spins :
       \/ ~sensed.seen /\ Lose(sensed)
       \/ /\ sensed.seen
          /\ \/ Rotate(sensed) \/ CorrectX(sensed)
             \/ MoveYYaw(sensed) \/ FinalCorrectX(sensed)

NextRound(inner) == IF inner = InnerRounds THEN 0 ELSE inner + 1

Recover(sensed) ==
  /\ sensed.seen
  /\ vel' = "stop" /\ tag' = sensed /\ KeepsRunning(Unset, 0)
  /\ UNCHANGED <<state, stable, target, active, answer>>
KeepLooking(sensed) ==
  /\ ~sensed.seen /\ Running.since + 1 < TagAbortTimeout
  /\ vel' = "stop" /\ tag' = sensed
  /\ KeepsRunning(Running.since + 1, NextRound(Running.inner))
  /\ UNCHANGED <<state, stable, target, active, answer>>
Abort(sensed) ==
  /\ ~sensed.seen /\ Running.since + 1 >= TagAbortTimeout
  /\ End(sensed, "failed")

InnerRound ==
  /\ calls # <<>> /\ Running.inner > 0
  /\ \E sensed \in Spins : Recover(sensed) \/ KeepLooking(sensed) \/ Abort(sensed)

TagStep ==
  \/ \E r \in Requests : HandleSetTargetY(r)
  \/ Round
  \/ InnerRound

-----------------------------------------------------------------------------
(* A request succeeds for its own target, although others come in while it *)
(* is served: handled on top of it, they are turned away and leave it      *)
(* alone.                                                                  *)
SuccessIsOwn ==
  [][\A r \in Requests :
       answer[r] # "success" /\ answer'[r] = "success" =>
         target = r /\ calls[1].req = r]_tagVars

(* The robot leaves the rotation, and so succeeds, only after it has seen  *)
(* itself aligned StableFrames times since the request: readings of the    *)
(* request before, with another target, count for nothing.                 *)
AlignedFirst ==
  calls # <<>> /\ state # "ROTATING" => tag.good >= StableFrames

(* A tag that is lost for good ends every request, whenever it was lost.   *)
(* (One that is seen for a moment now and then holds a request for ever.)  *)
LostTagAborts == <>[]~tag.seen => <>[](calls = <<>>)
=============================================================================
