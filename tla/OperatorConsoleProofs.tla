------------------------ MODULE OperatorConsoleProofs -----------------------
(***************************************************************************)
(* What holds of the operator's console and of the docking service below   *)
(* it, for any number of requests, loops and messages, and for any number  *)
(* of frames and rounds that docking is set to ask for.                    *)
(***************************************************************************)
EXTENDS OperatorConsole, SequenceTheorems, TLAPS

(* One handler at most is on the stack: a second request is turned away.   *)
OneCall ==
  /\ Len(calls) <= 1 /\ (active <=> calls # <<>>)
  /\ calls # <<>> => target = calls[1].req /\ answer[calls[1].req] = "served"
  /\ calls = <<>> => vel = "stop"

(* What is counted has been seen since the request.                        *)
Aligned ==
  calls # <<>> => IF state = "ROTATING" THEN stable <= tag.good /\ Counted(tag) <= tag.good
                                        ELSE tag.good >= StableFrames
TagInv == TagOK /\ OneCall /\ Aligned

(* Every call of plan_path_and_go is waited for by a thread of its own.    *)
InLine ==
  /\ \A i \in 1 .. Len(plans) : thread[plans[i]] = "calling" /\ plans[i] # mission
  /\ \A i, j \in 1 .. Len(plans) : plans[i] = plans[j] => i = j
  /\ mission # Nobody => thread[mission] = "calling"

(* A loop that has begun and is not over is the one that is shown, or has  *)
(* been told to stop; and a signal comes from a loop that is over.         *)
Generations ==
  /\ LoopIsShown /\ (loop = "running" => current # Nobody)
  /\ \A k \in Loops : thread[k] \notin {"idle", "done"} => k = current \/ k \in stop
  /\ \A k \in signals : thread[k] = "done"

(* What an emergency stop leaves under way can only end.  It is cancelled; *)
(* or the request of its pause is on the way or has come, and no mission   *)
(* is behind the pause loop or can leave it, where it would clear it.      *)
Pausing ==
  /\ joyPc \in {"", "paused"} /\ place # "resumed"
  /\ reentry \/ place = "paused" => paused
  /\ joy # <<>> \/ joyPc = "paused" \/ reentry
Still ==
  /\ loop = "off" /\ AtMostOne /\ ~DockingUnderWay
  /\ \A i \in DOMAIN joy : joy[i] = "pause"
  /\ UnderWay = {} \/ cancel \/ Pausing
HeldIsStill == held => Still

Types ==
  /\ work \in Works /\ estop \in BOOLEAN /\ loop \in {"off", "waiting", "running"}
  /\ current \in Loops \cup {Nobody} /\ stop \subseteq Loops /\ signals \subseteq Loops
  /\ thread \in [Callers -> Stage]
  /\ joy \in Seq({"pause", "resume"}) /\ cancels \in [Loops -> Call]
  /\ plans \in Seq(Callers) /\ mission \in Callers \cup {Nobody}
  /\ place \in Place /\ (place = "none" <=> mission = Nobody)
  /\ paused \in BOOLEAN /\ reentry \in BOOLEAN /\ cancel \in BOOLEAN /\ held \in BOOLEAN
  /\ joyPc \in {"", "paused", "canceled", "unpaused"} /\ (joyPc = "paused" => paused)
IInv == Types /\ TagInv /\ InLine /\ Generations /\ HeldIsStill
-----------------------------------------------------------------------------
Tags == [seen : BOOLEAN, at : Reading, fresh : BOOLEAN, good : 0 .. StableFrames]
CallRecords == [req : Requests, since : Unset .. TagAbortTimeout - 1, inner : 0 .. InnerRounds]

LEMMA GoodsGrow ==
  ASSUME tag \in Tags, NEW more \in {0, 1}
  PROVE  /\ Goods(more) \in 0 .. StableFrames /\ Goods(more) >= tag.good
         /\ tag.good + more >= StableFrames => Goods(more) = StableFrames
         /\ tag.good + more < StableFrames => Goods(more) = tag.good + more
<1>1. tag.good \in 0 .. StableFrames
  BY DEF Tags
<1> QED BY <1>1, FramesAssumption DEF Goods, AtMost

(* What ros::spinOnce takes over, only adds to the good readings.          *)
LEMMA SpinsAreTags ==
  ASSUME tag \in Tags, NEW sensed \in Spins
  PROVE  /\ sensed \in Tags /\ sensed.good >= tag.good
         /\ sensed = tag \/ ~sensed.fresh
            \/ sensed.good = Goods(IF sensed.at.yaw THEN 1 ELSE 0)
<1>1. CASE sensed = tag
  <2>1. tag.good \in 0 .. StableFrames
    BY DEF Tags
  <2> QED BY <1>1, <2>1
<1>2. CASE \E r \in Reading :
             sensed = [seen |-> TRUE, at |-> r, fresh |-> TRUE,
                       good |-> Goods(IF r.yaw THEN 1 ELSE 0)]
  <2>1. PICK r \in Reading :
             sensed = [seen |-> TRUE, at |-> r, fresh |-> TRUE,
                       good |-> Goods(IF r.yaw THEN 1 ELSE 0)]
    BY <1>2
  <2> DEFINE more == IF r.yaw THEN 1 ELSE 0
  <2>2. more \in {0, 1}
    OBVIOUS
  <2>3. Goods(more) \in 0 .. StableFrames /\ Goods(more) >= tag.good
    BY <2>2, GoodsGrow
  <2>4. sensed.at = r /\ sensed.good = Goods(more)
    BY <2>1
  <2> QED BY <2>1, <2>3, <2>4 DEF Tags
<1>3. CASE \E more \in {0, 1} :
             sensed = [seen |-> FALSE, at |-> Nowhere, fresh |-> FALSE, good |-> Goods(more)]
  <2>1. PICK more \in {0, 1} :
             sensed = [seen |-> FALSE, at |-> Nowhere, fresh |-> FALSE, good |-> Goods(more)]
    BY <1>3
  <2>2. Goods(more) \in 0 .. StableFrames /\ Goods(more) >= tag.good
    BY GoodsGrow
  <2>3. Nowhere \in Reading
    BY DEF Nowhere, Reading
  <2> QED BY <2>1, <2>2, <2>3 DEF Tags
<1> QED BY <1>1, <1>2, <1>3 DEF Spins

(* A reading counts once, and only what has been seen counts.              *)
LEMMA CountIsSeen ==
  ASSUME tag \in Tags, stable \in 0 .. StableFrames, NEW sensed \in Spins,
         stable <= tag.good, Counted(tag) <= tag.good
  PROVE  Counted(sensed) <= sensed.good
<1>1. /\ sensed \in Tags /\ sensed.good >= tag.good
      /\ sensed = tag \/ ~sensed.fresh \/ sensed.good = Goods(IF sensed.at.yaw THEN 1 ELSE 0)
  BY SpinsAreTags
<1>2. tag.good \in 0 .. StableFrames /\ sensed.good \in 0 .. StableFrames
  BY <1>1 DEF Tags
<1>3. CASE sensed = tag
  BY <1>3
<1>4. CASE ~sensed.fresh
  BY <1>1, <1>2, <1>4 DEF Counted
<1>5. CASE sensed.fresh /\ sensed.good = Goods(IF sensed.at.yaw THEN 1 ELSE 0)
  <2>1. CASE sensed.at.yaw
    <3>1. sensed.good = Goods(1)
      BY <1>5, <2>1
    <3>2. Counted(sensed) = AtMost(stable + 1, StableFrames)
      BY <1>5, <2>1 DEF Counted
    <3> QED BY <1>2, <3>1, <3>2, FramesAssumption DEF Goods, AtMost
  <2>2. CASE ~sensed.at.yaw
    BY <1>2, <1>5, <2>2 DEF Counted
  <2> QED BY <2>1, <2>2
<1> QED BY <1>1, <1>3, <1>4, <1>5

LEMMA CountedType ==
  ASSUME stable \in 0 .. StableFrames, NEW sensed \in Tags
  PROVE  Counted(sensed) \in 0 .. StableFrames
BY FramesAssumption DEF Counted, AtMost

-----------------------------------------------------------------------------
(* The steps of the handler.                                               *)
Own == \A r \in Requests :
         answer[r] # "success" /\ answer'[r] = "success" => target = r /\ calls[1].req = r

LEMMA TagParts ==
  ASSUME TagInv
  PROVE  /\ tag \in Tags /\ tag.good \in 0 .. StableFrames /\ state \in State
         /\ stable \in 0 .. StableFrames /\ vel \in {"move", "stop"}
         /\ target \in Requests \cup {None} /\ active \in BOOLEAN
         /\ calls \in Seq(CallRecords)
         /\ answer \in [Requests -> {"open", "called", "served", "success", "failed",
                                     "rejected"}]
<1>1. tag \in Tags
  BY DEF TagInv, TagOK, Tags
<1>2. tag.good \in 0 .. StableFrames
  BY <1>1 DEF Tags
<1> QED BY <1>1, <1>2 DEF TagInv, TagOK, CallRecords

LEMMA OneRuns ==
  ASSUME TagInv, calls # <<>>
  PROVE  /\ Len(calls) = 1 /\ Running = calls[1] /\ Running \in CallRecords
         /\ Below = <<>> /\ target = Running.req /\ answer[Running.req] = "served"
<1>1. calls \in Seq(CallRecords) /\ Len(calls) <= 1
  BY TagParts DEF TagInv, OneCall
<1>2. Len(calls) = 1
  BY <1>1, EmptySeq
<1>3. Running = calls[1] /\ Running \in CallRecords
  BY <1>1, <1>2 DEF Running
<1>4. Below = <<>>
  BY <1>1, <1>2 DEF Below
<1> QED BY <1>2, <1>3, <1>4 DEF TagInv, OneCall

LEMMA CallGoesOn ==
  ASSUME TagInv, calls # <<>>, NEW since \in Unset .. TagAbortTimeout - 1,
         NEW inner \in 0 .. InnerRounds, KeepsRunning(since, inner)
  PROVE  /\ calls' \in Seq(CallRecords) /\ Len(calls') = 1
         /\ calls'[1].req = calls[1].req
<1> DEFINE c == [Running EXCEPT !.since = since, !.inner = inner]
<1>1. c \in CallRecords /\ c.req = Running.req
  BY OneRuns DEF CallRecords
<1>2. calls' = Append(<<>>, c)
  BY OneRuns DEF KeepsRunning
<1> HIDE DEF c
<1>3. calls' = <<c>>
  BY <1>2
<1> QED BY <1>1, <1>3, OneRuns

(* A step after which the handler still runs.                              *)
LEMMA RunsOn ==
  ASSUME TagInv, calls # <<>>,
         NEW since \in Unset .. TagAbortTimeout - 1, NEW inner \in 0 .. InnerRounds,
         KeepsRunning(since, inner), UNCHANGED <<target, active, answer>>,
         vel' \in {"move", "stop"}, state' \in State,
         stable' \in 0 .. StableFrames, tag' \in Tags,
         IF state' = "ROTATING" THEN stable' <= tag'.good /\ Counted(tag)' <= tag'.good
                                ELSE tag'.good >= StableFrames
  PROVE  TagInv' /\ Own
<1>1. /\ calls' \in Seq(CallRecords) /\ Len(calls') = 1
      /\ calls'[1].req = calls[1].req
  BY CallGoesOn
<1>2. calls' # <<>>
  <2>1. ASSUME calls' = <<>>
        PROVE  Len(calls') = 0
    BY <2>1, EmptySeq
  <2> QED BY <1>1, <2>1
<1>3. TagOK'
  BY <1>1, TagParts DEF TagOK, Tags, CallRecords
<1>4. OneCall'
  BY <1>1, <1>2 DEF TagInv, OneCall
<1>5. Aligned'
  BY DEF Aligned
<1> QED BY <1>3, <1>4, <1>5 DEF TagInv, Own

LEMMA EndKeeps ==
  ASSUME TagInv, calls # <<>>, NEW sensed \in Tags, NEW result \in {"success", "failed"},
         End(sensed, result)
  PROVE  TagInv' /\ Own
<1>1. /\ answer' = [answer EXCEPT ![Running.req] = result]
      /\ calls' = <<>> /\ active' = FALSE /\ vel' = "stop" /\ tag' = sensed
      /\ UNCHANGED <<state, stable, target>>
  BY OneRuns DEF End
<1>2. Running.req \in Requests /\ target = Running.req /\ Running = calls[1]
  BY OneRuns DEF CallRecords
<1>3. TagOK'
  <2>1. calls' \in Seq(CallRecords)
    BY <1>1
  <2> QED BY <1>1, <1>2, <2>1, TagParts DEF TagOK, Tags, CallRecords
<1>4. OneCall'
  <2>1. Len(calls') <= 1
    BY <1>1
  <2> QED BY <1>1, <2>1 DEF OneCall
<1>5. Aligned'
  BY <1>1 DEF Aligned
<1>6. Own
  BY <1>1, <1>2, TagParts DEF Own
<1> QED BY <1>3, <1>4, <1>5, <1>6 DEF TagInv

LEMMA SwitchKeeps ==
  ASSUME TagInv, calls # <<>>, NEW sensed \in Spins, NEW to \in State \ {"ROTATING"},
         sensed.good >= StableFrames, Switch(sensed, to)
  PROVE  TagInv' /\ Own
<1>1. sensed \in Tags
  BY TagParts, SpinsAreTags
<1>2. tag' = [sensed EXCEPT !.fresh = FALSE]
  BY DEF Switch, ResetYaw
<1>3. tag' \in Tags /\ tag'.good = sensed.good
  BY <1>1, <1>2 DEF Tags
<1>4. /\ state' = to /\ stable' = 0 /\ vel' = "stop" /\ KeepsRunning(Unset, 0)
      /\ UNCHANGED <<target, active, answer>>
  BY DEF Switch
<1>5. Unset \in Unset .. TagAbortTimeout - 1 /\ 0 \in 0 .. InnerRounds
      /\ 0 \in 0 .. StableFrames
  BY TimeoutAssumption, FramesAssumption DEF Unset
<1> QED BY <1>3, <1>4, <1>5, RunsOn

LEMMA CommandKeeps ==
  ASSUME TagInv, calls # <<>>, NEW sensed \in Spins, NEW velocity \in {"move", "stop"},
         Command(sensed, velocity)
  PROVE  TagInv' /\ Own
<1>1. sensed \in Tags /\ sensed.good >= tag.good
  BY TagParts, SpinsAreTags
<1>2. /\ vel' = velocity /\ KeepsRunning(Unset, 0) /\ state' = state
      /\ UNCHANGED <<target, active, answer>>
  BY DEF Command
<1>3. /\ tag' \in Tags /\ tag'.good = sensed.good
      /\ \/ state = "CORRECTING_X" /\ stable' = stable
         \/ state # "CORRECTING_X" /\ stable' = Counted(sensed) /\ ~tag'.fresh
  <2>1. CASE state = "CORRECTING_X"
    BY <1>1, <2>1 DEF Command
  <2>2. CASE state # "CORRECTING_X"
    <3>1. tag' = [sensed EXCEPT !.fresh = FALSE] /\ stable' = Counted(sensed)
      BY <2>2 DEF Command
    <3>2. tag' \in Tags /\ tag'.good = sensed.good /\ ~tag'.fresh
      BY <1>1, <3>1 DEF Tags
    <3> QED BY <2>2, <3>1, <3>2
  <2> QED BY <2>1, <2>2
<1>4. stable' \in 0 .. StableFrames
  BY <1>1, <1>3, TagParts, CountedType
<1>5. state = "ROTATING" => stable' <= tag'.good /\ Counted(tag)' <= tag'.good
  <2> SUFFICES ASSUME state = "ROTATING"
               PROVE  stable' <= tag'.good /\ Counted(tag)' <= tag'.good
    OBVIOUS
  <2>1. stable <= tag.good /\ Counted(tag) <= tag.good
    BY DEF TagInv, Aligned
  <2>2. Counted(sensed) <= sensed.good
    BY <2>1, TagParts, CountIsSeen
  <2>3. stable' = Counted(sensed) /\ ~tag'.fresh
    BY <1>3
  <2>4. Counted(tag)' = stable'
    BY <2>3 DEF Counted
  <2> QED BY <1>3, <2>2, <2>3, <2>4
<1>6. state # "ROTATING" => tag'.good >= StableFrames
  <2>1. state # "ROTATING" => tag.good >= StableFrames
    BY DEF TagInv, Aligned
  <2>2. tag.good \in Int /\ sensed.good \in Int /\ StableFrames \in Int
    BY <1>1, TagParts, FramesAssumption DEF Tags
  <2> QED BY <1>1, <1>3, <2>1, <2>2
<1>7. Unset \in Unset .. TagAbortTimeout - 1 /\ 0 \in 0 .. InnerRounds
  BY TimeoutAssumption DEF Unset
<1> QED BY <1>2, <1>3, <1>4, <1>5, <1>6, <1>7, TagParts, RunsOn

(* A step that only looks: in the inner loop, or into it.                  *)
LEMMA LookKeeps ==
  ASSUME TagInv, calls # <<>>, NEW sensed \in Spins,
         NEW since \in Unset .. TagAbortTimeout - 1, NEW inner \in 0 .. InnerRounds,
         KeepsRunning(since, inner), tag' = sensed, vel' = "stop",
         UNCHANGED <<state, stable, target, active, answer>>
  PROVE  TagInv' /\ Own
<1>1. sensed \in Tags /\ sensed.good >= tag.good /\ sensed.good \in 0 .. StableFrames
  <2>1. sensed \in Tags /\ sensed.good >= tag.good
    BY TagParts, SpinsAreTags
  <2> QED BY <2>1 DEF Tags
<1>2. state = "ROTATING" => stable' <= tag'.good /\ Counted(tag)' <= tag'.good
  <2> SUFFICES ASSUME state = "ROTATING"
               PROVE  stable' <= tag'.good /\ Counted(tag)' <= tag'.good
    OBVIOUS
  <2>1. stable <= tag.good /\ Counted(tag) <= tag.good
    BY DEF TagInv, Aligned
  <2>2. Counted(sensed) <= sensed.good
    BY <2>1, TagParts, CountIsSeen
  <2>3. Counted(tag)' = Counted(sensed)
    BY DEF Counted
  <2>4. stable \in Int /\ tag.good \in Int
    BY TagParts
  <2> QED BY <1>1, <2>1, <2>2, <2>3, <2>4
<1>3. state # "ROTATING" => tag'.good >= StableFrames
  BY <1>1, TagParts, FramesAssumption DEF TagInv, Aligned
<1> QED BY <1>1, <1>2, <1>3, TagParts, RunsOn

(* A round of the outer loop with the tag in sight.                        *)
LEMMA SightKeeps ==
  ASSUME TagInv, calls # <<>>, NEW sensed \in Spins,
         Rotate(sensed) \/ CorrectX(sensed) \/ MoveYYaw(sensed) \/ FinalCorrectX(sensed)
  PROVE  TagInv' /\ Own
<1>1. sensed \in Tags /\ sensed.good >= tag.good /\ sensed.good \in 0 .. StableFrames
  <2>1. sensed \in Tags /\ sensed.good >= tag.good
    BY TagParts, SpinsAreTags
  <2> QED BY <2>1 DEF Tags
<1>2. CASE \E velocity \in {"move", "stop"} : Command(sensed, velocity)
  BY <1>2, CommandKeeps
<1>3. CASE End(sensed, "success")
  BY <1>1, <1>3, EndKeeps
<1>4. CASE state # "ROTATING" /\ \E to \in State \ {"ROTATING"} : Switch(sensed, to)
  <2>1. sensed.good >= StableFrames
    BY <1>1, <1>4, TagParts, FramesAssumption DEF TagInv, Aligned
  <2> QED BY <1>4, <2>1, SwitchKeeps
<1>5. {"CORRECTING_X", "MOVING_Y_YAW", "FINAL_CORRECTING_X"} \subseteq State \ {"ROTATING"}
  BY DEF State
<1>6. CASE Rotate(sensed)
  <2>1. CASE Switch(sensed, "CORRECTING_X") /\ YawReached(sensed)
    <3>1. stable <= tag.good /\ Counted(tag) <= tag.good
      BY <1>6 DEF Rotate, TagInv, Aligned
    <3>2. Counted(sensed) <= sensed.good /\ Counted(sensed) >= StableFrames
      BY <2>1, <3>1, TagParts, CountIsSeen DEF YawReached
    <3>3. Counted(sensed) \in 0 .. StableFrames
      BY <1>1, TagParts, CountedType
    <3>4. sensed.good >= StableFrames
      BY <1>1, <3>2, <3>3, FramesAssumption
    <3> QED BY <1>5, <2>1, <3>4, SwitchKeeps
  <2> QED BY <1>2, <1>6, <2>1 DEF Rotate
<1>7. CASE CorrectX(sensed)
  BY <1>2, <1>4, <1>5, <1>7 DEF CorrectX
<1>8. CASE MoveYYaw(sensed)
  BY <1>2, <1>3, <1>4, <1>5, <1>8 DEF MoveYYaw
<1>9. CASE FinalCorrectX(sensed)
  BY <1>2, <1>3, <1>4, <1>5, <1>9 DEF FinalCorrectX
<1> QED BY <1>6, <1>7, <1>8, <1>9

LEMMA RoundKeeps ==
  ASSUME TagInv, Round
  PROVE  TagInv' /\ Own
<1>1. calls # <<>>
  BY DEF Round
<1>2. ASSUME NEW sensed \in Spins, Lose(sensed)
      PROVE  TagInv' /\ Own
  <2>1. Running \in CallRecords
    BY <1>1, OneRuns
  <2>2. Since \in Unset .. TagAbortTimeout - 1 /\ 1 \in 0 .. InnerRounds
    <3>1. Running.since \in Unset .. TagAbortTimeout - 1
      BY <2>1 DEF CallRecords
    <3> QED BY <3>1, TimeoutAssumption DEF Since, Unset
  <2> QED BY <1>1, <1>2, <2>2, LookKeeps DEF Lose
<1> QED BY <1>1, <1>2, SightKeeps DEF Round

LEMMA InnerRoundKeeps ==
  ASSUME TagInv, InnerRound
  PROVE  TagInv' /\ Own
<1>1. calls # <<>> /\ Running \in CallRecords
  BY OneRuns DEF InnerRound
<1>2. PICK sensed \in Spins : Recover(sensed) \/ KeepLooking(sensed) \/ Abort(sensed)
  BY DEF InnerRound
<1>3. CASE Recover(sensed)
  <2>1. Unset \in Unset .. TagAbortTimeout - 1 /\ 0 \in 0 .. InnerRounds
    BY TimeoutAssumption DEF Unset
  <2> QED BY <1>1, <1>3, <2>1, LookKeeps DEF Recover
<1>4. CASE KeepLooking(sensed)
  <2>1. Running.since \in Unset .. TagAbortTimeout - 1 /\ Running.inner \in 0 .. InnerRounds
    BY <1>1 DEF CallRecords
  <2>2. Running.since + 1 \in Unset .. TagAbortTimeout - 1
    BY <1>4, <2>1, TimeoutAssumption DEF KeepLooking, Unset
  <2>3. NextRound(Running.inner) \in 0 .. InnerRounds
    BY <2>1, TimeoutAssumption DEF NextRound
  <2> QED BY <1>1, <1>4, <2>2, <2>3, LookKeeps DEF KeepLooking
<1>5. CASE Abort(sensed)
  <2>1. sensed \in Tags
    BY TagParts, SpinsAreTags
  <2> QED BY <1>1, <1>5, <2>1, EndKeeps DEF Abort
<1> QED BY <1>2, <1>3, <1>4, <1>5

(* A request that comes in, perhaps while another one is served.           *)
LEMMA HandleKeeps ==
  ASSUME TagInv, NEW r \in Requests, HandleSetTargetY(r)
  PROVE  TagInv' /\ Own
<1>1. CASE active
  <2>1. /\ answer' = [answer EXCEPT ![r] = "rejected"] /\ active' = active
        /\ UNCHANGED <<tag, state, stable, target, calls, vel>>
    BY <1>1 DEF HandleSetTargetY, Reject
  <2>2. calls # <<>> /\ answer[r] = "called" /\ answer[calls[1].req] = "served"
    BY <1>1 DEF HandleSetTargetY, TagInv, OneCall
  <2>3. answer'[calls[1].req] = "served"
    <3>1. calls[1].req \in Requests
      BY <2>2, OneRuns DEF CallRecords
    <3> QED BY <2>1, <2>2, <3>1, TagParts
  <2>4. TagOK'
    BY <2>1, TagParts DEF TagOK, Tags, CallRecords
  <2>5. OneCall' /\ Aligned'
    BY <2>1, <2>2, <2>3 DEF TagInv, OneCall, Aligned, Counted
  <2>6. Own
    BY <2>1, TagParts DEF Own
  <2> QED BY <2>4, <2>5, <2>6 DEF TagInv
<1>2. CASE ~active
  <2> DEFINE c == [req |-> r, since |-> Unset, inner |-> 0]
  <2>1. /\ active' = TRUE /\ target' = r /\ state' = "ROTATING" /\ stable' = 0
        /\ calls' = Append(calls, c) /\ answer' = [answer EXCEPT ![r] = "served"]
        /\ vel' = vel
    BY <1>2 DEF HandleSetTargetY
  <2>2. PICK at \in Reading : tag' = ResetYaw([tag EXCEPT !.at = at, !.good = 0])
    <3>1. Nowhere \in Reading
      BY DEF Nowhere, Reading
    <3> QED BY <1>2, <3>1 DEF HandleSetTargetY
  <2>3. 0 \in 0 .. StableFrames /\ 0 \in 0 .. InnerRounds
        /\ Unset \in Unset .. TagAbortTimeout - 1
    BY FramesAssumption, TimeoutAssumption DEF Unset
  <2>4. tag' \in Tags /\ tag'.good = 0 /\ ~tag'.fresh
    BY <2>2, <2>3, TagParts DEF ResetYaw, Tags
  <2>5. calls = <<>>
    BY <1>2 DEF TagInv, OneCall
  <2>6. c \in CallRecords /\ c.req = r
    BY <2>3 DEF CallRecords
  <2> HIDE DEF c
  <2>7. calls' = <<c>>
    BY <2>1, <2>5
  <2>8. TagOK'
    <3>1. "ROTATING" \in State /\ calls' \in Seq(CallRecords)
      BY <2>6, <2>7 DEF State
    <3> QED BY <2>1, <2>3, <2>4, <3>1, TagParts DEF TagOK, Tags, CallRecords
  <2>9. OneCall'
    <3>1. Len(calls') = 1 /\ calls'[1] = c /\ calls' # <<>>
      BY <2>7
    <3>2. answer'[r] = "served"
      BY <2>1, TagParts
    <3> QED BY <2>1, <2>6, <3>1, <3>2 DEF OneCall
  <2>10. Aligned'
    <3>1. Counted(tag)' = 0
      BY <2>1, <2>4 DEF Counted
    <3> QED BY <2>1, <2>4, <3>1 DEF Aligned
  <2>11. Own
    BY <2>1, TagParts DEF Own
  <2> QED BY <2>8, <2>9, <2>10, <2>11 DEF TagInv
<1> QED BY <1>1, <1>2

LEMMA TagStepKeeps ==
  ASSUME TagInv, TagStep
  PROVE  TagInv' /\ Own
BY HandleKeeps, RoundKeeps, InnerRoundKeeps DEF TagStep

(* The console calls the service, and does nothing else to it.             *)
LEMMA SlowMoveKeeps ==
  ASSUME TagInv, NEW r \in Requests, SlowMove(r)
  PROVE  TagInv' /\ Own
<1>1. /\ answer' = [answer EXCEPT ![r] = "called"]
      /\ UNCHANGED <<tag, state, stable, target, active, calls, vel>>
  BY DEF SlowMove
<1>2. answer[r] = "open"
  BY DEF SlowMove, Requests
<1>3. calls # <<>> => answer'[calls[1].req] = "served"
  <2> SUFFICES ASSUME calls # <<>> PROVE answer'[calls[1].req] = "served"
    OBVIOUS
  <2>1. calls[1].req \in Requests /\ answer[calls[1].req] = "served"
    BY OneRuns DEF CallRecords
  <2> QED BY <1>1, <1>2, <2>1, TagParts
<1>4. TagOK'
  BY <1>1, TagParts DEF TagOK, Tags, CallRecords
<1>5. OneCall' /\ Aligned'
  BY <1>1, <1>3 DEF TagInv, OneCall, Aligned, Counted
<1>6. Own
  BY <1>1, TagParts DEF Own
<1> QED BY <1>4, <1>5, <1>6 DEF TagInv

LEMMA TagUnchanged ==
  ASSUME TagInv, UNCHANGED tagVars
  PROVE  TagInv' /\ Own
BY DEF TagInv, TagOK, OneCall, Aligned, Counted, Own, tagVars

-----------------------------------------------------------------------------
(* Threads and calls.                                                      *)
LEMMA LoopsAreCallers ==
  /\ \A k \in Loops : k \in Callers /\ k # Nobody /\ k \in Nat
  /\ \A c \in Callers : c # Nobody /\ c \in Nat
  /\ Goto \in Callers /\ Goto \notin Loops /\ Nobody \notin Callers
BY BoundAssumption DEF Loops, Callers, Goto, Nobody

(* Sequences over a set: the line of calls and the messages on /joy.       *)
LEMMA SeqParts ==
  ASSUME NEW S, NEW s \in Seq(S)
  PROVE  Len(s) \in Nat /\ \A i \in 1 .. Len(s) : s[i] \in S
OBVIOUS

LEMMA TailInSeq ==
  ASSUME NEW S, NEW s \in Seq(S), s # <<>>
  PROVE  Tail(s) \in Seq(S)
OBVIOUS

LEMMA AppendInSeq ==
  ASSUME NEW S, NEW s \in Seq(S), NEW e \in S
  PROVE  /\ Append(s, e) \in Seq(S) /\ Len(Append(s, e)) = Len(s) + 1
         /\ Append(s, e)[Len(s) + 1] = e
         /\ \A i \in 1 .. Len(s) : Append(s, e)[i] = s[i]
OBVIOUS

LEMMA EmptyInSeq ==
  ASSUME NEW S
  PROVE  <<>> \in Seq(S)
OBVIOUS

LEMMA LineParts ==
  ASSUME Types
  PROVE  /\ joy \in Seq({"pause", "resume"}) /\ plans \in Seq(Callers)
         /\ Len(plans) \in Nat /\ \A i \in 1 .. Len(plans) : plans[i] \in Callers
         /\ thread \in [Callers -> Stage] /\ mission \in Callers \cup {Nobody}
<1>1. /\ joy \in Seq({"pause", "resume"}) /\ plans \in Seq(Callers)
      /\ thread \in [Callers -> Stage] /\ mission \in Callers \cup {Nobody}
  BY Zenon DEF Types
<1> QED BY <1>1, SeqParts, Zenon

(* A thread that is not in a call takes a step.                            *)
LEMMA ThreadKeepsLine ==
  ASSUME Types, InLine, NEW c \in Callers, thread[c] # "calling",
         NEW stage, thread' = [thread EXCEPT ![c] = stage],
         UNCHANGED <<plans, mission>>
  PROVE  InLine'
<1>1. \A i \in 1 .. Len(plans) : plans[i] \in Callers
  BY LineParts
<1>2. \A d \in Callers : d # c => thread'[d] = thread[d]
  BY LineParts
<1>3. mission # Nobody => mission \in Callers
  BY LineParts
<1> QED BY <1>1, <1>2, <1>3 DEF InLine

LEMMA LineUnchanged ==
  ASSUME InLine, UNCHANGED <<thread, plans, mission>>
  PROVE  InLine'
BY DEF InLine

(* The answer to the call that is served, or to the first in the line.     *)
LEMMA AnswerKeepsLine ==
  ASSUME Types, InLine, NEW c \in Callers, NEW result, Answer(c, result),
         \A i \in 1 .. Len(plans') : plans'[i] # c /\ thread[plans'[i]] = "calling"
                                     /\ plans'[i] \in Callers,
         \A i, j \in 1 .. Len(plans') : plans'[i] = plans'[j] => i = j,
         mission' = Nobody
  PROVE  InLine'
<1>1. \A d \in Callers : d # c => thread'[d] = thread[d]
  BY DEF Types, Answer, Goes
<1>2. Nobody \notin Callers
  BY LoopsAreCallers
<1> QED BY <1>1, <1>2 DEF InLine

LEMMA PlanPathKeepsLine ==
  ASSUME Types, InLine, PlanPath
  PROVE  InLine' /\ Head(plans) \in Callers /\ thread[Head(plans)] = "calling"
<1>1. mission = Nobody /\ plans # <<>> /\ plans' = Tail(plans) /\ plans \in Seq(Callers)
  BY DEF PlanPath, Types
<1>2. /\ Len(plans) >= 1 /\ Head(plans) = plans[1] /\ plans[1] \in Callers
      /\ Len(plans') = Len(plans) - 1
      /\ \A i \in 1 .. Len(plans') : plans'[i] = plans[i + 1] /\ plans[i + 1] \in Callers
      /\ \A i \in 1 .. Len(plans') : i + 1 \in 1 .. Len(plans)
  BY <1>1
<1>4. /\ thread[plans[1]] = "calling"
      /\ \A i \in 1 .. Len(plans') : thread[plans'[i]] = "calling" /\ plans'[i] # plans[1]
      /\ \A i, j \in 1 .. Len(plans') : plans'[i] = plans'[j] => i = j
  <2>1. 1 \in 1 .. Len(plans) /\ Len(plans) \in Nat
    BY <1>1, <1>2
  <2>2. thread[plans[1]] = "calling"
    BY <2>1 DEF InLine
  <2>3. ASSUME NEW i \in 1 .. Len(plans')
        PROVE  thread[plans'[i]] = "calling" /\ plans'[i] # plans[1]
    BY <1>2, <2>1 DEF InLine
  <2>4. ASSUME NEW i \in 1 .. Len(plans'), NEW j \in 1 .. Len(plans'), plans'[i] = plans'[j]
        PROVE  i = j
    <3>1. i + 1 \in 1 .. Len(plans) /\ j + 1 \in 1 .. Len(plans)
          /\ plans[i + 1] = plans[j + 1]
      BY <1>2, <2>4
    <3>2. i + 1 = j + 1
      BY <3>1 DEF InLine
    <3> QED BY <1>2, <2>1, <3>2
  <2> QED BY <2>2, <2>3, <2>4
<1>5. CASE cancel
  <2>1. Answer(plans[1], "failed") /\ mission' = Nobody
    BY <1>1, <1>2, <1>5 DEF PlanPath
  <2>2. InLine'
    BY <1>2, <1>4, <2>1, AnswerKeepsLine
  <2> QED BY <1>2, <1>4, <2>2
<1>6. CASE ~cancel
  <2>1. mission' = plans[1] /\ thread' = thread
    BY <1>2, <1>6 DEF PlanPath
  <2>2. InLine'
    BY <1>2, <1>4, <2>1, LoopsAreCallers DEF InLine
  <2> QED BY <1>2, <1>4, <2>2
<1> QED BY <1>5, <1>6

LEMMA EndKeepsLine ==
  ASSUME Types, InLine, NEW result, Answer(mission, result), mission # Nobody,
         mission' = Nobody, plans' = plans
  PROVE  InLine'
<1>1. mission \in Callers /\ \A i \in 1 .. Len(plans) : plans[i] \in Callers
  BY LineParts
<1>2. \A i \in 1 .. Len(plans) : plans[i] # mission /\ thread[plans[i]] = "calling"
  BY DEF InLine
<1>3. \A i, j \in 1 .. Len(plans) : plans[i] = plans[j] => i = j
  BY DEF InLine
<1> QED BY <1>1, <1>2, <1>3, AnswerKeepsLine

LEMMA SendsKeepsLine ==
  ASSUME Types, InLine, NEW c \in Callers, SendsCall(c)
  PROVE  InLine'
<1>1. /\ thread[c] = "sending" /\ thread' = [thread EXCEPT ![c] = "calling"]
      /\ plans' = Append(plans, c) /\ UNCHANGED mission
  BY DEF SendsCall, Goes, NavUnchanged, navVars
<1>2. /\ Len(plans') = Len(plans) + 1 /\ plans'[Len(plans) + 1] = c /\ Len(plans) \in Nat
      /\ \A i \in 1 .. Len(plans) : plans'[i] = plans[i] /\ plans[i] \in Callers
  <2>1. plans \in Seq(Callers) /\ Len(plans) \in Nat
        /\ \A i \in 1 .. Len(plans) : plans[i] \in Callers
    BY LineParts
  <2> QED BY <1>1, <2>1, AppendInSeq
<1>3. thread'[c] = "calling" /\ \A d \in Callers : d # c => thread'[d] = thread[d]
  BY <1>1 DEF Types
<1>4. /\ \A i \in 1 .. Len(plans) : thread[plans[i]] = "calling" /\ plans[i] # mission
                                    /\ plans[i] # c
      /\ \A i, j \in 1 .. Len(plans) : plans[i] = plans[j] => i = j
      /\ mission # Nobody => thread[mission] = "calling" /\ mission # c
  BY <1>1 DEF InLine
<1>5. c # Nobody /\ (mission # Nobody => mission \in Callers)
  BY LoopsAreCallers DEF Types
<1>6. \A i \in 1 .. Len(plans') : thread'[plans'[i]] = "calling" /\ plans'[i] # mission'
  BY <1>1, <1>2, <1>3, <1>4, <1>5
<1>7. \A i, j \in 1 .. Len(plans') : plans'[i] = plans'[j] => i = j
  BY <1>2, <1>4
<1>8. mission' # Nobody => thread'[mission'] = "calling"
  BY <1>1, <1>3, <1>4, <1>5
<1> QED BY <1>6, <1>7, <1>8 DEF InLine

-----------------------------------------------------------------------------
(* The loops and what the console shows of them.                           *)
LEMMA ThreadKeepsGenerations ==
  ASSUME Types, Generations, NEW c \in Callers,
         c \in Loops => thread[c] \notin {"idle", "done"},
         NEW stage, thread' = [thread EXCEPT ![c] = stage],
         UNCHANGED <<loop, current, stop>>,
         signals' = signals \/ (signals' = signals \cup {c} /\ stage = "done")
  PROVE  Generations'
<1>1. /\ thread'[c] = stage /\ \A d \in Callers : d # c => thread'[d] = thread[d]
      /\ \A k \in Loops : k \in Callers
      /\ current # Nobody => current \in Loops
      /\ signals \subseteq Loops
  BY LoopsAreCallers DEF Types
<1>2. LoopIsShown'
  BY <1>1 DEF Generations, LoopIsShown
<1>3. \A k \in Loops : thread'[k] \notin {"idle", "done"} => k = current' \/ k \in stop'
  BY <1>1 DEF Generations
<1>4. \A k \in signals' : thread'[k] = "done"
  BY <1>1 DEF Generations
<1>5. loop' = "running" => current' # Nobody
  BY DEF Generations
<1> QED BY <1>2, <1>3, <1>4, <1>5 DEF Generations

LEMMA GenerationsUnchanged ==
  ASSUME Generations, UNCHANGED <<thread, loop, current, stop, signals>>
  PROVE  Generations'
BY DEF Generations, LoopIsShown

(* While no loop is shown, none runs that has not been told to stop.       *)
LEMMA NoneIsShown ==
  ASSUME Types, Generations, loop # "running"
  PROVE  /\ current # Nobody => current \in Loops /\ thread[current] = "done"
         /\ \A k \in Loops : thread[k] \notin {"idle", "done"} => k \in stop
BY LoopsAreCallers DEF Types, Generations, LoopIsShown

LEMMA BeginKeepsGenerations ==
  ASSUME Types, Generations, BeginLoop, loop # "running", UNCHANGED <<stop, signals>>
  PROVE  Generations'
<1>1. PICK k \in Loops :
        /\ thread[k] = "idle" /\ loop' = "running" /\ current' = k
        /\ thread' = [thread EXCEPT ![k] = "top"]
  BY DEF BeginLoop
<1>2. thread'[k] = "top" /\ \A d \in Callers : d # k => thread'[d] = thread[d]
  BY <1>1, LoopsAreCallers DEF Types
<1>3. \A d \in Loops : thread'[d] \notin {"idle", "done"} => d = k \/ d \in stop
  BY <1>2, NoneIsShown, LoopsAreCallers
<1>4. \A d \in signals : thread'[d] = "done"
  BY <1>1, <1>2, LoopsAreCallers DEF Generations, Types
<1>5. current' # Nobody
  BY <1>1, LoopsAreCallers
<1> QED BY <1>1, <1>3, <1>4, <1>5 DEF Generations, LoopIsShown

LEMMA StopKeepsGenerations ==
  ASSUME Types, Generations, StopLoop, UNCHANGED <<thread, signals>>
  PROVE  Generations'
<1>1. CASE loop = "off"
  BY <1>1 DEF StopLoop, Generations, LoopIsShown
<1>2. CASE loop = "running"
  BY <1>2 DEF StopLoop, Generations, LoopIsShown
<1>3. CASE loop = "waiting"
  <2>1. \A k \in Loops : thread[k] \notin {"idle", "done"} => k \in stop
    BY <1>3, NoneIsShown
  <2> QED BY <1>3, <2>1 DEF StopLoop, Generations, LoopIsShown
<1> QED BY <1>1, <1>2, <1>3 DEF Types

LEMMA WaitingKeepsGenerations ==
  ASSUME Types, Generations, loop # "running", loop' # "running",
         UNCHANGED <<thread, current, stop, signals>>
  PROVE  Generations'
BY NoneIsShown DEF Generations, LoopIsShown

LEMMA UpdateKeepsGenerations ==
  ASSUME Types, Generations, NEW k \in Loops, OnLoopUpdate(k)
  PROVE  Generations'
<1>1. k \in signals /\ thread[k] = "done" /\ signals' = signals \ {k}
      /\ UNCHANGED <<thread, current>>
  BY DEF OnLoopUpdate, Generations, midVars
<1>2. CASE k = current
  <2>1. stop \subseteq stop' /\ loop' = "off"
    BY <1>2 DEF OnLoopUpdate, CurrentGeneration
  <2> QED BY <1>1, <1>2, <2>1 DEF Generations, LoopIsShown
<1>3. CASE k # current
  BY <1>1, <1>3 DEF OnLoopUpdate, CurrentGeneration, Generations, LoopIsShown
<1> QED BY <1>2, <1>3

-----------------------------------------------------------------------------
(* Types *)
LEMMA BeginTypes ==
  ASSUME Types, BeginLoop
  PROVE  /\ loop' \in {"off", "waiting", "running"} /\ current' \in Loops \cup {Nobody}
         /\ thread' \in [Callers -> Stage]
<1>1. PICK k \in Loops :
        loop' = "running" /\ current' = k /\ thread' = [thread EXCEPT ![k] = "top"]
  BY DEF BeginLoop
<1> QED BY <1>1 DEF Types, Stage

LEMMA StopTypes ==
  ASSUME Types, Generations, StopLoop
  PROVE  /\ loop' \in {"off", "waiting", "running"} /\ current' \in Loops \cup {Nobody}
         /\ stop' \subseteq Loops /\ cancels' \in [Loops -> Call]
<1>1. loop = "running" => current \in Loops
  BY DEF Types, Generations
<1> QED BY <1>1 DEF StopLoop, Types, Call

LEMMA GoesTypes ==
  ASSUME Types, NEW c \in Callers, NEW stage \in Stage, Goes(c, stage)
  PROVE  thread' \in [Callers -> Stage]
BY DEF Types, Goes

LEMMA JoyTypes ==
  ASSUME Types, NEW button \in {"pause", "resume"}, joy' = Append(joy, button)
  PROVE  /\ joy' \in Seq({"pause", "resume"}) /\ joy' # <<>>
         /\ button = "pause" /\ (\A i \in DOMAIN joy : joy[i] = "pause") =>
              \A i \in DOMAIN joy' : joy'[i] = "pause"
<1>1. joy \in Seq({"pause", "resume"})
  BY DEF Types
<1>2. /\ joy' \in Seq({"pause", "resume"}) /\ Len(joy') = Len(joy) + 1
      /\ \A i \in 1 .. Len(joy) : joy'[i] = joy[i]
      /\ joy'[Len(joy) + 1] = button
  BY <1>1
<1>3. DOMAIN joy = 1 .. Len(joy) /\ DOMAIN joy' = 1 .. Len(joy') /\ Len(joy) \in Nat
  BY <1>1, <1>2
<1>4. ASSUME joy' = <<>> PROVE FALSE
  BY <1>2, <1>3, <1>4, EmptySeq
<1>5. ASSUME button = "pause", \A i \in DOMAIN joy : joy[i] = "pause", NEW i \in DOMAIN joy'
      PROVE  joy'[i] = "pause"
  <2>1. i \in 1 .. Len(joy) \/ i = Len(joy) + 1
    BY <1>2, <1>3
  <2> QED BY <1>2, <1>3, <1>5, <2>1
<1> QED BY <1>2, <1>4, <1>5

-----------------------------------------------------------------------------
(* The steps.  All but TagInv and HeldIsStill.                             *)
Console3 == Types /\ InLine /\ Generations

(* Nothing of the threads, their calls or the loops changes.               *)
LEMMA QuietKeeps ==
  ASSUME Console3, Types', UNCHANGED <<thread, plans, mission>>,
         UNCHANGED <<loop, current, stop, signals>>
  PROVE  Console3'
BY LineUnchanged, GenerationsUnchanged DEF Console3

(* A thread takes a step of its own, or is answered.                       *)
LEMMA ThreadKeeps ==
  ASSUME Console3, Types', InLine', NEW c \in Callers, NEW stage \in Stage,
         Goes(c, stage), c \in Loops => thread[c] \notin {"idle", "done"},
         UNCHANGED <<loop, current, stop>>,
         signals' = signals \/ (signals' = signals \cup {c} /\ stage = "done")
  PROVE  Console3'
BY ThreadKeepsGenerations DEF Console3, Goes

LEMMA StartKeeps ==
  ASSUME Console3, StartLoop \/ WaitForService
  PROVE  Console3'
<1>1. loop # "running" /\ UNCHANGED <<work, estop, stop, signals, joy, cancels, plans>>
      /\ UNCHANGED <<mission, place, paused, reentry, cancel, joyPc>>
  BY DEF StartLoop, WaitForService, MayStart, NavUnchanged, navVars, flags
<1>2. held' \in BOOLEAN
  BY DEF StartLoop, WaitForService, AsksForMotion, Console3, Types
<1>3. CASE BeginLoop
  <2>1. Types'
    BY <1>1, <1>2, <1>3, BeginTypes DEF Console3, Types
  <2>2. Generations'
    BY <1>1, <1>3, BeginKeepsGenerations DEF Console3
  <2>3. InLine'
    <3>1. PICK k \in Loops :
            thread[k] = "idle" /\ thread' = [thread EXCEPT ![k] = "top"]
      BY <1>3 DEF BeginLoop
    <3> QED BY <1>1, <3>1, LoopsAreCallers, ThreadKeepsLine DEF Console3
  <2> QED BY <2>1, <2>2, <2>3 DEF Console3
<1>4. CASE loop' \in {"off", "waiting"} /\ UNCHANGED <<current, thread>>
  <2>1. Types'
    BY <1>1, <1>2, <1>4 DEF Console3, Types
  <2>2. InLine' /\ Generations'
    BY <1>1, <1>4, LineUnchanged, WaitingKeepsGenerations DEF Console3
  <2> QED BY <2>1, <2>2 DEF Console3
<1> QED BY <1>3, <1>4 DEF StartLoop, WaitForService

LEMMA StopKeeps ==
  ASSUME Console3, StopButton \/ EmergencyStop
  PROVE  Console3'
<1>1. StopLoop /\ UNCHANGED <<work, signals, thread, plans, mission, place>>
      /\ UNCHANGED <<paused, reentry, cancel, joyPc>>
  BY DEF StopButton, EmergencyStop, NavUnchanged, navVars, flags
<1>2. estop' \in BOOLEAN /\ held' \in BOOLEAN
  BY DEF StopButton, EmergencyStop, Console3, Types, AtMostOne, DockingUnderWay, Resuming
<1>3. joy' = joy \/ joy' = Append(joy, "pause")
  BY DEF StopButton, EmergencyStop, PauseNav, SendJoy
<1>4. joy' \in Seq({"pause", "resume"})
  BY <1>3, JoyTypes DEF Console3, Types
<1>5. Types'
  BY <1>1, <1>2, <1>4, StopTypes DEF Console3, Types
<1>6. InLine' /\ Generations'
  BY <1>1, LineUnchanged, StopKeepsGenerations DEF Console3
<1> QED BY <1>5, <1>6 DEF Console3

LEMMA UpdateKeeps ==
  ASSUME Console3, NEW k \in Loops, OnLoopUpdate(k)
  PROVE  Console3'
<1>1. /\ signals' \subseteq signals /\ loop' \in {loop, "off"}
      /\ stop' \subseteq stop \cup Loops
      /\ UNCHANGED <<work, estop, current, held, thread, joy, cancels, plans>>
      /\ UNCHANGED <<mission, place, paused, reentry, cancel, joyPc>>
  BY DEF OnLoopUpdate, midVars, NavUnchanged, navVars, flags
<1>2. Types'
  BY <1>1 DEF Console3, Types
<1>3. InLine' /\ Generations'
  BY <1>1, LineUnchanged, UpdateKeepsGenerations DEF Console3
<1> QED BY <1>2, <1>3 DEF Console3

(* Messages on /joy and cancellations.                                     *)
LEMMA MessageKeeps ==
  ASSUME Console3, NEW button \in {"pause", "resume"}, joy' = Append(joy, button),
         cancels' \in [Loops -> Call], held' \in BOOLEAN,
         UNCHANGED <<work, estop, loop, current, stop, signals>>,
         UNCHANGED <<thread, plans, mission, place, paused, reentry, cancel, joyPc>>
  PROVE  Console3'
<1>1. joy' \in Seq({"pause", "resume"})
  BY JoyTypes DEF Console3
<1>2. Types'
  BY <1>1 DEF Console3, Types
<1> QED BY <1>2, QuietKeeps

LEMMA CancelFailsTypes ==
  ASSUME Types, NEW k \in Loops, CancelFails(k)
  PROVE  /\ joy' = Append(joy, "pause") /\ cancels' \in [Loops -> Call]
         /\ UNCHANGED <<work, estop, loop, current, stop, signals, held, calls, answer>>
         /\ UNCHANGED <<thread, plans, mission, place, paused, reentry, cancel, joyPc>>
BY DEF CancelFails, Types, Call, guiVars, NavUnchanged, navVars, flags, tagVars

(* The Joy thread.                                                         *)
LEMMA JoyThreadKeeps ==
  ASSUME Console3, JoyThread
  PROVE  Console3'
<1>1. /\ UNCHANGED <<thread, plans, mission, place, loop, current, stop, signals>>
      /\ UNCHANGED <<work, estop, held>>
  BY DEF JoyThread, JoyStep, JoyCallback, PauseReentry, CancelNavigation, CancelUnpauses,
         CancelClearsReentry, guiVars, midVars
<1>2. Types'
  <2>1. CASE JoyCallback
    <3>1. /\ joy' = Tail(joy) /\ joy # <<>> /\ paused' = (Head(joy) = "pause")
          /\ joyPc' = IF Head(joy) = "pause" THEN "paused" ELSE ""
          /\ UNCHANGED <<cancels, reentry, cancel>>
      BY <2>1 DEF JoyCallback
    <3>2. joy' \in Seq({"pause", "resume"})
      BY <3>1, LineParts, TailInSeq, Zenon DEF Console3
    <3> QED BY <1>1, <3>1, <3>2 DEF Console3, Types
  <2>2. CASE \E k \in Loops : CancelNavigation(k)
    <3>1. cancels' \in [Loops -> Call] /\ joyPc' = "canceled" /\ cancel' = TRUE
          /\ UNCHANGED <<joy, paused, reentry>>
      BY <2>2 DEF CancelNavigation, Console3, Types, Call
    <3> QED BY <1>1, <3>1 DEF Console3, Types
  <2>3. CASE JoyStep
    BY <1>1, <2>3 DEF JoyStep, PauseReentry, CancelUnpauses, CancelClearsReentry, midVars,
                      Console3, Types
  <2> QED BY <2>1, <2>2, <2>3 DEF JoyThread
<1> QED BY <1>1, <1>2, QuietKeeps

(* The thread of plan_path_and_go, where it begins and ends no goal.       *)
Within == RouteFound \/ MissionPauses \/ MissionResumes \/ MissionReenters
LEMMA WithinKeeps ==
  ASSUME Console3, Within
  PROVE  Console3'
<1>1. /\ UNCHANGED <<thread, plans, mission, loop, current, stop, signals>>
      /\ UNCHANGED <<work, estop, held, joy, cancels, paused, cancel, joyPc>>
      /\ place # "none" /\ place' \in Place \ {"none"} /\ reentry' \in BOOLEAN
  BY DEF Within, RouteFound, MissionPauses, MissionResumes, MissionReenters, Place,
         guiVars, midVars, flags, Console3, Types
<1>2. Types'
  BY <1>1 DEF Console3, Types
<1> QED BY <1>1, <1>2, QuietKeeps

LEMMA OtherKeeps ==
  ASSUME Console3,
         \/ ReleaseEmergencyStop \/ Docking
         \/ (\E r \in Requests : SlowMove(r)) \/ UNCHANGED vars
  PROVE  Console3'
<1>1. /\ UNCHANGED <<thread, plans, mission, loop, current, stop, signals>>
      /\ UNCHANGED <<work, joy, cancels, place, paused, reentry, cancel, joyPc>>
  BY DEF ReleaseEmergencyStop, Docking, SlowMove, vars, guiVars, midVars, navVars,
         NavUnchanged, flags
<1>2. estop' \in BOOLEAN /\ held' \in BOOLEAN
  BY DEF ReleaseEmergencyStop, Docking, SlowMove, AsksForMotion, vars, guiVars, Console3,
         Types
<1>3. Types'
  BY <1>1, <1>2 DEF Console3, Types
<1> QED BY <1>1, <1>3, QuietKeeps

(* A thread goes on: to its call, out of it, or to its end.                *)
LEMMA GoToKeeps ==
  ASSUME Console3, GoTo
  PROVE  Console3'
<1>1. /\ thread[Goto] = "idle" /\ Goes(Goto, "sending")
      /\ UNCHANGED <<work, estop, loop, current, stop, signals, joy, cancels, plans>>
      /\ UNCHANGED <<mission, place, paused, reentry, cancel, joyPc>>
  BY DEF GoTo, Goes, NavUnchanged, navVars, flags
<1>2. Goto \in Callers /\ Goto \notin Loops /\ "sending" \in Stage
  BY LoopsAreCallers DEF Stage
<1>3. held' \in BOOLEAN
  BY DEF GoTo, AsksForMotion, Console3, Types
<1>4. Types'
  BY <1>1, <1>2, <1>3, GoesTypes DEF Console3, Types
<1>5. InLine'
  BY <1>1, <1>2, ThreadKeepsLine DEF Console3, Goes
<1> QED BY <1>1, <1>2, <1>4, <1>5, ThreadKeeps

LEMMA LoopKeeps ==
  ASSUME Console3, NEW k \in Loops, LoopTop(k) \/ LoopReturn(k)
  PROVE  Console3'
<1>1. k \in Callers /\ thread[k] \in {"top", "arrived", "failed"}
  BY LoopsAreCallers DEF LoopTop, LoopReturn
<1>2. /\ UNCHANGED <<work, estop, loop, current, stop, held, joy, cancels, plans>>
      /\ UNCHANGED <<mission, place, paused, reentry, cancel, joyPc>>
  BY DEF LoopTop, LoopReturn, guiVars, NavUnchanged, navVars, flags
<1>3. \E stage \in Stage :
        /\ Goes(k, stage)
        /\ signals' = signals \/ (signals' = signals \cup {k} /\ stage = "done")
  <2>1. {"done", "sending", "top"} \subseteq Stage
    BY DEF Stage
  <2>2. CASE LoopTop(k)
    <3>1. (Goes(k, "done") \/ Goes(k, "sending")) /\ signals' = signals
      BY <2>2 DEF LoopTop, guiVars
    <3> QED BY <2>1, <3>1
  <2>3. CASE LoopReturn(k)
    <3>1. \/ Goes(k, "done") /\ (signals' = signals \/ signals' = signals \cup {k})
          \/ Goes(k, "top") /\ signals' = signals
      BY <2>3 DEF LoopReturn
    <3> QED BY <2>1, <3>1
  <2> QED BY <2>2, <2>3
<1>4. PICK stage \in Stage :
        /\ Goes(k, stage)
        /\ signals' = signals \/ (signals' = signals \cup {k} /\ stage = "done")
  BY <1>3
<1>5. thread' \in [Callers -> Stage]
  BY <1>1, <1>4, GoesTypes DEF Console3
<1>6. Types'
  BY <1>2, <1>4, <1>5 DEF Console3, Types
<1>7. InLine'
  BY <1>1, <1>2, <1>4, ThreadKeepsLine DEF Console3, Goes
<1> QED BY <1>1, <1>2, <1>4, <1>6, <1>7, ThreadKeeps

LEMMA SendsKeeps ==
  ASSUME Console3, NEW c \in Callers, SendsCall(c)
  PROVE  Console3'
<1>1. /\ thread[c] = "sending" /\ Goes(c, "calling") /\ plans' = Append(plans, c)
      /\ UNCHANGED <<work, estop, loop, current, stop, signals, held, joy, cancels>>
      /\ UNCHANGED <<mission, place, paused, reentry, cancel, joyPc>>
  BY DEF SendsCall, guiVars, NavUnchanged, navVars, flags
<1>2. "calling" \in Stage
  BY DEF Stage
<1>3. plans' \in Seq(Callers) /\ thread' \in [Callers -> Stage]
  <2>1. plans' \in Seq(Callers)
    BY <1>1, LineParts, AppendInSeq, Zenon DEF Console3
  <2> QED BY <1>1, <1>2, <2>1, GoesTypes DEF Console3
<1>4. Types'
  BY <1>1, <1>3 DEF Console3, Types
<1>5. InLine'
  BY SendsKeepsLine DEF Console3
<1> QED BY <1>1, <1>2, <1>4, <1>5, ThreadKeeps

LEMMA AnswerGoes ==
  ASSUME NEW c \in Callers, NEW result \in {"arrived", "failed"}, Answer(c, result)
  PROVE  \E stage \in Stage \ {"sending", "calling"} : Goes(c, stage)
BY DEF Answer, Stage

LEMMA PlanPathKeeps ==
  ASSUME Console3, PlanPath
  PROVE  Console3'
<1>1. Head(plans) \in Callers /\ thread[Head(plans)] = "calling" /\ InLine'
  BY PlanPathKeepsLine DEF Console3
<1>2. /\ plans # <<>> /\ plans' = Tail(plans)
      /\ UNCHANGED <<work, estop, loop, current, stop, signals, held, joy, cancels>>
      /\ UNCHANGED <<paused, reentry, joyPc>>
  BY DEF PlanPath, guiVars
<1>3. plans' \in Seq(Callers)
  BY <1>2, LineParts, TailInSeq, Zenon DEF Console3
<1>4. CASE cancel
  <2>1. cancel' = FALSE /\ Answer(Head(plans), "failed") /\ UNCHANGED <<mission, place>>
    BY <1>4 DEF PlanPath
  <2>2. PICK stage \in Stage : Goes(Head(plans), stage)
    BY <1>1, <2>1, AnswerGoes
  <2>3. thread' \in [Callers -> Stage]
    BY <1>1, <2>2, GoesTypes DEF Console3
  <2>4. Types'
    BY <1>2, <1>3, <2>1, <2>3 DEF Console3, Types
  <2> QED BY <1>1, <1>2, <2>2, <2>4, ThreadKeeps
<1>5. CASE ~cancel
  <2>1. mission' = Head(plans) /\ place' = "planning" /\ UNCHANGED <<cancel, thread>>
    BY <1>5 DEF PlanPath
  <2>2. Types'
    BY <1>1, <1>2, <1>3, <2>1, LoopsAreCallers DEF Console3, Types, Place
  <2>3. Generations'
    BY <1>2, <2>1, GenerationsUnchanged DEF Console3
  <2> QED BY <1>1, <2>2, <2>3 DEF Console3
<1> QED BY <1>4, <1>5

Ends == NoRoute \/ MissionCanceled \/ MissionEnds
LEMMA EndsParts ==
  ASSUME Types, InLine, Ends
  PROVE  /\ mission \in Callers /\ thread[mission] = "calling"
         /\ mission' = Nobody /\ place' = "none" /\ cancel' \in BOOLEAN
         /\ \E result \in {"arrived", "failed"} : Answer(mission, result)
         /\ UNCHANGED <<work, estop, loop, current, stop, signals, held, joy, cancels>>
         /\ UNCHANGED <<plans, paused, reentry, joyPc, calls, answer>>
<1>1. CASE NoRoute
  BY <1>1 DEF NoRoute, guiVars, flags, tagVars, Types, InLine
<1>2. CASE MissionCanceled \/ MissionEnds
  <2>1. place # "none" /\ \E result \in {"arrived", "failed"} : EndsWith(result)
    BY <1>2 DEF MissionCanceled, MissionEnds
  <2> QED BY <2>1 DEF EndsWith, guiVars, tagVars, Types, InLine
<1> QED BY <1>1, <1>2 DEF Ends

LEMMA EndsKeep ==
  ASSUME Console3, Ends
  PROVE  Console3'
<1>1. /\ mission \in Callers /\ thread[mission] = "calling"
      /\ mission' = Nobody /\ place' = "none" /\ cancel' \in BOOLEAN
      /\ \E result \in {"arrived", "failed"} : Answer(mission, result)
      /\ UNCHANGED <<work, estop, loop, current, stop, signals, held, joy, cancels>>
      /\ UNCHANGED <<plans, paused, reentry, joyPc>>
  BY EndsParts DEF Console3
<1>2. PICK result \in {"arrived", "failed"} : Answer(mission, result)
  BY <1>1
<1>3. PICK stage \in Stage : Goes(mission, stage)
  BY <1>1, <1>2, AnswerGoes
<1>4. thread' \in [Callers -> Stage]
  BY <1>1, <1>3, GoesTypes DEF Console3
<1>5. Types'
  BY <1>1, <1>4 DEF Console3, Types, Place
<1>6. InLine'
  BY <1>1, <1>2, LoopsAreCallers, EndKeepsLine DEF Console3
<1> QED BY <1>1, <1>3, <1>5, <1>6, ThreadKeeps

LEMMA RunNavKeeps ==
  ASSUME Console3, RunNav
  PROVE  Console3'
BY JoyThreadKeeps, PlanPathKeeps, WithinKeeps, EndsKeep
   DEF RunNav, MissionStep, Within, Ends

LEMMA StepKeeps ==
  ASSUME Console3, [Next]_vars
  PROVE  Console3'
<1>1. CASE NavPause \/ NavResume \/ AddPoint
  <2>1. \E button \in {"pause", "resume"} : joy' = Append(joy, button)
    BY <1>1 DEF NavPause, NavResume, AddPoint, SendJoy
  <2>2. held' \in BOOLEAN
    BY <1>1 DEF NavPause, NavResume, AddPoint, AsksForMotion, guiVars, Console3, Types
  <2>3. UNCHANGED <<work, estop, loop, current, stop, signals, cancels>>
        /\ UNCHANGED <<thread, plans, mission, place, paused, reentry, cancel, joyPc>>
    BY <1>1 DEF NavPause, NavResume, AddPoint, guiVars, NavUnchanged, navVars, flags
  <2>4. cancels' \in [Loops -> Call]
    BY <2>3 DEF Console3, Types
  <2> QED BY <2>1, <2>2, <2>3, <2>4, MessageKeeps
<1>2. ASSUME NEW k \in Loops, CancelFails(k) PROVE Console3'
  <2>1. /\ joy' = Append(joy, "pause") /\ cancels' \in [Loops -> Call]
        /\ UNCHANGED <<work, estop, loop, current, stop, signals, held>>
        /\ UNCHANGED <<thread, plans, mission, place, paused, reentry, cancel, joyPc>>
    BY <1>2, CancelFailsTypes DEF Console3
  <2>2. held' \in BOOLEAN
    BY <2>1 DEF Console3, Types
  <2> QED BY <2>1, <2>2, MessageKeeps
<1> QED BY <1>1, <1>2, StartKeeps, StopKeeps, UpdateKeeps, GoToKeeps, LoopKeeps,
           SendsKeeps, RunNavKeeps, OtherKeeps
        DEF Next, Operator, Console, Threads

-----------------------------------------------------------------------------
(* Docking is touched by its own steps and by the console's request.       *)
LEMMA TagKeeps ==
  ASSUME TagInv, [Next]_vars
  PROVE  TagInv' /\ Own
<1>1. CASE Docking
  BY <1>1, TagStepKeeps DEF Docking
<1>2. CASE \E r \in Requests : SlowMove(r)
  BY <1>2, SlowMoveKeeps
<1>3. CASE ~Docking /\ ~\E r \in Requests : SlowMove(r)
  <2>1. UNCHANGED tagVars
    <3>1. CASE Operator
      BY <1>3, <3>1 DEF Operator, StartLoop, StopButton, EmergencyStop, NavPause, NavResume,
                        AddPoint, ReleaseEmergencyStop, GoTo, NavUnchanged
    <3>2. CASE Console
      BY <3>2 DEF Console, WaitForService, OnLoopUpdate, NavUnchanged
    <3>3. CASE Threads
      BY <3>3 DEF Threads, LoopTop, LoopReturn, SendsCall, CancelFails, NavUnchanged
    <3>4. CASE RunNav
      BY <3>4 DEF RunNav, JoyThread, JoyStep, JoyCallback, PauseReentry, CancelNavigation,
                  CancelUnpauses, CancelClearsReentry, MissionStep, PlanPath, RouteFound,
                  NoRoute, MissionPauses, MissionResumes, MissionReenters, MissionCanceled,
                  MissionEnds, EndsWith
    <3>5. CASE UNCHANGED vars
      BY <3>5 DEF vars
    <3> QED BY <1>3, <3>1, <3>2, <3>3, <3>4, <3>5 DEF Next
  <2> QED BY <2>1, TagUnchanged
<1> QED BY <1>1, <1>2, <1>3

-----------------------------------------------------------------------------
(* What is held stays still.                                               *)
LEMMA StillKept ==
  ASSUME Still, loop' = "off", UNCHANGED <<calls, answer>>,
         UnderWay' = UnderWay \/ UnderWay' = {},
         \A i \in DOMAIN joy' : joy'[i] = "pause",
         UnderWay' = {} \/ cancel' \/ Pausing'
  PROVE  Still'
<1>1. AtMostOne'
  BY DEF Still, AtMostOne
<1>2. ~DockingUnderWay'
  BY DEF Still, DockingUnderWay
<1> QED BY <1>1, <1>2 DEF Still

(* Nothing of the flags changes.                                           *)
LEMMA FlagsKept ==
  ASSUME Still, loop' = "off", UNCHANGED <<calls, answer>>, UnderWay' = UnderWay,
         UNCHANGED <<joy, joyPc, place, paused, reentry, cancel>>
  PROVE  Still'
<1>1. UnderWay' = {} \/ cancel' \/ Pausing'
  BY DEF Still, Pausing
<1>2. \A i \in DOMAIN joy' : joy'[i] = "pause"
  BY DEF Still
<1> QED BY <1>1, <1>2, StillKept

(* One more pause is on its way.                                           *)
LEMMA PauseKept ==
  ASSUME Types, Still, loop' = "off", UNCHANGED <<calls, answer>>, UnderWay' = UnderWay,
         joy' = Append(joy, "pause"), UNCHANGED <<joyPc, place, paused, reentry, cancel>>
  PROVE  Still'
<1>1. joy' # <<>> /\ \A i \in DOMAIN joy' : joy'[i] = "pause"
  BY JoyTypes DEF Still
<1>2. UnderWay' = {} \/ cancel' \/ Pausing'
  BY <1>1 DEF Still, Pausing
<1> QED BY <1>1, <1>2, StillKept

LEMMA UnderWayKept ==
  ASSUME Types, NEW c \in Callers, NEW stage, Goes(c, stage),
         thread[c] \in {"sending", "calling"} <=> stage \in {"sending", "calling"}
  PROVE  UnderWay' = UnderWay
<1>1. \A d \in Callers : thread'[d] = IF d = c THEN stage ELSE thread[d]
  BY DEF Types, Goes
<1>2. \A d \in Callers : thread'[d] \in {"sending", "calling"}
                           <=> thread[d] \in {"sending", "calling"}
  BY <1>1
<1> QED BY <1>2 DEF UnderWay

(* The only goal under way is answered.                                    *)
LEMMA UnderWayEnds ==
  ASSUME Types, Still, NEW c \in Callers, thread[c] = "calling",
         NEW result \in {"arrived", "failed"}, Answer(c, result)
  PROVE  UnderWay' = {}
<1>1. PICK stage \in Stage \ {"sending", "calling"} : Goes(c, stage)
  BY AnswerGoes
<1>2. \A d \in Callers : thread'[d] = IF d = c THEN stage ELSE thread[d]
  BY <1>1 DEF Types, Goes
<1>3. \A d \in Callers : thread[d] \in {"sending", "calling"} => d = c
  BY DEF Still, AtMostOne, UnderWay
<1> QED BY <1>1, <1>2, <1>3 DEF UnderWay

(* An emergency stop while run_nav does not resume.                        *)
LEMMA StopStills ==
  ASSUME Types, EmergencyStop, held'
  PROVE  Still'
<1>1. /\ loop' = "off" /\ AtMostOne /\ ~DockingUnderWay /\ ~Resuming
      /\ joy' = Append(joy, "pause")
      /\ UNCHANGED <<thread, calls, answer, joyPc, place, paused, reentry, cancel>>
  BY DEF EmergencyStop, StopLoop, PauseNav, SendJoy, NavUnchanged, navVars, flags, tagVars
<1>2. joy \in Seq({"pause", "resume"})
  BY DEF Types
<1>3. \A i \in DOMAIN joy : joy[i] = "pause"
  <2>1. \A i \in DOMAIN joy : joy[i] # "resume"
    BY <1>1 DEF Resuming
  <2>2. \A i \in DOMAIN joy : joy[i] \in {"pause", "resume"}
    BY <1>2
  <2> QED BY <2>1, <2>2
<1>4. joy' # <<>> /\ \A i \in DOMAIN joy' : joy'[i] = "pause"
  BY <1>1, <1>3, JoyTypes
<1>5. Pausing'
  <2>1. /\ joyPc \in {"", "paused"} /\ place # "resumed"
        /\ reentry \/ place = "paused" => paused
    BY <1>1 DEF Resuming, Types
  <2> QED BY <1>1, <1>4, <2>1 DEF Pausing
<1>6. AtMostOne' /\ ~DockingUnderWay'
  BY <1>1 DEF AtMostOne, UnderWay, DockingUnderWay
<1> QED BY <1>1, <1>4, <1>5, <1>6 DEF Still

LEMMA OperatorHolds ==
  ASSUME Types, HeldIsStill, Operator
  PROVE  HeldIsStill'
<1> SUFFICES ASSUME held' PROVE Still'
  BY DEF HeldIsStill
<1>1. CASE StartLoop \/ NavResume \/ AddPoint \/ GoTo \/ (\E r \in Requests : SlowMove(r))
  BY <1>1 DEF StartLoop, MayStart, NavResume, AddPoint, GoTo, SlowMove, AsksForMotion
<1>2. CASE StopButton
  BY <1>2 DEF StopButton, HeldIsStill, Still
<1>3. CASE EmergencyStop
  BY <1>3, StopStills
<1>4. CASE ReleaseEmergencyStop \/ NavPause
  <2>1. /\ held' = held /\ UNCHANGED <<loop, thread, calls, answer>>
        /\ (joy' = joy \/ joy' = Append(joy, "pause"))
        /\ UNCHANGED <<joyPc, place, paused, reentry, cancel>>
    BY <1>4 DEF ReleaseEmergencyStop, NavPause, SendJoy, NavUnchanged, navVars, flags,
                tagVars, guiVars, midVars
  <2>2. Still
    BY <2>1 DEF HeldIsStill
  <2>3. UnderWay' = UnderWay /\ loop' = "off"
    BY <2>1, <2>2 DEF UnderWay, Still
  <2> QED BY <2>1, <2>2, <2>3, FlagsKept, PauseKept
<1> QED BY <1>1, <1>2, <1>3, <1>4 DEF Operator

LEMMA ConsoleHolds ==
  ASSUME Types, HeldIsStill, Console
  PROVE  HeldIsStill'
<1> SUFFICES ASSUME held' PROVE Still'
  BY DEF HeldIsStill
<1>1. held' = held /\ UNCHANGED <<joy, joyPc, place, paused, reentry, cancel, calls, answer>>
  BY DEF Console, WaitForService, OnLoopUpdate, NavUnchanged, navVars, flags, tagVars,
         midVars
<1>2. Still
  BY <1>1 DEF HeldIsStill
<1>3. CASE WaitForService
  BY <1>2, <1>3 DEF WaitForService, Still
<1>4. CASE \E k \in Loops : OnLoopUpdate(k)
  <2>1. UNCHANGED thread /\ loop' = "off"
    BY <1>2, <1>4 DEF OnLoopUpdate, midVars, Still
  <2>2. UnderWay' = UnderWay
    BY <2>1 DEF UnderWay
  <2> QED BY <1>1, <1>2, <2>1, <2>2, FlagsKept
<1> QED BY <1>3, <1>4 DEF Console

LEMMA ThreadsHold ==
  ASSUME Types, Generations, HeldIsStill, Threads
  PROVE  HeldIsStill'
<1> SUFFICES ASSUME held' PROVE Still'
  BY DEF HeldIsStill
<1>1. /\ held' = held /\ UNCHANGED <<loop, calls, answer>>
      /\ UNCHANGED <<joyPc, place, paused, reentry, cancel>>
  BY DEF Threads, LoopTop, LoopReturn, SendsCall, CancelFails, NavUnchanged, navVars, flags,
         tagVars, guiVars
<1>2. Still /\ loop = "off" /\ loop' = "off"
  BY <1>1 DEF HeldIsStill, Still
<1>3. CASE \E k \in Loops : LoopTop(k)
  <2>1. PICK k \in Loops : LoopTop(k)
    BY <1>3
  <2>2. k \in Callers /\ thread[k] = "top"
    BY <2>1, LoopsAreCallers DEF LoopTop
  <2>3. k \in stop
    BY <1>2, <2>2, NoneIsShown
  <2>4. Goes(k, "done") /\ joy' = joy
    BY <2>1, <2>3 DEF LoopTop
  <2>5. UnderWay' = UnderWay
    BY <2>2, <2>4, UnderWayKept
  <2> QED BY <1>1, <1>2, <2>4, <2>5, FlagsKept
<1>4. CASE \E k \in Loops : LoopReturn(k)
  <2>1. PICK k \in Loops : LoopReturn(k)
    BY <1>4
  <2>2. k \in Callers /\ thread[k] \in {"arrived", "failed"}
    BY <2>1, LoopsAreCallers DEF LoopReturn
  <2>3. (Goes(k, "done") \/ Goes(k, "top")) /\ joy' = joy
    BY <2>1 DEF LoopReturn
  <2>4. UnderWay' = UnderWay
    BY <2>2, <2>3, UnderWayKept
  <2> QED BY <1>1, <1>2, <2>3, <2>4, FlagsKept
<1>5. CASE \E c \in Callers : SendsCall(c)
  <2>1. PICK c \in Callers : SendsCall(c)
    BY <1>5
  <2>2. thread[c] = "sending" /\ Goes(c, "calling") /\ joy' = joy
    BY <2>1 DEF SendsCall
  <2>3. UnderWay' = UnderWay
    BY <2>2, UnderWayKept
  <2> QED BY <1>1, <1>2, <2>2, <2>3, FlagsKept
<1>6. CASE \E k \in Loops : CancelFails(k)
  <2>1. joy' = Append(joy, "pause") /\ thread' = thread
    BY <1>6 DEF CancelFails
  <2>2. UnderWay' = UnderWay
    BY <2>1 DEF UnderWay
  <2> QED BY <1>1, <1>2, <2>1, <2>2, PauseKept
<1> QED BY <1>3, <1>4, <1>5, <1>6 DEF Threads

LEMMA TailOfPauses ==
  ASSUME NEW S, NEW s \in Seq(S), s # <<>>, NEW v, \A i \in DOMAIN s : s[i] = v
  PROVE  Head(s) = v /\ \A i \in DOMAIN Tail(s) : Tail(s)[i] = v
<1>1. /\ Len(s) \in Nat /\ DOMAIN s = 1 .. Len(s) /\ Head(s) = s[1]
      /\ Tail(s) \in Seq(S) /\ Len(Tail(s)) = Len(s) - 1
  OBVIOUS
<1>2. Len(s) >= 1
  BY <1>1, EmptySeq
<1>3. DOMAIN Tail(s) = 1 .. Len(s) - 1
  BY <1>1
<1>4. \A i \in 1 .. Len(s) - 1 : Tail(s)[i] = s[i + 1]
  OBVIOUS
<1>5. Head(s) = v
  BY <1>1, <1>2
<1>6. \A i \in 1 .. Len(s) - 1 : i + 1 \in DOMAIN s
  BY <1>1
<1> QED BY <1>3, <1>4, <1>5, <1>6

(* The Joy thread: a pause is stored, or a cancellation ends what is under *)
(* way, which outweighs that it clears the pause.                          *)
LEMMA JoyThreadHolds ==
  ASSUME Types, Still, JoyThread
  PROVE  Still'
<1>1. UNCHANGED <<loop, thread, calls, answer, place>>
  BY DEF JoyThread, JoyStep, JoyCallback, PauseReentry, CancelNavigation, CancelUnpauses,
         CancelClearsReentry, guiVars, midVars, tagVars
<1>2. UnderWay' = UnderWay /\ loop' = "off"
  BY <1>1 DEF UnderWay, Still
<1>3. CASE JoyCallback
  <2>1. /\ joyPc = "" /\ joy # <<>> /\ joy' = Tail(joy)
        /\ paused' = (Head(joy) = "pause")
        /\ joyPc' = IF Head(joy) = "pause" THEN "paused" ELSE ""
        /\ UNCHANGED <<reentry, cancel>>
    BY <1>3 DEF JoyCallback
  <2>2. Head(joy) = "pause" /\ \A i \in DOMAIN joy' : joy'[i] = "pause"
    <3>1. joy \in Seq({"pause", "resume"}) /\ \A i \in DOMAIN joy : joy[i] = "pause"
      BY DEF Types, Still
    <3>2. Head(joy) = "pause" /\ \A i \in DOMAIN Tail(joy) : Tail(joy)[i] = "pause"
      BY <2>1, <3>1, TailOfPauses, Zenon
    <3> QED BY <2>1, <3>2
  <2>3. UnderWay' = {} \/ cancel' \/ Pausing'
    BY <1>1, <1>2, <2>1, <2>2 DEF Still, Pausing
  <2> QED BY <1>1, <1>2, <2>2, <2>3, StillKept
<1>4. CASE ~JoyCallback
  <2>1. joy' = joy
    BY <1>4 DEF JoyThread, JoyStep, PauseReentry, CancelNavigation, CancelUnpauses,
                CancelClearsReentry, midVars
  <2>2. \A i \in DOMAIN joy' : joy'[i] = "pause"
    BY <2>1 DEF Still
  <2>3. CASE PauseReentry
    <3>1. /\ joyPc = "paused" /\ joyPc' = "" /\ reentry' = TRUE /\ paused
          /\ UNCHANGED <<paused, cancel>>
      BY <2>3 DEF PauseReentry, Types
    <3>2. UnderWay' = {} \/ cancel' \/ Pausing'
      BY <1>1, <1>2, <3>1 DEF Still, Pausing
    <3> QED BY <1>1, <1>2, <2>2, <3>2, StillKept
  <2>4. CASE \E k \in Loops : CancelNavigation(k)
    BY <1>1, <1>2, <2>2, <2>4, StillKept DEF CancelNavigation
  <2>5. CASE CancelUnpauses \/ CancelClearsReentry
    <3>1. joyPc \notin {"", "paused"} /\ cancel' = cancel
      BY <2>5 DEF CancelUnpauses, CancelClearsReentry
    <3>2. UnderWay' = {} \/ cancel'
      BY <1>2, <3>1 DEF Still, Pausing
    <3> QED BY <1>1, <1>2, <2>2, <3>2, StillKept
  <2> QED BY <1>4, <2>3, <2>4, <2>5 DEF JoyThread, JoyStep
<1> QED BY <1>3, <1>4

(* A mission that may not leave the pause loop clears nothing.             *)
LEMMA WithinHolds ==
  ASSUME Types, Still, Within
  PROVE  Still'
<1>1. UNCHANGED <<loop, thread, calls, answer, joy, joyPc, paused, cancel>>
  BY DEF Within, RouteFound, MissionPauses, MissionResumes, MissionReenters, guiVars,
         midVars, flags, tagVars
<1>2. UnderWay' = UnderWay /\ loop' = "off" /\ \A i \in DOMAIN joy' : joy'[i] = "pause"
  BY <1>1 DEF UnderWay, Still
<1>3. UnderWay' = {} \/ cancel' \/ Pausing'
  <2>1. CASE RouteFound \/ MissionPauses
    BY <1>1, <1>2, <2>1 DEF Still, Pausing, RouteFound, MissionPauses, flags
  <2>2. CASE MissionResumes \/ MissionReenters
    BY <1>1, <1>2, <2>2 DEF Still, Pausing, MissionResumes, MissionReenters
  <2> QED BY <2>1, <2>2 DEF Within
<1> QED BY <1>1, <1>2, <1>3, StillKept

LEMMA RunNavHolds ==
  ASSUME Types, InLine, HeldIsStill, RunNav
  PROVE  HeldIsStill'
<1> SUFFICES ASSUME held' PROVE Still'
  BY DEF HeldIsStill
<1>1. CASE JoyThread
  <2>1. held' = held
    BY <1>1 DEF JoyThread, JoyStep, JoyCallback, PauseReentry, CancelNavigation,
                CancelUnpauses, CancelClearsReentry, guiVars
  <2> QED BY <1>1, <2>1, JoyThreadHolds DEF HeldIsStill
<1>2. CASE Within
  <2>1. held' = held
    BY <1>2 DEF Within, RouteFound, MissionPauses, MissionResumes, MissionReenters, guiVars
  <2> QED BY <1>2, <2>1, WithinHolds DEF HeldIsStill
<1>3. CASE PlanPath
  <2>1. /\ held' = held
        /\ UNCHANGED <<loop, calls, answer, joy, joyPc, paused, reentry>>
    BY <1>3 DEF PlanPath, guiVars, tagVars
  <2>2. Still /\ loop' = "off" /\ \A i \in DOMAIN joy' : joy'[i] = "pause"
    BY <2>1 DEF HeldIsStill, Still
  <2>3. CASE cancel
    <3>1. Head(plans) \in Callers /\ thread[Head(plans)] = "calling"
      BY <1>3, PlanPathKeepsLine
    <3>2. Answer(Head(plans), "failed")
      BY <1>3, <2>3 DEF PlanPath
    <3>3. UnderWay' = {}
      BY <2>2, <3>1, <3>2, UnderWayEnds
    <3> QED BY <2>1, <2>2, <3>3, StillKept
  <2>4. CASE ~cancel
    <3>1. UNCHANGED <<thread, cancel>> /\ place' = "planning"
      BY <1>3, <2>4 DEF PlanPath
    <3>2. UnderWay' = UnderWay
      BY <3>1 DEF UnderWay
    <3>3. UnderWay' = {} \/ cancel' \/ Pausing'
      BY <2>1, <2>2, <2>4, <3>1, <3>2 DEF Still, Pausing
    <3> QED BY <2>1, <2>2, <3>2, <3>3, StillKept
  <2> QED BY <2>3, <2>4
<1>4. CASE Ends
  <2>1. /\ mission \in Callers /\ thread[mission] = "calling" /\ held' = held
        /\ \E result \in {"arrived", "failed"} : Answer(mission, result)
        /\ UNCHANGED <<loop, calls, answer, joy>>
    BY <1>4, EndsParts
  <2>2. Still /\ loop' = "off" /\ \A i \in DOMAIN joy' : joy'[i] = "pause"
    BY <2>1 DEF HeldIsStill, Still
  <2>3. UnderWay' = {}
    BY <2>1, <2>2, UnderWayEnds
  <2> QED BY <2>1, <2>2, <2>3, StillKept
<1> QED BY <1>1, <1>2, <1>3, <1>4 DEF RunNav, MissionStep, Within, Ends

LEMMA DockingHolds ==
  ASSUME HeldIsStill, Docking \/ UNCHANGED vars
  PROVE  HeldIsStill'
<1> SUFFICES ASSUME held' PROVE Still'
  BY DEF HeldIsStill
<1>1. held' = held
      /\ UNCHANGED <<loop, thread, joy, joyPc, place, paused, reentry, cancel>>
  BY DEF Docking, vars, guiVars, midVars, navVars, flags
<1>2. Still
  BY <1>1 DEF HeldIsStill
<1>3. ~Docking
  <2>1. calls = <<>> /\ \A r \in Requests : answer[r] # "called"
    BY <1>2 DEF Still, DockingUnderWay
  <2> QED BY <2>1 DEF Docking, TagStep, HandleSetTargetY, Round, InnerRound
<1>4. UNCHANGED <<calls, answer>> /\ loop' = "off" /\ UnderWay' = UnderWay
  BY <1>1, <1>2, <1>3 DEF vars, tagVars, Still, UnderWay
<1> QED BY <1>1, <1>2, <1>4, FlagsKept
-----------------------------------------------------------------------------
LEMMA NextPreserves ==
  ASSUME IInv, [Next]_vars
  PROVE  IInv' /\ Own
<1>1. Console3' /\ TagInv' /\ Own
  BY StepKeeps, TagKeeps DEF IInv, Console3
<1>2. HeldIsStill'
  BY OperatorHolds, ConsoleHolds, ThreadsHold, RunNavHolds, DockingHolds DEF IInv, Next
<1> QED BY <1>1, <1>2 DEF IInv, Console3

LEMMA InitIInv ==
  ASSUME Init
  PROVE  IInv
<1>1. /\ tag = [seen |-> FALSE, at |-> Nowhere, fresh |-> FALSE, good |-> 0]
      /\ state = "ROTATING" /\ stable = 0 /\ target = None /\ calls = <<>> /\ vel = "stop"
      /\ answer = [r \in Requests |-> "open"]
  BY DEF Init, TagInit
<1>2. active = FALSE
  BY Zenon DEF Init, TagInit
<1>3. /\ work \in Works /\ loop = "off" /\ current = Nobody /\ stop = {} /\ signals = {}
      /\ thread = [c \in Callers |-> "idle"] /\ joy = <<>> /\ plans = <<>>
      /\ cancels = [k \in Loops |-> "none"] /\ mission = Nobody /\ place = "none"
      /\ joyPc = ""
  BY Zenon DEF Init
<1>4. estop = FALSE /\ paused = FALSE /\ reentry = FALSE /\ cancel = FALSE /\ held = FALSE
  BY Zenon DEF Init
<1>5. Len(joy) = 0 /\ Len(plans) = 0 /\ Len(calls) = 0
  BY <1>1, <1>3
<1>6. TagInv
  <2>1. 0 \in 0 .. StableFrames
    BY FramesAssumption
  <2>2. Nowhere \in Reading
    BY DEF Nowhere, Reading
  <2>3. tag \in Tags
    BY <1>1, <2>1, <2>2 DEF Tags
  <2>4. calls \in Seq(CallRecords)
    BY <1>1
  <2>5. TagOK
    BY <1>1, <1>2, <2>1, <2>3, <2>4 DEF TagOK, Tags, CallRecords, State
  <2>6. OneCall /\ Aligned
    BY <1>1, <1>2, <1>5 DEF OneCall, Aligned
  <2> QED BY <2>5, <2>6 DEF TagInv
<1>7. \A c \in Callers : thread[c] = "idle"
  BY <1>3
<1>8. Types
  <2>1. joy \in Seq({"pause", "resume"}) /\ plans \in Seq(Callers)
    BY <1>3, EmptyInSeq, Zenon
  <2>2. thread \in [Callers -> Stage]
    BY <1>3 DEF Stage
  <2>3. cancels \in [Loops -> Call] /\ place \in Place
    BY <1>3 DEF Call, Place
  <2> QED BY <1>3, <1>4, <2>1, <2>2, <2>3 DEF Types
<1>9. InLine
  <2>1. mission = Nobody /\ Len(plans) = 0
    BY <1>3, <1>5
  <2> QED BY <2>1 DEF InLine
<1>10. Generations
  BY <1>3, <1>7, LoopsAreCallers DEF Generations, LoopIsShown
<1>11. HeldIsStill
  BY <1>4 DEF HeldIsStill
<1> QED BY <1>6, <1>8, <1>9, <1>10, <1>11 DEF IInv
-----------------------------------------------------------------------------
(* The inductive invariant holds in every state of the console.            *)
THEOREM Invariance == Spec => []IInv
<1>1. Init => IInv
  BY InitIInv
<1>2. IInv /\ [Next]_vars => IInv'
  BY NextPreserves
<1> QED BY <1>1, <1>2, PTL DEF Spec

(* The console, run_nav's flags and the docking service stay within their  *)
(* types; and run_nav is somewhere in a mission just when it serves a      *)
(* caller.                                                                 *)
THEOREM TypeCorrect == Spec => []TypeOK
<1>1. IInv => TypeOK
  BY DEF IInv, Types, TagInv, TypeOK
<1> QED BY <1>1, Invariance, PTL

(* After an emergency stop (3040 of the console) no mission goes on driving *)
(* and no docking, once its pause is stored, until the operator asks for    *)
(* motion: for any number of loops, goals and messages, wherever the Joy    *)
(* thread and the mission stand between their stores.  It is not claimed    *)
(* (held is not set) if more than one goal or a docking was under way when  *)
(* the stop was pressed, or run_nav was resuming from an earlier pause.     *)
THEOREM StopHolds == Spec => []StaysStopped
<1>1. IInv => StaysStopped
  <2> SUFFICES ASSUME IInv, held, joy = <<>>, joyPc = "" PROVE ~Drives /\ vel = "stop"
    BY DEF StaysStopped
  <2>1. Still
    BY DEF IInv, HeldIsStill
  <2>2. vel = "stop"
    BY <2>1 DEF Still, DockingUnderWay, IInv, TagInv, OneCall
  <2>3. ~Drives
    <3> SUFFICES ASSUME Drives PROVE FALSE
      OBVIOUS
    <3>1. mission \in Callers /\ thread[mission] = "calling"
      BY DEF Drives, IInv, Types, InLine
    <3>2. mission \in UnderWay
      BY <3>1 DEF UnderWay
    <3> QED BY <2>1, <3>2 DEF Still, Pausing, Drives
  <2> QED BY <2>2, <2>3
<1> QED BY <1>1, Invariance, PTL

(* The loop whose generation is the current one is shown as running until  *)
(* its thread is over: no late signal of an earlier loop hides it.         *)
THEOREM ShownIsRunning == Spec => []LoopIsShown
<1>1. IInv => LoopIsShown
  BY DEF IInv, Generations
<1> QED BY <1>1, Invariance, PTL

(* Docking leaves its rotation only after as many aligned readings of this *)
(* request as it asks for, for any number that is configured.              *)
THEOREM DocksAligned == Spec => []AlignedFirst
<1>1. IInv => AlignedFirst
  BY DEF IInv, TagInv, Aligned, AlignedFirst
<1> QED BY <1>1, Invariance, PTL

(* A docking request succeeds for its own target only, whatever other      *)
(* requests come in while it is served.                                    *)
THEOREM OwnSuccess == Spec => SuccessIsOwn
<1>1. IInv /\ [Next]_vars => [Own]_tagVars
  BY NextPreserves
<1>2. SuccessIsOwn <=> [][Own]_tagVars
  BY DEF SuccessIsOwn, Own
<1> QED BY <1>1, <1>2, Invariance, PTL DEF Spec
=============================================================================
