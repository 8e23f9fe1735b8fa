--------------------------- MODULE OperatorConsole --------------------------
(***************************************************************************)
(* aNAV_ranger.py, the operator's console, with what it works on: the      *)
(* docking service (TagControl) and run_nav.cpp, of which what remains is  *)
(* the Joy thread with the flags that pause, resume and cancel set, store  *)
(* by store, and where a mission looks at them (TopoNav has its routes).   *)
(* A button is one step of the GUI thread; what it starts goes on beside   *)
(* it: loop threads and the threads of single goals, blocked in service    *)
(* calls, the thread that cancels, messages on /joy, signals to the GUI.   *)
(***************************************************************************)
EXTENDS TagControl

CONSTANTS
  Works,                  \* bound: what the operator uses, "dock" or "drive"
  MaxLoops,               \* bound: loops started
  MaxJoy                  \* bound: messages under way on /joy

ASSUME WorksAssumption == Works \subseteq {"dock", "drive"}
ASSUME BoundAssumption == MaxLoops \in Nat /\ MaxJoy \in Nat

Loops == 1 .. MaxLoops
Goto == 0                 \* the thread of gotop, beside those of the loops
Nobody == -1
Callers == Loops \cup {Goto}
Stage == {"idle", "top", "sending", "calling", "arrived", "failed", "done"}

VARIABLES
  work,       \* what this session of the operator is about
  estop,      \* estop_active
  loop,       \* "off", "waiting" (loop_waiting_for_nav) or "running"
  current,    \* the loop whose generation is loop_generation, or Nobody
  stop,       \* loops whose loop_stop_event is set
  thread,     \* where the thread of a loop, or of gotop, stands
  signals,    \* loops whose signal "failed" has not reached the GUI
  joy,        \* messages on /joy: buttons[0] "pause", buttons[2] "resume"
  cancels,    \* of every loop: its call of /anav/cancel_navigation
  plans,      \* calls of /plan_path_and_go, in order; one is served at a time
  mission,    \* the caller whose goal run_nav serves, or Nobody
  place,      \* where the thread of this mission stands
  paused,     \* pause_robot
  reentry,    \* pause_reentry_requested_
  cancel,     \* cancel_requested_
  joyPc,      \* the last store of the callback the Joy thread runs, or ""
  held        \* since the last emergency stop nobody has asked for motion

guiVars == <<work, estop, loop, current, stop, signals, held>>
flags == <<paused, reentry, cancel, joyPc>>
navVars == <<mission, place, flags>>
midVars == <<thread, joy, cancels, plans>>
vars == <<guiVars, midVars, navVars, tagVars>>

(* A call is given up after three seconds: it may be served all the same.  *)
Call == {"none", "called", "late", "failed"}
(* The route is looked for or waited for; the route is driven; in the      *)
(* pause loop of sendGoalAndMonitor, and behind it. *)
Place == {"none", "planning", "driving", "paused", "resumed"}

TypeOK ==
  /\ TagOK
  /\ work \in Works /\ estop \in BOOLEAN /\ loop \in {"off", "waiting", "running"}
  /\ current \in Loops \cup {Nobody} /\ stop \subseteq Loops /\ signals \subseteq Loops
  /\ thread \in [Callers -> Stage]
  /\ joy \in Seq({"pause", "resume"})
  /\ cancels \in [Loops -> Call]
  /\ plans \in Seq(Callers) /\ mission \in Callers \cup {Nobody}
  /\ place \in Place /\ (place = "none" <=> mission = Nobody)
  /\ paused \in BOOLEAN /\ reentry \in BOOLEAN /\ cancel \in BOOLEAN
  /\ joyPc \in {"", "paused", "canceled", "unpaused"} /\ held \in BOOLEAN

Init ==
  /\ TagInit
  /\ work \in Works /\ estop = FALSE /\ loop = "off" /\ current = Nobody
  /\ stop = {} /\ thread = [c \in Callers |-> "idle"] /\ signals = {}
  /\ joy = <<>> /\ cancels = [k \in Loops |-> "none"] /\ plans = <<>>
  /\ mission = Nobody /\ place = "none" /\ held = FALSE
  /\ paused = FALSE /\ reentry = FALSE /\ cancel = FALSE /\ joyPc = ""

-----------------------------------------------------------------------------
(* The buttons.  One that asks for motion ends held, unless the console    *)
(* is locked.                                                              *)
AsksForMotion == held' = (held /\ estop)
SendJoy(button) == Len(joy) < MaxJoy /\ joy' = Append(joy, button)
NavUnchanged == UNCHANGED <<navVars, tagVars>>

BeginLoop ==
  \E k \in Loops :
    /\ thread[k] = "idle" /\ \A i \in 1 .. k - 1 : thread[i] # "idle"
    /\ loop' = "running" /\ current' = k
    /\ thread' = [thread EXCEPT ![k] = "top"]

MayStart == loop = "off" /\ ~estop
StartLoop ==
  /\ work = "drive" /\ MayStart
  /\ \/ BeginLoop
     \/ loop' = "waiting" /\ UNCHANGED <<current, thread>>
  /\ AsksForMotion
  /\ UNCHANGED <<work, estop, stop, signals, joy, cancels, plans>> /\ NavUnchanged

(* wait_for_loop_navigation_service: the services are there, or not in     *)
(* time. *)
WaitForService ==
  /\ loop = "waiting"
  /\ \/ BeginLoop
     \/ loop' = "off" /\ UNCHANGED <<current, thread>>
  /\ UNCHANGED <<work, estop, stop, signals, held, joy, cancels, plans>> /\ NavUnchanged

(* stop_loop_navigation: the generation goes on, the event is set, and a   *)
(* thread calls cancel_navigation if a loop was running. *)
(* mutant: loop_stop_event is not set *)
StopWithoutEvent ==
  /\ loop' = "off"
  /\ current' = IF loop = "off" THEN current ELSE Nobody
  /\ cancels' = IF loop = "running" THEN [cancels EXCEPT ![current] = "called"] ELSE cancels
  /\ UNCHANGED stop
StopLoop ==
  /\ loop' = "off"
  /\ current' = IF loop = "off" THEN current ELSE Nobody
  /\ IF loop = "running"
     THEN stop' = stop \cup {current} /\ cancels' = [cancels EXCEPT ![current] = "called"]
     ELSE UNCHANGED <<stop, cancels>>

StopButton ==
  /\ loop # "off"
  /\ StopLoop
  /\ UNCHANGED <<work, estop, signals, held, thread, joy, plans>> /\ NavUnchanged

(* activate_emergency_stop.  What is held is claimed only if at most one   *)
(* goal is under way, no docking, and no resumption: the cancellation of a *)
(* loop unpauses run_nav (2255), so that the next call in the line goes    *)
(* on; docking is not stopped at all, only overruled until the release;    *)
(* and a mission that leaves the pause loop of an earlier pause clears the *)
(* request of this one, and drives (1790).                                 *)
UnderWay == {c \in Callers : thread[c] \in {"sending", "calling"}}
DockingUnderWay == calls # <<>> \/ \E r \in Requests : answer[r] = "called"
AtMostOne == \A c, d \in UnderWay : c = d
Resuming ==
  \/ \E i \in DOMAIN joy : joy[i] = "resume"
  \/ joyPc \in {"canceled", "unpaused"}
  \/ ~paused /\ (reentry \/ place = "paused")
  \/ place = "resumed"

(* mutant: the loop is stopped and nothing is paused *)
PauseNothing == UNCHANGED joy
PauseNav == SendJoy("pause")
EmergencyStop ==
  /\ ~estop /\ estop' = TRUE
  /\ StopLoop /\ PauseNav
  /\ held' = (AtMostOne /\ ~DockingUnderWay /\ ~Resuming)
  /\ UNCHANGED <<work, signals, thread, plans>> /\ NavUnchanged

ReleaseEmergencyStop ==
  /\ estop /\ estop' = FALSE
  /\ UNCHANGED <<work, loop, current, stop, signals, held>>
  /\ UNCHANGED midVars /\ NavUnchanged

NavPause ==
  /\ work = "drive" /\ SendJoy("pause")
  /\ UNCHANGED <<guiVars, thread, cancels, plans>> /\ NavUnchanged
NavResume ==
  /\ work = "drive" /\ ~estop /\ SendJoy("resume") /\ AsksForMotion
  /\ UNCHANGED <<work, estop, loop, current, stop, signals>>
  /\ UNCHANGED <<thread, cancels, plans>> /\ NavUnchanged
(* "Add a point" sends the button that run_nav takes for resume, also      *)
(* under an emergency stop. *)
AddPoint ==
  /\ work = "drive" /\ SendJoy("resume") /\ held' = FALSE
  /\ UNCHANGED <<work, estop, loop, current, stop, signals>>
  /\ UNCHANGED <<thread, cancels, plans>> /\ NavUnchanged

(* gotop; one call of it at a time. *)
GoTo ==
  /\ work = "drive" /\ ~estop
  /\ thread[Goto] = "idle"
  /\ thread' = [thread EXCEPT ![Goto] = "sending"]
  /\ AsksForMotion
  /\ UNCHANGED <<work, estop, loop, current, stop, signals, joy, cancels, plans>>
  /\ NavUnchanged

(* slowMove, in a terminal of its own. *)
SlowMove(r) ==
  /\ work = "dock" /\ ~estop
  /\ \A i \in 1 .. r : answer[i] = "open" <=> i = r
  /\ answer' = [answer EXCEPT ![r] = "called"]
  /\ AsksForMotion
  /\ UNCHANGED <<work, estop, loop, current, stop, signals>> /\ UNCHANGED midVars
  /\ UNCHANGED <<navVars, tag, state, stable, target, active, calls, vel>>

(* on_loop_update *)
(* mutant: the generation of the signal is not compared *)
AnyGeneration(k) == TRUE
CurrentGeneration(k) == k = current
OnLoopUpdate(k) ==
  /\ k \in signals /\ signals' = signals \ {k}
  /\ IF CurrentGeneration(k)
     THEN loop' = "off" /\ stop' = stop \cup (Loops \cap {current})
     ELSE UNCHANGED <<loop, stop>>
  /\ UNCHANGED <<work, estop, current, held>> /\ UNCHANGED midVars /\ NavUnchanged

-----------------------------------------------------------------------------
(* The threads.  run_loop_navigation looks at its event before and after a *)
(* call; the call itself is under way for a while.                         *)
Goes(c, stage) == thread' = [thread EXCEPT ![c] = stage]

LoopTop(k) ==
  /\ thread[k] = "top"
  /\ Goes(k, IF k \in stop THEN "done" ELSE "sending")
  /\ UNCHANGED <<guiVars, joy, cancels, plans>> /\ NavUnchanged
SendsCall(c) ==
  /\ thread[c] = "sending"
  /\ Goes(c, "calling") /\ plans' = Append(plans, c)
  /\ UNCHANGED <<guiVars, joy, cancels>> /\ NavUnchanged
LoopReturn(k) ==
  /\ thread[k] \in {"arrived", "failed"}
  /\ IF k \in stop THEN Goes(k, "done") /\ UNCHANGED signals
     ELSE IF thread[k] = "failed" THEN Goes(k, "done") /\ signals' = signals \cup {k}
     ELSE Goes(k, "top") /\ UNCHANGED signals
  /\ UNCHANGED <<work, estop, loop, current, stop, held>>
  /\ UNCHANGED <<joy, cancels, plans>> /\ NavUnchanged

(* cancel_navigation of a loop: no answer in time, and a pause instead.     *)
CancelFails(k) ==
  /\ cancels[k] = "called"
  /\ \E end \in {"late", "failed"} : cancels' = [cancels EXCEPT ![k] = end]
  /\ joy' = Append(joy, "pause")
  /\ UNCHANGED <<guiVars, thread, plans>> /\ NavUnchanged

-----------------------------------------------------------------------------
(* run_nav: the Joy thread, one callback at a time and one store at a time *)
(* (pause_robot before pause_reentry_requested_; in a cancellation the     *)
(* request before both). *)
JoyCallback ==
  /\ joyPc = "" /\ joy # <<>> /\ joy' = Tail(joy)
  /\ paused' = (Head(joy) = "pause")
  /\ joyPc' = IF Head(joy) = "pause" THEN "paused" ELSE ""
  /\ UNCHANGED <<guiVars, thread, cancels, plans, mission, place, reentry, cancel>>
  /\ UNCHANGED tagVars
PauseReentry ==
  /\ joyPc = "paused" /\ joyPc' = "" /\ reentry' = TRUE
  /\ UNCHANGED <<guiVars, midVars, mission, place, paused, cancel>> /\ UNCHANGED tagVars

CancelNavigation(k) ==
  /\ joyPc = "" /\ cancels[k] \in {"called", "late"}
  /\ cancels' = [cancels EXCEPT ![k] = "none"]
  /\ joyPc' = "canceled" /\ cancel' = TRUE
  /\ UNCHANGED <<guiVars, thread, joy, plans, mission, place, paused, reentry>>
  /\ UNCHANGED tagVars
CancelUnpauses ==
  /\ joyPc = "canceled" /\ joyPc' = "unpaused" /\ paused' = FALSE
  /\ UNCHANGED <<guiVars, midVars, mission, place, reentry, cancel>> /\ UNCHANGED tagVars
CancelClearsReentry ==
  /\ joyPc = "unpaused" /\ joyPc' = "" /\ reentry' = FALSE
  /\ UNCHANGED <<guiVars, midVars, mission, place, paused, cancel>> /\ UNCHANGED tagVars

(* run_nav: the thread of plan_path_and_go.  planPathCallback: a           *)
(* cancellation of before it rejects the goal; one during the search, or   *)
(* the wait for a blocked edge, is not looked at, and is kept if there is  *)
(* no route.                                                               *)
Answer(c, result) == Goes(c, IF c = Goto THEN "idle" ELSE result)

PlanPath ==
  /\ mission = Nobody /\ plans # <<>> /\ plans' = Tail(plans)
  /\ IF cancel
     THEN cancel' = FALSE /\ Answer(Head(plans), "failed") /\ UNCHANGED <<mission, place>>
     ELSE mission' = Head(plans) /\ place' = "planning" /\ UNCHANGED <<cancel, thread>>
  /\ UNCHANGED <<guiVars, joy, cancels, paused, reentry, joyPc>> /\ UNCHANGED tagVars
RouteFound ==
  /\ place = "planning" /\ place' = "driving"
  /\ UNCHANGED <<guiVars, midVars, mission, flags>> /\ UNCHANGED tagVars
NoRoute ==
  /\ place = "planning" /\ place' = "none"
  /\ mission' = Nobody /\ Answer(mission, "failed")
  /\ UNCHANGED <<guiVars, joy, cancels, plans, flags>> /\ UNCHANGED tagVars

(* sendGoalAndMonitor: into the pause loop, out of it, and then the        *)
(* request is cleared and the goal sent again, whatever pause came since.  *)
MissionPauses ==
  /\ place = "driving" /\ ~cancel /\ reentry /\ place' = "paused"
  /\ UNCHANGED <<guiVars, midVars, mission, flags>> /\ UNCHANGED tagVars
MissionResumes ==
  /\ place = "paused" /\ ~paused /\ place' = "resumed"
  /\ UNCHANGED <<guiVars, midVars, mission, flags>> /\ UNCHANGED tagVars
MissionReenters ==
  /\ place = "resumed" /\ place' = "driving" /\ reentry' = FALSE
  /\ UNCHANGED <<guiVars, midVars, mission, paused, cancel, joyPc>> /\ UNCHANGED tagVars

(* A mission is cancelled where it looks at the request, or it ends by     *)
(* itself, which it need not do: on a fixed route it waits for its goal.   *)
EndsWith(result) ==
  /\ mission' = Nobody /\ place' = "none" /\ cancel' = FALSE /\ Answer(mission, result)
  /\ UNCHANGED <<guiVars, joy, cancels, plans, paused, reentry, joyPc>> /\ UNCHANGED tagVars
MissionCanceled ==
  /\ cancel /\ (place = "driving" \/ (place = "paused" /\ paused))
  /\ EndsWith("failed")
MissionEnds ==
  /\ place = "driving" /\ \E result \in {"arrived", "failed"} : EndsWith(result)

Docking == TagStep /\ UNCHANGED <<guiVars, navVars>> /\ UNCHANGED midVars

Operator ==
  \/ StartLoop \/ StopButton \/ EmergencyStop \/ ReleaseEmergencyStop
  \/ NavPause \/ NavResume \/ AddPoint \/ GoTo
  \/ \E r \in Requests : SlowMove(r)
Console == WaitForService \/ \E k \in Loops : OnLoopUpdate(k)
Threads ==
  \/ \E k \in Loops : LoopTop(k) \/ LoopReturn(k)
  \/ \E c \in Callers : SendsCall(c)
  \/ \E k \in Loops : CancelFails(k)
JoyStep == PauseReentry \/ CancelUnpauses \/ CancelClearsReentry
JoyThread == JoyCallback \/ JoyStep \/ \E k \in Loops : CancelNavigation(k)
MissionStep == PlanPath \/ RouteFound \/ NoRoute \/ MissionPauses \/ MissionResumes
               \/ MissionReenters \/ MissionCanceled
RunNav == JoyThread \/ MissionStep \/ MissionEnds

Next == Operator \/ Console \/ Threads \/ RunNav \/ Docking

(* Every thread runs, the call of a cancellation returns, and run_nav      *)
(* finds a route or none.  Nothing is assumed of the operator and of       *)
(* messages, nor that a goal ends: only that a cancelled one does.         *)
Fairness ==
  /\ \A k \in Loops : /\ WF_vars(LoopTop(k) \/ LoopReturn(k) \/ SendsCall(k))
                      /\ WF_vars(CancelNavigation(k) \/ CancelFails(k))
  /\ WF_vars(JoyStep) /\ WF_vars(MissionStep)
  /\ WF_vars(Docking)
Spec == Init /\ [][Next]_vars /\ Fairness
-----------------------------------------------------------------------------
(* The mission drives, and will not look at a pause or cancellation next.  *)
Drives == place = "driving" /\ ~reentry /\ ~cancel

(* An emergency stop holds beyond its release: once its pause has reached  *)
(* run_nav no mission goes on driving and no docking, until the operator   *)
(* asks for motion ("the robot stays paused", line 3082), although         *)
(* stopping a loop unpauses run_nav to cancel its goal, in any order with  *)
(* the pause.  It does not hold, and held does not claim it, for a stop    *)
(* pressed beside two goals or a docking, or while run_nav still resumes   *)
(* from an earlier pause: then its pause may be lost.                      *)
StaysStopped == held /\ joy = <<>> /\ joyPc = "" => ~Drives /\ vel = "stop"

(* The loop the console shows is the one that runs: a signal of an earlier *)
(* loop neither ends nor hides a later one.                                *)
LoopIsShown ==
  current # Nobody /\ thread[current] # "done" => loop = "running"

(* A loop that was stopped ends, since its goal is cancelled wherever it   *)
(* is: sent or not yet, being planned, driven or paused.  That is unless   *)
(* its cancellation is not confirmed in time, and a pause is sent instead; *)
(* or run_nav serves another goal before it, which may use the             *)
(* cancellation up.                                                        *)
Stopped(k) == thread[k] \notin {"idle", "done"} /\ current # k
ServedNext ==
  IF mission # Nobody THEN {mission} ELSE IF plans # <<>> THEN {Head(plans)} ELSE {}
Confirmed(k) == cancels[k] \notin {"late", "failed"}
StoppedLoopEnds ==
  \A k \in Loops :
    [](Stopped(k) => ServedNext \subseteq {k} /\ Confirmed(k)) => []<>~Stopped(k)
=============================================================================
