--------------------------- MODULE MoveBaseProofs ---------------------------
(***************************************************************************)
(* Proofs about move_base for any goals, parameters and number of recovery *)
(* behaviors.  Each lemma has one step per part of the code: the clients,  *)
(* executeCb, the cycle up to the state machine, its CONTROLLING and its   *)
(* CLEARING state, planThread, and the callbacks that wake or switch.      *)
(***************************************************************************)
EXTENDS MoveBase, TLAPS

(* A behavior that is about to run is on the list.  Nothing changes the    *)
(* index between the test (990) and the call (992), which is why the index *)
(* stays within the list although line 1004 increments it without a test.  *)
BehaviorExists == pc = "recover" => index < Behaviors
IndexOK == index \in 0 .. Behaviors /\ BehaviorExists

IInv == FlagsOK /\ GoalsOK /\ PlacesOK /\ IndexOK /\ IdleIsReset /\ StandsStillToRecover

LEMMA InitInvariant == Init => IInv
<1> SUFFICES ASSUME Init PROVE IInv
  OBVIOUS
<1>1. FlagsOK
  BY ParametersAssumption DEF Init, FlagsOK
<1>2. GoalsOK /\ PlacesOK
  BY DEF Init, GoalsOK, GoalOrNone, Over, PlacesOK
<1>3. IndexOK
  BY ParametersAssumption DEF Init, IndexOK, BehaviorExists
<1>4. IdleIsReset /\ StandsStillToRecover
  BY DEF Init, IdleIsReset, StandsStillToRecover
<1> QED BY <1>1, <1>2, <1>3, <1>4 DEF IInv

(* Every flag is computed from flags. *)
LEMMA FlagsStay ==
  ASSUME FlagsOK, Next PROVE FlagsOK'
<1>1. ASSUME NEW g \in Goals, SendGoal(g) \/ CancelGoal(g) PROVE FlagsOK'
  BY <1>1, ParametersAssumption DEF SendGoal, CancelGoal, FlagsOK, thread,
     plans, robot
<1>2. CASE ExecuteCb \/ TakeNewGoal \/ Preempted \/ GlobalFrameChanged \/
   NewGoalToPlanner \/ NextCycle
  BY <1>2, ParametersAssumption DEF ExecuteCb, TakeNewGoal, Preempted,
     GlobalFrameChanged, NewGoalToPlanner, NextCycle, AcceptNewGoal,
     EndGoal, StartPlanner, Notify, FlagsOK, server, thread, plans, robot
<1>3. CASE CycleBlind \/ CycleBegins \/ NewPlanToController \/ SetPlanFails
   \/ Planning \/ WakeThePlanner
  BY <1>3, ParametersAssumption DEF CycleBlind, CycleBegins,
     NewPlanToController, SetPlanFails, Planning, WakeThePlanner, MovedOn,
     Swap, EndGoal, StartPlanner, Notify, FlagsOK, server, thread, plans,
     robot
<1>4. CASE GoalReached \/ CommandFound \/ NoCommandFound
  BY <1>4, ParametersAssumption DEF GoalReached, CommandFound,
     NoCommandFound, EndGoal, Oscillates, FlagsOK, server, thread, plans,
     robot
<1>5. CASE Clearing \/ RunBehavior \/ RecoveryFailed
  BY <1>5, ParametersAssumption DEF Clearing, RunBehavior, RecoveryFailed,
     EndGoal, Recovers, FlagsOK, server, thread, plans, robot
<1>6. CASE Woken \/ MakePlan \/ InstallPlan \/ PlanningFailed \/ Rest
  BY <1>6, ParametersAssumption DEF Woken, MakePlan, InstallPlan,
     PlanningFailed, Rest, SleepOrPlan, FlagsOK, server, thread, plans,
     robot
<1>7. CASE WakePlanner \/ FixedRouteModeCB
  BY <1>7, ParametersAssumption DEF WakePlanner, FixedRouteModeCB, Notify,
     FlagsOK, server, thread, plans, robot
<1> QED BY <1>1, <1>2, <1>3, <1>4, <1>5, <1>6, <1>7 DEF Next, Client,
   Execute, PlanThread

(* The two threads stay at known places, the machine in known states. *)
LEMMA PlacesStay ==
  ASSUME PlacesOK, Next PROVE PlacesOK'
<1>1. ASSUME NEW g \in Goals, SendGoal(g) \/ CancelGoal(g) PROVE PlacesOK'
  BY <1>1, GoalsAssumption DEF SendGoal, CancelGoal, PlacesOK, thread,
     plans, robot
<1>2. CASE ExecuteCb \/ TakeNewGoal \/ Preempted \/ GlobalFrameChanged \/
   NewGoalToPlanner \/ NextCycle
  BY <1>2, GoalsAssumption DEF ExecuteCb, TakeNewGoal, Preempted,
     GlobalFrameChanged, NewGoalToPlanner, NextCycle, AcceptNewGoal,
     EndGoal, StartPlanner, Notify, PlacesOK, server, thread, plans, robot
<1>3. CASE CycleBlind \/ CycleBegins \/ NewPlanToController \/ SetPlanFails
   \/ Planning \/ WakeThePlanner
  BY <1>3, GoalsAssumption DEF CycleBlind, CycleBegins, NewPlanToController,
     SetPlanFails, Planning, WakeThePlanner, MovedOn, Swap, EndGoal,
     StartPlanner, Notify, PlacesOK, server, thread, plans, robot
<1>4. CASE GoalReached \/ CommandFound \/ NoCommandFound
  BY <1>4, GoalsAssumption DEF GoalReached, CommandFound, NoCommandFound,
     EndGoal, Oscillates, PlacesOK, server, thread, plans, robot
<1>5. CASE Clearing \/ RunBehavior \/ RecoveryFailed
  BY <1>5, GoalsAssumption DEF Clearing, RunBehavior, RecoveryFailed,
     EndGoal, Recovers, PlacesOK, server, thread, plans, robot
<1>6. CASE Woken \/ MakePlan \/ InstallPlan \/ PlanningFailed \/ Rest
  BY <1>6, GoalsAssumption DEF Woken, MakePlan, InstallPlan, PlanningFailed,
     Rest, SleepOrPlan, PlacesOK, server, thread, plans, robot
<1>7. CASE WakePlanner \/ FixedRouteModeCB
  BY <1>7, GoalsAssumption DEF WakePlanner, FixedRouteModeCB, Notify,
     PlacesOK, server, thread, plans, robot
<1> QED BY <1>1, <1>2, <1>3, <1>4, <1>5, <1>6, <1>7 DEF Next, Client,
   Execute, PlanThread

(* Only goals travel through the buffers and the server. *)
LEMMA GoalsStay ==
  ASSUME GoalsOK, Next PROVE GoalsOK'
<1>1. ASSUME NEW g \in Goals, SendGoal(g) \/ CancelGoal(g) PROVE GoalsOK'
  BY <1>1, GoalsAssumption DEF SendGoal, CancelGoal, GoalsOK, GoalOrNone,
     Over, thread, plans, robot
<1>2. CASE ExecuteCb \/ TakeNewGoal \/ Preempted \/ GlobalFrameChanged \/
   NewGoalToPlanner \/ NextCycle
  BY <1>2, GoalsAssumption DEF ExecuteCb, TakeNewGoal, Preempted,
     GlobalFrameChanged, NewGoalToPlanner, NextCycle, AcceptNewGoal,
     EndGoal, StartPlanner, Notify, GoalsOK, GoalOrNone, Over, server,
     thread, plans, robot
<1>3. CASE CycleBlind \/ CycleBegins \/ NewPlanToController \/ SetPlanFails
   \/ Planning \/ WakeThePlanner
  BY <1>3, GoalsAssumption DEF CycleBlind, CycleBegins, NewPlanToController,
     SetPlanFails, Planning, WakeThePlanner, MovedOn, Swap, EndGoal,
     StartPlanner, Notify, GoalsOK, GoalOrNone, Over, server, thread, plans,
     robot
<1>4. CASE GoalReached \/ CommandFound \/ NoCommandFound
  BY <1>4, GoalsAssumption DEF GoalReached, CommandFound, NoCommandFound,
     EndGoal, Oscillates, GoalsOK, GoalOrNone, Over, server, thread, plans,
     robot
<1>5. CASE Clearing \/ RunBehavior \/ RecoveryFailed
  BY <1>5, GoalsAssumption DEF Clearing, RunBehavior, RecoveryFailed,
     EndGoal, Recovers, GoalsOK, GoalOrNone, Over, server, thread, plans,
     robot
<1>6. CASE Woken \/ MakePlan \/ InstallPlan \/ PlanningFailed \/ Rest
  BY <1>6, GoalsAssumption DEF Woken, MakePlan, InstallPlan, PlanningFailed,
     Rest, SleepOrPlan, GoalsOK, GoalOrNone, Over, server, thread, plans,
     robot
<1>7. CASE WakePlanner \/ FixedRouteModeCB
  BY <1>7, GoalsAssumption DEF WakePlanner, FixedRouteModeCB, Notify,
     GoalsOK, GoalOrNone, Over, server, thread, plans, robot
<1> QED BY <1>1, <1>2, <1>3, <1>4, <1>5, <1>6, <1>7 DEF Next, Client,
   Execute, PlanThread

(* The index of the next behavior. *)
LEMMA IndexStays ==
  ASSUME IndexOK, Next PROVE IndexOK'
<1>1. ASSUME NEW g \in Goals, SendGoal(g) \/ CancelGoal(g) PROVE IndexOK'
  BY <1>1, ParametersAssumption DEF SendGoal, CancelGoal, IndexOK,
     BehaviorExists, thread, plans, robot
<1>2. CASE ExecuteCb \/ TakeNewGoal \/ Preempted \/ GlobalFrameChanged \/
   NewGoalToPlanner \/ NextCycle
  BY <1>2, ParametersAssumption DEF ExecuteCb, TakeNewGoal, Preempted,
     GlobalFrameChanged, NewGoalToPlanner, NextCycle, AcceptNewGoal,
     EndGoal, StartPlanner, Notify, IndexOK, BehaviorExists, server, thread,
     plans, robot
<1>3. CASE CycleBlind \/ CycleBegins \/ NewPlanToController \/ SetPlanFails
   \/ Planning \/ WakeThePlanner
  BY <1>3, ParametersAssumption DEF CycleBlind, CycleBegins,
     NewPlanToController, SetPlanFails, Planning, WakeThePlanner, MovedOn,
     Swap, EndGoal, StartPlanner, Notify, IndexOK, BehaviorExists, server,
     thread, plans, robot
<1>4. CASE GoalReached \/ CommandFound \/ NoCommandFound
  BY <1>4, ParametersAssumption DEF GoalReached, CommandFound,
     NoCommandFound, EndGoal, Oscillates, IndexOK, BehaviorExists, server,
     thread, plans, robot
<1>5. CASE Clearing \/ RunBehavior \/ RecoveryFailed
  BY <1>5, ParametersAssumption DEF Clearing, RunBehavior, RecoveryFailed,
     EndGoal, Recovers, IndexOK, BehaviorExists, server, thread, plans,
     robot
<1>6. CASE Woken \/ MakePlan \/ InstallPlan \/ PlanningFailed \/ Rest
  BY <1>6, ParametersAssumption DEF Woken, MakePlan, InstallPlan,
     PlanningFailed, Rest, SleepOrPlan, IndexOK, BehaviorExists, server,
     thread, plans, robot
<1>7. CASE WakePlanner \/ FixedRouteModeCB
  BY <1>7, ParametersAssumption DEF WakePlanner, FixedRouteModeCB, Notify,
     IndexOK, BehaviorExists, server, thread, plans, robot
<1> QED BY <1>1, <1>2, <1>3, <1>4, <1>5, <1>6, <1>7 DEF Next, Client,
   Execute, PlanThread

(* The end of a goal resets everything, and with runPlanner_ off what the  *)
(* planner thread still does for it (InstallPlan, PlanningFailed) changes  *)
(* neither the state nor the velocity.                                     *)
LEMMA IdleStays ==
  ASSUME IdleIsReset, Next PROVE IdleIsReset'
<1>1. ASSUME NEW g \in Goals, SendGoal(g) \/ CancelGoal(g) PROVE IdleIsReset'
  BY <1>1, GoalsAssumption DEF SendGoal, CancelGoal, IdleIsReset, thread,
     plans, robot
<1>2. CASE ExecuteCb \/ TakeNewGoal \/ Preempted \/ GlobalFrameChanged \/
   NewGoalToPlanner \/ NextCycle
  BY <1>2, GoalsAssumption DEF ExecuteCb, TakeNewGoal, Preempted,
     GlobalFrameChanged, NewGoalToPlanner, NextCycle, AcceptNewGoal,
     EndGoal, StartPlanner, Notify, IdleIsReset, server, thread, plans,
     robot
<1>3. CASE CycleBlind \/ CycleBegins \/ NewPlanToController \/ SetPlanFails
   \/ Planning \/ WakeThePlanner
  BY <1>3, GoalsAssumption DEF CycleBlind, CycleBegins, NewPlanToController,
     SetPlanFails, Planning, WakeThePlanner, MovedOn, Swap, EndGoal,
     StartPlanner, Notify, IdleIsReset, server, thread, plans, robot
<1>4. CASE GoalReached \/ CommandFound \/ NoCommandFound
  BY <1>4, GoalsAssumption DEF GoalReached, CommandFound, NoCommandFound,
     EndGoal, Oscillates, IdleIsReset, server, thread, plans, robot
<1>5. CASE Clearing \/ RunBehavior \/ RecoveryFailed
  BY <1>5, GoalsAssumption DEF Clearing, RunBehavior, RecoveryFailed,
     EndGoal, Recovers, IdleIsReset, server, thread, plans, robot
<1>6. CASE Woken \/ MakePlan \/ InstallPlan \/ PlanningFailed \/ Rest
  BY <1>6, GoalsAssumption DEF Woken, MakePlan, InstallPlan, PlanningFailed,
     Rest, SleepOrPlan, IdleIsReset, server, thread, plans, robot
<1>7. CASE WakePlanner \/ FixedRouteModeCB
  BY <1>7, GoalsAssumption DEF WakePlanner, FixedRouteModeCB, Notify,
     IdleIsReset, server, thread, plans, robot
<1> QED BY <1>1, <1>2, <1>3, <1>4, <1>5, <1>6, <1>7 DEF Next, Client,
   Execute, PlanThread

(* CLEARING is entered in four places; all but the oscillation stop the    *)
(* base, and no command is published in CLEARING.                          *)
LEMMA StillStays ==
  ASSUME StandsStillToRecover, Next PROVE StandsStillToRecover'
<1>1. ASSUME NEW g \in Goals, SendGoal(g) \/ CancelGoal(g) PROVE StandsStillToRecover'
  BY <1>1, GoalsAssumption DEF SendGoal, CancelGoal, StandsStillToRecover,
     thread, plans, robot
<1>2. CASE ExecuteCb \/ TakeNewGoal \/ Preempted \/ GlobalFrameChanged \/
   NewGoalToPlanner \/ NextCycle
  BY <1>2, GoalsAssumption DEF ExecuteCb, TakeNewGoal, Preempted,
     GlobalFrameChanged, NewGoalToPlanner, NextCycle, AcceptNewGoal,
     EndGoal, StartPlanner, Notify, StandsStillToRecover, server, thread,
     plans, robot
<1>3. CASE CycleBlind \/ CycleBegins \/ NewPlanToController \/ SetPlanFails
   \/ Planning \/ WakeThePlanner
  BY <1>3, GoalsAssumption DEF CycleBlind, CycleBegins, NewPlanToController,
     SetPlanFails, Planning, WakeThePlanner, MovedOn, Swap, EndGoal,
     StartPlanner, Notify, StandsStillToRecover, server, thread, plans,
     robot
<1>4. CASE GoalReached \/ CommandFound \/ NoCommandFound
  BY <1>4, GoalsAssumption DEF GoalReached, CommandFound, NoCommandFound,
     EndGoal, Oscillates, StandsStillToRecover, server, thread, plans, robot
<1>5. CASE Clearing \/ RunBehavior \/ RecoveryFailed
  BY <1>5, GoalsAssumption DEF Clearing, RunBehavior, RecoveryFailed,
     EndGoal, Recovers, StandsStillToRecover, server, thread, plans, robot
<1>6. CASE Woken \/ MakePlan \/ InstallPlan \/ PlanningFailed \/ Rest
  BY <1>6, GoalsAssumption DEF Woken, MakePlan, InstallPlan, PlanningFailed,
     Rest, SleepOrPlan, StandsStillToRecover, server, thread, plans, robot
<1>7. CASE WakePlanner \/ FixedRouteModeCB
  BY <1>7, GoalsAssumption DEF WakePlanner, FixedRouteModeCB, Notify,
     StandsStillToRecover, server, thread, plans, robot
<1> QED BY <1>1, <1>2, <1>3, <1>4, <1>5, <1>6, <1>7 DEF Next, Client,
   Execute, PlanThread

LEMMA StutterInvariant == IInv /\ UNCHANGED vars => IInv'
BY DEF IInv, FlagsOK, GoalsOK, PlacesOK, IndexOK, BehaviorExists, IdleIsReset,
   StandsStillToRecover, vars, server, thread, plans, robot

THEOREM Invariance == Spec => []IInv
<1>1. IInv /\ [Next]_vars => IInv'
  <2> SUFFICES ASSUME IInv, Next PROVE IInv'
    BY StutterInvariant
  <2>1. FlagsOK' /\ GoalsOK' /\ PlacesOK' /\ IndexOK'
    BY FlagsStay, GoalsStay, PlacesStay, IndexStays DEF IInv
  <2>2. IdleIsReset' /\ StandsStillToRecover'
    BY IdleStays, StillStays DEF IInv
  <2> QED BY <2>1, <2>2 DEF IInv
<1> QED BY InitInvariant, <1>1, PTL DEF Spec

(* The state of move_base keeps its types: in particular, line 992 never   *)
(* runs a behavior that is not on the list.                                *)
THEOREM TypeCorrect == Spec => []TypeOK
<1>1. IInv => TypeOK
  BY DEF IInv, IndexOK, TypeOK
<1> QED BY <1>1, Invariance, PTL

(* A goal that ends leaves a disabled planner, the first state of the      *)
(* machine and a base that was told to stop (resetState, 1167-1185).       *)
THEOREM EndedGoalLeavesNothing == Spec => []IdleIsReset
<1>1. IInv => IdleIsReset
  BY DEF IInv
<1> QED BY <1>1, Invariance, PTL

(* While a recovery is awaited for a failed plan or a failed control, the  *)
(* last velocity published is zero (655, 964).                             *)
THEOREM RecoveryIsAwaitedStanding == Spec => []StandsStillToRecover
<1>1. IInv => StandsStillToRecover
  BY DEF IInv
<1> QED BY <1>1, Invariance, PTL
=============================================================================
