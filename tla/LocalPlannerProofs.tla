------------------------- MODULE LocalPlannerProofs -------------------------
(***************************************************************************)
(* Proofs about the local planner, for any routes, however many topologies *)
(* are published, any goals and any obstacles.                             *)
(***************************************************************************)
EXTENDS LocalPlanner, TLAPS

(* What a generation may hand over; of a job and of a path through it the  *)
(* fields that the steps read. *)
WellMade(result) ==
  /\ result.mode = "hybrid" => result.fallback = result.straight
  /\ result.mode = "curve" => result.straight = {}
Modes == {"invalid", "polyline", "curve", "hybrid"}
Results ==
  {r \in [ok : BOOLEAN, mode : Modes, straight : SUBSET Int, fallback : SUBSET Int] :
     WellMade(r)}
Jobs == [running : BOOLEAN, ready : BOOLEAN, version : Int, route : Seq(Goals),
         result : Results]

(* What a path and its segments are made of. *)
LEMMA PathIsResult ==
  ASSUME NEW m \in {"polyline", "curve", "hybrid"}, NEW s \in SUBSET Int,
         m = "curve" => s = {}
  PROVE  Path(m, s) \in Results /\ Path(m, s).fallback = Path(m, s).straight
<1>1. Path(m, s) \in [ok : BOOLEAN, mode : Modes, straight : SUBSET Int, fallback : SUBSET Int]
  BY DEF Path, Modes
<1>2. Path(m, s).mode = m /\ Path(m, s).straight = s /\ Path(m, s).fallback = s
  BY DEF Path
<1>3. WellMade(Path(m, s))
  BY <1>2 DEF WellMade
<1> QED BY <1>1, <1>2, <1>3 DEF Results

LEMMA NoResultIsResult == NoResult \in Results
<1>1. NoResult \in [ok : BOOLEAN, mode : Modes, straight : SUBSET Int, fallback : SUBSET Int]
  BY DEF NoResult, Modes
<1>2. NoResult.mode = "invalid"
  BY DEF NoResult
<1> QED BY <1>1, <1>2 DEF Results, WellMade

LEMMA CurveIsResult ==
  ASSUME NEW n \in Nat,
         NEW p \in BsplinePaths(n) \cup ChunkedPaths(n) \cup CubicPaths(n)
  PROVE  p \in Results /\ p.fallback = p.straight
<1> DEFINE OK(q) == q \in Results /\ q.fallback = q.straight
<1>1. CurveSegments(n) \in SUBSET Int
  BY DEF CurveSegments
<1>2. OK(Polyline(n))
  BY <1>1, PathIsResult DEF Polyline
<1>3. ASSUME NEW s \in SUBSET Int PROVE OK(Path("hybrid", s))
  BY PathIsResult
<1>4. OK(Path("curve", {}))
  BY PathIsResult
<1>5. CASE p \in BsplinePaths(n)
  <2>1. p = Path("curve", {})
    BY <1>5 DEF BsplinePaths
  <2> QED BY <2>1, <1>4
<1>6. CASE p \in ChunkedPaths(n)
  <2>1. PICK lines \in UNION {{l \in SUBSET Chunks(b) : \A c \in Chunks(b) \ l : c[2] > c[1] + 1} :
                                 b \in Breakpoints(n)} :
          p = LET s == UNION {c[1] .. c[2] - 1 : c \in lines}
              IN IF s = CurveSegments(n) THEN Polyline(n) ELSE Path("hybrid", s)
    BY <1>6 DEF ChunkedPaths
  <2> DEFINE s == UNION {c[1] .. c[2] - 1 : c \in lines}
  <2>2. s \in SUBSET Int
    OBVIOUS
  <2>3. p = Polyline(n) \/ p = Path("hybrid", s)
    BY <2>1
  <2>4. OK(Path("hybrid", s))
    BY <2>2, <1>3
  <2> QED BY <2>3, <2>4, <1>2
<1>7. CASE p \in CubicPaths(n)
  <2>1. p = Polyline(n) \/ p = Path("curve", {}) \/ p \in HybridPaths(n)
    BY <1>7 DEF CubicPaths
  <2>2. CASE p \in HybridPaths(n)
    <3>1. PICK s \in SUBSET CurveSegments(n) :
            p = Path(IF s = {} THEN "curve" ELSE "hybrid", s)
      BY <2>2 DEF HybridPaths
    <3>2. OK(Path("hybrid", s))
      BY <1>1, <1>3
    <3>3. p = Path("curve", {}) \/ p = Path("hybrid", s)
      BY <3>1
    <3> QED BY <3>2, <3>3, <1>4
  <2> QED BY <2>1, <2>2, <1>2, <1>4
<1> QED BY <1>5, <1>6, <1>7

(* Whatever is generated, where it is straight is known: the segments are  *)
(* renumbered for the whole route in both. *)
LEMMA GeneratedIsResult ==
  ASSUME NEW n \in Nat, NEW result \in Generated(n) PROVE result \in Results
<1>1. CASE result = NoResult
  BY <1>1, NoResultIsResult
<1>2. CASE result # NoResult
  <2>1. CurvePoses(n) \in Nat
    BY DEF CurvePoses
  <2>2. PICK p \in BsplinePaths(CurvePoses(n)) \cup ChunkedPaths(CurvePoses(n))
                   \cup CubicPaths(CurvePoses(n)) :
          result = [p EXCEPT !.straight = {i + 1 : i \in @}, !.fallback = Expanded(@)]
    BY <1>2 DEF Generated
  <2>3. p \in Results /\ p.fallback = p.straight
    BY <2>1, CurveIsResult
  <2>4. /\ p \in [ok : BOOLEAN, mode : Modes, straight : SUBSET Int, fallback : SUBSET Int]
        /\ p.mode = "curve" => p.straight = {}
    BY <2>3 DEF Results, WellMade
  <2> DEFINE t == {i + 1 : i \in p.straight}
  <2>5. t \in SUBSET Int /\ (p.straight = {} => t = {})
    BY <2>4
  <2>6. result = [ok |-> p.ok, mode |-> p.mode, straight |-> t, fallback |-> t]
    BY <2>2, <2>3, <2>4 DEF Expanded
  <2> HIDE DEF t
  <2> QED BY <2>4, <2>5, <2>6 DEF Results, WellMade
<1> QED BY <1>1, <1>2

-----------------------------------------------------------------------------
(* The path is of the route.                                               *)

JobsOK ==
  /\ topo \in Seq(Goals) /\ given \in Seq(Goals) /\ version \in Nat
  /\ job \in Jobs /\ taken \in Jobs

(* A job, what was taken of one, and the poses of the next job are of the  *)
(* route that holds, if they are of its version; versions only grow.       *)
JobIsOfRoute ==
  /\ job.version <= version
  /\ (job.running \/ job.ready) /\ job.version = version => torn \/ job.route = topo
TakenIsOfRoute ==
  /\ pc = "compare" =>
       taken.version <= version /\ (taken.version = version => torn \/ taken.route = topo)
  /\ pc \in {"useful", "install"} => torn \/ taken.route = topo
GivenIsOfRoute == pc \in {"need", "version", "launch"} => torn \/ given = topo

RouteInv == JobsOK /\ JobIsOfRoute /\ TakenIsOfRoute /\ GivenIsOfRoute /\ PathIsOfRoute

LEMMA NoJobIsJob == NoJob \in Jobs
BY NoResultIsResult DEF NoJob, Jobs

LEMMA RouteInit == Init => RouteInv
<1> SUFFICES ASSUME Init PROVE RouteInv
  OBVIOUS
<1>1. JobsOK
  BY NoJobIsJob DEF Init, JobsOK
<1>2. JobIsOfRoute
  BY DEF Init, JobIsOfRoute, NoJob
<1>3. TakenIsOfRoute /\ GivenIsOfRoute /\ PathIsOfRoute
  BY DEF Init, TakenIsOfRoute, GivenIsOfRoute, PathIsOfRoute, NoPath
<1> QED BY <1>1, <1>2, <1>3 DEF RouteInv

LEMMA RouteOfTopology ==
  ASSUME RouteInv, version < Len(Topologies),
         NEW r \in Topologies[version + 1], TopologyArrives(r)
  PROVE  RouteInv'
<1>1. r \in Seq(Goals)
  BY TopologiesAssumption DEF RouteInv, JobsOK
<1>2. JobsOK'
  BY <1>1 DEF RouteInv, JobsOK, TopologyArrives, locals, jobs
<1>3. version' = version + 1 /\ version \in Nat /\ job \in Jobs /\ taken \in Jobs
  BY DEF RouteInv, JobsOK, TopologyArrives
<1>4. job.version \in Int /\ taken.version \in Int
  BY <1>3 DEF Jobs
<1>5. JobIsOfRoute'
  BY <1>3, <1>4 DEF RouteInv, JobIsOfRoute, TopologyArrives, jobs
<1>6. TakenIsOfRoute'
  <2>1. UNCHANGED <<pc, taken>>
    BY DEF TopologyArrives, locals
  <2>2. pc \in {"useful", "install"} => torn'
    BY DEF TopologyArrives, BetweenLooks
  <2>3. pc = "compare" => taken.version <= version
    BY DEF RouteInv, TakenIsOfRoute
  <2>4. pc = "compare" => taken.version <= version + 1 /\ taken.version # version + 1
    BY <2>3, <1>3, <1>4
  <2> QED BY <2>1, <2>2, <2>4, <1>3 DEF TakenIsOfRoute
<1>7. GivenIsOfRoute'
  BY DEF GivenIsOfRoute, TopologyArrives, locals, BetweenLooks
<1>8. PathIsOfRoute'
  BY DEF PathIsOfRoute, TopologyArrives, NoPath
<1> QED BY <1>2, <1>5, <1>6, <1>7, <1>8 DEF RouteInv

LEMMA RouteOfGenerate ==
  ASSUME RouteInv, Generate PROVE RouteInv'
<1>1. PICK result \in Generated(Len(job.route)) :
        job' = [job EXCEPT !.running = FALSE, !.ready = TRUE, !.result = result]
  BY DEF Generate
<1>2. job \in Jobs /\ job.running
  BY DEF RouteInv, JobsOK, Generate
<1>3. result \in Results
  <2>1. Len(job.route) \in Nat
    BY <1>2 DEF Jobs
  <2> QED BY <2>1, GeneratedIsResult
<1>4. job' \in Jobs
  BY <1>1, <1>2, <1>3 DEF Jobs
<1>5. job'.version = job.version /\ job'.route = job.route
  BY <1>1, <1>2 DEF Jobs
<1>6. UNCHANGED <<topo, version, path, used, pc, given, taken, torn>>
  BY DEF Generate, manager, locals
<1>7. JobsOK'
  BY <1>4, <1>6 DEF RouteInv, JobsOK
<1>8. JobIsOfRoute'
  BY <1>2, <1>5, <1>6 DEF RouteInv, JobIsOfRoute
<1> QED BY <1>6, <1>7, <1>8 DEF RouteInv, TakenIsOfRoute, GivenIsOfRoute, PathIsOfRoute, used

(* Steps that leave the manager, the job and the path alone: they may take *)
(* nothing, and stand nowhere where it matters what was taken. *)
LEMMA RouteElsewhere ==
  ASSUME RouteInv, UNCHANGED <<manager, job, used, torn>>,
         taken' \in {taken, NoJob}, given' \in {given, <<>>},
         pc' \in {"compare", "useful", "install", "need", "version", "launch"}
           => pc' = pc /\ UNCHANGED <<taken, given>>
  PROVE  RouteInv'
<1>1. JobsOK'
  <2>1. <<>> \in Seq(Goals)
    OBVIOUS
  <2> QED BY <2>1, NoJobIsJob DEF RouteInv, JobsOK, manager
<1>2. JobIsOfRoute' /\ TakenIsOfRoute' /\ GivenIsOfRoute'
  BY DEF RouteInv, JobIsOfRoute, TakenIsOfRoute, GivenIsOfRoute, manager
<1>3. PathIsOfRoute'
  BY DEF RouteInv, PathIsOfRoute, manager, used
<1> QED BY <1>1, <1>2, <1>3 DEF RouteInv

(* A step of isGoalReached, of the choice of what to do, or of the control *)
(* itself. *)
LEMMA RouteOfCommand ==
  ASSUME RouteInv,
         IsGoalReached \/ NoPose \/ Prepares \/ Follow \/ Sync \/ Track \/ Line
  PROVE  RouteInv'
<1> USE DEF Others, ForgetsLocals, Ends, Goes, Calls, Fails, Commands, LooksUp, Answers,
        jobs, locals, used, manager
<1>1. /\ UNCHANGED <<manager, job, used, torn>>
      /\ taken' \in {taken, NoJob} /\ given' \in {given, <<>>}
  <2>1. CASE IsGoalReached
    BY <2>1 DEF IsGoalReached, CycleBegins, PassesGoal, Again, Progress
  <2>2. CASE NoPose
    BY <2>2 DEF NoPose
  <2>3. CASE Prepares
    BY <2>3 DEF Prepares, Should, InTheMiddle, Prepare, Have, Got, Pending, Failed, ConsumesAs
  <2>4. CASE Follow \/ Sync \/ Track \/ Line
    BY <2>4 DEF Follow, Sync, Track, Line
  <2> QED BY <2>1, <2>2, <2>3, <2>4
<1>2. pc' \notin {"compare", "useful", "install", "need", "version", "launch"}
  <2>1. CASE IsGoalReached
    BY <2>1 DEF IsGoalReached, CycleBegins, PassesGoal, Again, Progress
  <2>2. CASE NoPose
    BY <2>2 DEF NoPose
  <2>3. CASE Prepares
    BY <2>3 DEF Prepares, Should, InTheMiddle, Prepare, Have, Got, Pending, Failed, ConsumesAs
  <2>4. CASE Follow \/ Sync \/ Track \/ Line
    BY <2>4 DEF Follow, Sync, Track, Line
  <2> QED BY <2>1, <2>2, <2>3, <2>4
<1> QED BY <1>1, <1>2, RouteElsewhere

LEMMA RouteOfConsume ==
  ASSUME RouteInv, Consume \/ Compare \/ UsefulJob PROVE RouteInv'
<1> USE DEF Others, Goes, NotConsumed
<1>1. CASE Consume
  <2>1. CASE job.ready
    <3>1. UNCHANGED <<manager, job, used, torn, given>> /\ taken' = job /\ pc' = "compare"
      BY <1>1, <2>1 DEF Consume, jobs
    <3> QED BY <2>1, <3>1 DEF RouteInv, JobsOK, JobIsOfRoute, TakenIsOfRoute, GivenIsOfRoute,
               PathIsOfRoute, manager, used
  <2>2. CASE ~job.ready
    <3>1. UNCHANGED <<manager, job, used, torn, given>> /\ taken' = NoJob
      BY <1>1, <2>2 DEF Consume, jobs
    <3>2. pc' \in {"pending", "start"}
      BY <1>1, <2>2 DEF Consume
    <3> QED BY <3>1, <3>2, RouteElsewhere
  <2> QED BY <2>1, <2>2
<1>2. CASE Compare
  <2>1. job \in Jobs /\ ~job.running
    BY <1>2 DEF RouteInv, JobsOK, Compare
  <2>2. job' = [job EXCEPT !.ready = FALSE, !.route = <<>>, !.result = NoResult]
    BY <1>2 DEF Compare
  <2>3. job' \in Jobs /\ job'.version = job.version /\ ~job'.running /\ ~job'.ready
    <3>1. <<>> \in Seq(Goals)
      OBVIOUS
    <3> QED BY <2>1, <2>2, <3>1, NoResultIsResult DEF Jobs
  <2>4. UNCHANGED <<manager, used, torn, given>> /\ taken' \in {taken, NoJob}
    BY <1>2 DEF Compare
  <2>5. JobsOK' /\ JobIsOfRoute'
    BY <2>3, <2>4, NoJobIsJob DEF RouteInv, JobsOK, JobIsOfRoute, manager
  <2>6. pc' \notin {"compare", "install", "need", "version", "launch"}
    BY <1>2 DEF Compare
  <2>7. pc' = "useful" => taken.version = version /\ taken' = taken /\ pc = "compare"
    BY <1>2 DEF Compare, SameVersion
  <2>8. TakenIsOfRoute' /\ GivenIsOfRoute'
    BY <2>4, <2>6, <2>7 DEF RouteInv, TakenIsOfRoute, GivenIsOfRoute, manager
  <2>9. PathIsOfRoute'
    BY <2>4 DEF RouteInv, PathIsOfRoute, manager, used
  <2> QED BY <2>5, <2>8, <2>9 DEF RouteInv
<1>3. CASE UsefulJob
  <2>1. UNCHANGED <<manager, job, used, torn, given>> /\ taken' \in {taken, NoJob}
    BY <1>3 DEF UsefulJob
  <2>2. pc = "useful" /\ (pc' = "install" => taken' = taken)
    BY <1>3 DEF UsefulJob
  <2>3. pc' \in {"install", "pending", "start"}
    BY <1>3 DEF UsefulJob
  <2>4. JobsOK' /\ JobIsOfRoute'
    BY <2>1, NoJobIsJob DEF RouteInv, JobsOK, JobIsOfRoute, manager
  <2>5. TakenIsOfRoute' /\ GivenIsOfRoute'
    BY <2>1, <2>2, <2>3 DEF RouteInv, TakenIsOfRoute, GivenIsOfRoute, manager
  <2>6. PathIsOfRoute'
    BY <2>1 DEF RouteInv, PathIsOfRoute, manager, used
  <2> QED BY <2>4, <2>5, <2>6 DEF RouteInv
<1> QED BY <1>1, <1>2, <1>3

LEMMA RouteOfInstall ==
  ASSUME RouteInv, Install PROVE RouteInv'
<1>1. taken \in Jobs /\ (torn \/ taken.route = topo)
  BY DEF RouteInv, JobsOK, TakenIsOfRoute, Install
<1>2. WellMade(taken.result)
  BY <1>1 DEF Jobs, Results
<1>3. /\ UNCHANGED <<topo, version, job, torn, given>> /\ taken' = NoJob
      /\ mode' = taken.result.mode /\ fallback' = taken.result.fallback
      /\ path' = [have |-> TRUE, route |-> taken.route, straight |-> taken.result.straight]
  BY DEF Install, Consumed, jobs
<1>4. pc' \in {"start", "got"}
  BY DEF Install, Consumed, Goes
<1>5. JobsOK' /\ JobIsOfRoute'
  BY <1>3, NoJobIsJob DEF RouteInv, JobsOK, JobIsOfRoute
<1>6. TakenIsOfRoute' /\ GivenIsOfRoute'
  BY <1>4 DEF TakenIsOfRoute, GivenIsOfRoute
<1>7. PathIsOfRoute'
  BY <1>1, <1>2, <1>3 DEF PathIsOfRoute, WellMade
<1> QED BY <1>5, <1>6, <1>7 DEF RouteInv

LEMMA RouteOfStart ==
  ASSUME RouteInv, Starts PROVE RouteInv'
<1> USE DEF Others, Goes, Calls, NotStarted
<1>1. CASE Start
  <2>1. UNCHANGED <<manager, job, used, torn, taken>> /\ given' \in {topo, given, <<>>}
    BY <1>1 DEF Start, jobs
  <2>2. pc' \in {"need", "should", "have"} /\ (pc' = "need" => given' = topo)
    BY <1>1 DEF Start
  <2>3. JobsOK'
    <3>1. <<>> \in Seq(Goals)
      OBVIOUS
    <3> QED BY <2>1, <3>1 DEF RouteInv, JobsOK, manager
  <2>4. JobIsOfRoute' /\ TakenIsOfRoute' /\ GivenIsOfRoute'
    BY <2>1, <2>2 DEF RouteInv, JobIsOfRoute, TakenIsOfRoute, GivenIsOfRoute, manager
  <2>5. PathIsOfRoute'
    BY <2>1 DEF RouteInv, PathIsOfRoute, manager, used
  <2> QED BY <2>3, <2>4, <2>5 DEF RouteInv
<1>2. CASE Need \/ Version
  <2>1. UNCHANGED <<manager, job, used, torn, taken>> /\ given' \in {given, <<>>}
    BY <1>2 DEF Need, Version, jobs, locals
  <2>2. /\ pc \in {"need", "version"} /\ pc' \in {"version", "launch", "should", "have"}
        /\ pc' \in {"version", "launch"} => given' = given
    BY <1>2 DEF Need, Version, locals
  <2>3. JobsOK'
    <3>1. <<>> \in Seq(Goals)
      OBVIOUS
    <3> QED BY <2>1, <3>1 DEF RouteInv, JobsOK, manager
  <2>4. JobIsOfRoute' /\ TakenIsOfRoute' /\ GivenIsOfRoute'
    BY <2>1, <2>2 DEF RouteInv, JobIsOfRoute, TakenIsOfRoute, GivenIsOfRoute, manager
  <2>5. PathIsOfRoute'
    BY <2>1 DEF RouteInv, PathIsOfRoute, manager, used
  <2> QED BY <2>3, <2>4, <2>5 DEF RouteInv
<1>3. CASE Launch
  <2>1. /\ UNCHANGED <<manager, used, torn, taken>> /\ given' = <<>>
        /\ pc = "launch" /\ pc' \in {"should", "have"}
    BY <1>3 DEF Launch, manager
  <2>2. job' = job \/ job' = [NoJob EXCEPT !.running = TRUE, !.version = version, !.route = given]
    BY <1>3 DEF Launch
  <2>3. version \in Nat /\ given \in Seq(Goals) /\ (torn \/ given = topo)
    BY <2>1 DEF RouteInv, JobsOK, GivenIsOfRoute
  <2>4. ASSUME job' = [NoJob EXCEPT !.running = TRUE, !.version = version, !.route = given]
        PROVE  job' \in Jobs /\ JobIsOfRoute'
    <3>1. job' = [running |-> TRUE, ready |-> FALSE, version |-> version, route |-> given,
                  result |-> NoResult]
      BY <2>4 DEF NoJob
    <3>2. job' \in Jobs
      BY <3>1, <2>3, NoResultIsResult DEF Jobs
    <3>3. job'.version = version /\ job'.route = given
      BY <3>1
    <3>4. version <= version
      BY <2>3
    <3>5. JobIsOfRoute'
      BY <3>3, <3>4, <2>1, <2>3 DEF JobIsOfRoute, manager
    <3> QED BY <3>2, <3>5
  <2>5. job' \in Jobs /\ JobIsOfRoute'
    BY <2>1, <2>2, <2>4 DEF RouteInv, JobsOK, JobIsOfRoute, manager
  <2>6. JobsOK'
    <3>1. <<>> \in Seq(Goals)
      OBVIOUS
    <3> QED BY <2>1, <2>5, <3>1 DEF RouteInv, JobsOK, manager
  <2>7. TakenIsOfRoute' /\ GivenIsOfRoute'
    BY <2>1 DEF TakenIsOfRoute, GivenIsOfRoute
  <2>8. PathIsOfRoute'
    BY <2>1 DEF RouteInv, PathIsOfRoute, manager, used
  <2> QED BY <2>5, <2>6, <2>7, <2>8 DEF RouteInv
<1> QED BY <1>1, <1>2, <1>3 DEF Starts

(* Between the cycles. *)
LEMMA RouteOfOthers ==
  ASSUME RouteInv,
         \/ \E g \in Targets, f \in FixedRoutes : GoalArrives(g, f)
         \/ Plans \/ FindsNoPlan \/ GoalEnds \/ Obstacle \/ Moves \/ UNCHANGED vars
  PROVE  RouteInv'
<1>1. UNCHANGED <<manager, job, used, torn, taken, given, pc>>
  BY DEF GoalArrives, Plans, FindsNoPlan, GoalEnds, Obstacle, Moves, vars, jobs, locals
<1> QED BY <1>1, RouteElsewhere

LEMMA RouteStep == RouteInv /\ [Next]_vars => RouteInv'
<1> SUFFICES ASSUME RouteInv, [Next]_vars PROVE RouteInv'
  OBVIOUS
<1> QED BY RouteOfTopology, RouteOfGenerate, RouteOfCommand, RouteOfConsume, RouteOfInstall,
           RouteOfStart, RouteOfOthers DEF Next, Controller, Consumes

(* The path that is followed is made of the poses of the route that holds  *)
(* and its straight segments are known, unless a topology came between two *)
(* looks: consumeReferencePathJob and maybeStartReferencePathJob. *)
THEOREM PathIsAlwaysOfRoute == Spec => []PathIsOfRoute
<1>1. Spec => []RouteInv
  BY RouteInit, RouteStep, PTL DEF Spec
<1>2. RouteInv => PathIsOfRoute
  BY DEF RouteInv
<1> QED BY <1>1, <1>2, PTL

-----------------------------------------------------------------------------
(* Goals that are passed go on.                                            *)

(* When the first look has not found a path to pass the goal on, the       *)
(* second finds none either: only the control thread installs one, and a   *)
(* topology takes it away. *)
Follows(i) == Middle(i) /\ path.have /\ CanFollow(i)
PassInv ==
  /\ PassedGoalsGoOn
  /\ pc = "passes" => ~path.have \/ at = GoalIndex(goal)
  /\ pc = "again" /\ mark = "line" => ~Follows(GoalIndex(goal))
  /\ pc = "progress" => ~Follows(at)

LEMMA SameIndex ==
  ASSUME UNCHANGED <<topo, goal>> PROVE GoalIndex(goal)' = GoalIndex(goal)
BY DEF GoalIndex

LEMMA SameFollows ==
  ASSUME UNCHANGED <<topo, path, mode, fallback>>
  PROVE  \A i : Follows(i)' = Follows(i)
BY DEF Follows, Middle, CanFollow

LEMMA PassOfTopology ==
  ASSUME PassInv, NEW r, TopologyArrives(r) PROVE PassInv'
<1>1. ~path'.have /\ passed' = passed
  BY DEF TopologyArrives, NoPath, plan
<1> QED BY <1>1 DEF PassInv, PassedGoalsGoOn, Follows

(* Steps that are not about the first or the second look. *)
LEMMA PassElsewhere ==
  ASSUME PassInv, passed' \in {passed, FALSE}, pc' \notin {"passes", "again", "progress"}
  PROVE  PassInv'
<1>1. ~passed'
  <2>1. CASE passed' = passed
    BY <2>1 DEF PassInv, PassedGoalsGoOn
  <2>2. CASE passed' = FALSE
    BY <2>2
  <2> QED BY <2>1, <2>2
<1>2. pc' # "passes" /\ pc' # "again" /\ pc' # "progress"
  OBVIOUS
<1> QED BY <1>1, <1>2 DEF PassInv, PassedGoalsGoOn

LEMMA PassOfReached ==
  ASSUME PassInv, IsGoalReached PROVE PassInv'
<1> USE DEF Others, Goes, Calls
<1>1. UNCHANGED <<topo, path, mode, fallback, goal, mark>>
  BY DEF IsGoalReached, CycleBegins, PassesGoal, Again, Progress, manager, used, plan, lineVars
<1>2. GoalIndex(goal)' = GoalIndex(goal) /\ \A i : Follows(i)' = Follows(i)
  BY <1>1, SameIndex, SameFollows
<1>3. CASE CycleBegins
  <2>1. passed' = passed
    BY <1>3 DEF CycleBegins, plan
  <2>2. CASE mark = "line"
    <3>1. pc' = "passes" /\ at' = GoalIndex(goal)
      BY <1>3, <2>2 DEF CycleBegins, LooksUp
    <3> QED BY <1>1, <1>2, <2>1, <3>1 DEF PassInv, PassedGoalsGoOn
  <2>3. CASE mark # "line"
    <3>1. pc' \notin {"passes", "progress"}
      BY <1>3, <2>3 DEF CycleBegins, Commands, Fails, Answers, Ends
    <3> QED BY <1>1, <2>1, <2>3, <3>1 DEF PassInv, PassedGoalsGoOn
  <2> QED BY <2>2, <2>3
<1>4. CASE PassesGoal
  <2>1. passed' = passed /\ pc = "passes" /\ pc' \in {"consume", "again"}
    BY <1>4 DEF PassesGoal, plan
  <2>2. pc' = "again" => ~Follows(at)
    BY <1>4 DEF PassesGoal, Passes, Follows
  <2>3. pc' = "again" => ~Follows(GoalIndex(goal))
    BY <2>1, <2>2 DEF PassInv, Follows
  <2> QED BY <1>2, <2>1, <2>3 DEF PassInv, PassedGoalsGoOn
<1>5. CASE Again
  <2>1. passed' = passed /\ pc = "again" /\ ~passed
    BY <1>5 DEF Again, PassInv, PassedGoalsGoOn
  <2>2. CASE mark = "line"
    <3>1. pc' = "progress" /\ at' = GoalIndex(goal)
      BY <1>5, <2>1, <2>2 DEF Again, LooksUp
    <3>2. ~Follows(GoalIndex(goal))
      BY <2>1, <2>2 DEF PassInv
    <3> QED BY <1>2, <2>1, <3>1, <3>2 DEF PassInv, PassedGoalsGoOn
  <2>3. CASE mark # "line"
    <3>1. pc' \notin {"passes", "again", "progress"}
      BY <1>5, <2>3 DEF Again, Answers, Ends
    <3> QED BY <2>1, <3>1, PassElsewhere
  <2> QED BY <2>2, <2>3
<1>6. CASE Progress
  <2>1. ~Follows(at)
    BY <1>6 DEF PassInv, Progress
  <2>2. passed' = passed
    BY <1>6, <2>1 DEF Progress, Follows
  <2>3. pc' \notin {"passes", "again", "progress"}
    BY <1>6 DEF Progress, Answers, Ends
  <2> QED BY <2>2, <2>3, PassElsewhere
<1> QED BY <1>3, <1>4, <1>5, <1>6 DEF IsGoalReached

LEMMA PassOfCycle ==
  ASSUME PassInv, Consumes \/ Starts \/ Prepares \/ Follow \/ Sync \/ Track \/ Line
  PROVE  PassInv'
<1> USE DEF Others, Goes, Calls, Commands, Fails, Ends, plan
<1>1. passed' \in {passed, FALSE}
  <2>1. CASE Consumes
    BY <2>1 DEF Consumes, NoPose, Consume, Compare, UsefulJob, Install
  <2>2. CASE Starts
    BY <2>2 DEF Starts, Start, Need, Version, Launch
  <2>3. CASE Prepares
    BY <2>3 DEF Prepares, Should, InTheMiddle, Prepare, Have, Got, Pending, Failed
  <2>4. CASE Follow \/ Sync \/ Track \/ Line
    BY <2>4 DEF Follow, Sync, Track, Line, ForceLegacy
  <2> QED BY <2>1, <2>2, <2>3, <2>4
<1>2. pc' \notin {"passes", "again", "progress"}
  <2>1. CASE Consumes
    BY <2>1 DEF Consumes, NoPose, Consume, Compare, UsefulJob, Install, NotConsumed, Consumed
  <2>2. CASE Starts
    BY <2>2 DEF Starts, Start, Need, Version, Launch, NotStarted
  <2>3. CASE Prepares
    BY <2>3 DEF Prepares, Should, InTheMiddle, Prepare, Have, Got, Pending, Failed, LooksUp,
       ConsumesAs
  <2>4. CASE Follow \/ Sync \/ Track \/ Line
    BY <2>4 DEF Follow, Sync, Track, Line
  <2> QED BY <2>1, <2>2, <2>3, <2>4
<1> QED BY <1>1, <1>2, PassElsewhere

LEMMA PassOfPlans ==
  ASSUME PassInv, Plans PROVE PassInv'
<1>1. pc' = "idle"
  BY DEF Plans
<1>2. passed' \in {passed, FALSE}
  BY DEF Plans, SetPlan
<1> QED BY <1>1, <1>2, PassElsewhere

LEMMA PassOfOthers ==
  ASSUME PassInv,
         \/ \E g \in Targets, f \in FixedRoutes : GoalArrives(g, f)
         \/ FindsNoPlan \/ GoalEnds \/ Obstacle \/ Moves \/ Generate \/ UNCHANGED vars
  PROVE  PassInv'
<1>1. UNCHANGED <<topo, path, mode, fallback, goal, mark, passed, pc, at>>
  BY DEF GoalArrives, FindsNoPlan, GoalEnds, Obstacle, Moves, Generate, vars, manager, used,
     plan, lineVars, locals
<1>2. GoalIndex(goal)' = GoalIndex(goal) /\ \A i : Follows(i)' = Follows(i)
  BY <1>1, SameIndex, SameFollows
<1> QED BY <1>1, <1>2 DEF PassInv, PassedGoalsGoOn

LEMMA PassStep == PassInv /\ [Next]_vars => PassInv'
<1> SUFFICES ASSUME PassInv, [Next]_vars PROVE PassInv'
  OBVIOUS
<1> QED BY PassOfTopology, PassOfReached, PassOfCycle, PassOfPlans, PassOfOthers
        DEF Next, Controller

(* isGoalReached never ends a goal because the robot has passed it on the  *)
(* reference path: reference_goal_reached_ is not set by any interleaving  *)
(* of isGoalReached and topologyCallback. *)
THEOREM PassedGoalsAlwaysGoOn == Spec => []PassedGoalsGoOn
<1>1. Init => PassInv
  BY DEF Init, PassInv, PassedGoalsGoOn
<1>2. Spec => []PassInv
  BY <1>1, PassStep, PTL DEF Spec
<1>3. PassInv => PassedGoalsGoOn
  BY DEF PassInv
<1> QED BY <1>2, <1>3, PTL

-----------------------------------------------------------------------------
(* Goals that are reached.                                                 *)

LineTypes ==
  /\ status \in 0 .. 5
  /\ yawErr \in BOOLEAN /\ been \in BOOLEAN /\ heading \in {"unseen", "wrong", "right"}

(* Of what the status says, and the yaw error that is kept. *)
Seen ==
  /\ yawErr => heading # "wrong"
  /\ status = 3 => been /\ heading = "right"
  /\ status \in {2, 5} => been

(* Nothing that is reported is still to be done. *)
Reports ==
  /\ base.state # "idle" => verdict # "reached"
  /\ pc # "idle" => base.state # "idle"

BaseOK ==
  base \in [state : {"idle", "planning", "controlling"}, goal : Targets \cup {NoGoal},
            fixed : BOOLEAN, awake : BOOLEAN]

ReachInv ==
  LineTypes /\ Seen /\ Reports /\ BaseOK /\ mark \in Marks /\ ReachedWasThere

LEMMA ReachInit == Init => ReachInv
<1> SUFFICES ASSUME Init PROVE ReachInv
  OBVIOUS
<1>1. status = 0 /\ yawErr = TRUE /\ been = FALSE /\ heading = "unseen"
  BY DEF Init, LineInit
<1>2. LineTypes
  <2>1. status \in 0 .. 5
    BY <1>1
  <2> QED BY <1>1, <2>1, Zenon DEF LineTypes
<1>3. Seen
  BY <1>1 DEF Seen
<1>4. Reports /\ ReachedWasThere /\ BaseOK /\ mark \in Marks
  BY DEF Init, Reports, ReachedWasThere, BaseOK, Idle, Marks
<1> QED BY <1>2, <1>3, <1>4 DEF ReachInv

LEMMA LookSees ==
  ASSUME LineTypes, Look
  PROVE  /\ yawErr' = Turned /\ (Turned => heading' = "right")
         /\ heading' \in {"wrong", "right"} /\ (heading = "right" => heading' = "right")
         /\ (been => been') /\ (InPlace => been')
         /\ yawErr' \in BOOLEAN /\ been' \in BOOLEAN
BY DEF LineTypes, Look, Turned, InPlace

LEMMA TurnedIsBoolean == Turned \in BOOLEAN /\ InPlace \in BOOLEAN
BY DEF Turned, InPlace

(* The status says of the next cycle what it says of this one. *)
LEMMA SwitchIsSeen ==
  ASSUME LineTypes, Seen, NEW far \in BOOLEAN, NEW astray \in BOOLEAN
  PROVE  LET next == NextStatus(far, astray)
         IN /\ next \in 0 .. 5
            /\ next = 3 => (been \/ InPlace) /\ (Turned \/ (status = 3 /\ heading = "right"))
            /\ next \in {2, 5} => been \/ InPlace
<1> DEFINE next == NextStatus(far, astray)
<1>1. CASE Reached(Turned)
  <2>1. next = 3 /\ InPlace /\ Turned
    BY <1>1 DEF NextStatus, Reached
  <2> QED BY <2>1
<1>2. CASE ~Reached(Turned)
  <2>1. next \in 0 .. 5
    BY <1>2 DEF NextStatus, LineTypes
  <2>2. next = 3 => (status = 2 /\ Turned) \/ status = 3
    BY <1>2 DEF NextStatus, LineTypes
  <2>3. next \in {2, 5} => InPlace \/ status \in {2, 5}
    BY <1>2 DEF NextStatus, LineTypes
  <2> QED BY <2>1, <2>2, <2>3 DEF Seen
<1> QED BY <1>1, <1>2

LEMMA ReachOfLine ==
  ASSUME LineTypes, Seen, NEW cmd, LineCommand(cmd)
  PROVE  LineTypes' /\ Seen'
<1>1. PICK far \in BOOLEAN, astray \in BOOLEAN : status' = NextStatus(far, astray)
  BY DEF LineCommand
<1>2. Look
  BY DEF LineCommand
<1>3. /\ status' \in 0 .. 5
      /\ status' = 3 => (been \/ InPlace) /\ (Turned \/ (status = 3 /\ heading = "right"))
      /\ status' \in {2, 5} => been \/ InPlace
  BY <1>1, SwitchIsSeen
<1>4. LineTypes'
  <2>1. yawErr' \in BOOLEAN /\ been' \in BOOLEAN /\ heading' \in {"wrong", "right"}
    BY <1>2, LookSees
  <2> QED BY <2>1, <1>3 DEF LineTypes
<1>5. yawErr' => heading' # "wrong"
  <2>1. yawErr' = Turned /\ (Turned => heading' = "right")
    BY <1>2, LookSees
  <2> QED BY <2>1
<1>6. (been \/ InPlace) => been'
  BY <1>2, LookSees
<1>7. status' = 3 => been' /\ heading' = "right"
  <2>1. (Turned \/ heading = "right") => heading' = "right"
    BY <1>2, LookSees
  <2> QED BY <2>1, <1>3, <1>6
<1>8. Seen'
  BY <1>3, <1>5, <1>6, <1>7 DEF Seen
<1> QED BY <1>4, <1>8

LEMMA ReachOfPlan ==
  ASSUME LineTypes, Seen, NEW g, NewGoal(g), UNCHANGED yawErr
  PROVE  LineTypes' /\ Seen'
<1>1. CASE g = goal
  <2>1. UNCHANGED <<status, yawErr, been, heading>>
    BY <1>1 DEF NewGoal
  <2> QED BY <2>1 DEF LineTypes, Seen
<1>2. CASE g # goal
  <2>1. status' = 1 /\ been' = FALSE /\ heading' = "unseen" /\ yawErr' = yawErr
    BY <1>2 DEF NewGoal
  <2>2. status' \in 0 .. 5 /\ status' \notin {2, 3, 5}
    BY <2>1
  <2> QED BY <2>1, <2>2 DEF LineTypes, Seen
<1> QED BY <1>1, <1>2

(* What happens to the status where the line does not choose it. *)
LEMMA ReachOfOthers ==
  ASSUME LineTypes, Seen,
         \/ status' = status
         \/ status' = 1,
         \/ Look
         \/ UNCHANGED <<yawErr, heading>> /\ (been' = been \/ been' = (been \/ InPlace))
  PROVE  LineTypes' /\ Seen'
<1>1. status' \in 0 .. 5
  BY DEF LineTypes
<1>2. (status' = 3 => status = 3) /\ (status' \in {2, 5} => status \in {2, 5})
  OBVIOUS
<1>3. CASE Look
  <2>1. /\ yawErr' = Turned /\ (Turned => heading' = "right")
        /\ heading' \in {"wrong", "right"} /\ (heading = "right" => heading' = "right")
        /\ (been => been') /\ yawErr' \in BOOLEAN /\ been' \in BOOLEAN
    BY <1>3, LookSees
  <2>2. LineTypes'
    BY <1>1, <2>1 DEF LineTypes
  <2>3. Seen'
    BY <1>2, <2>1 DEF Seen
  <2> QED BY <2>2, <2>3
<1>4. CASE UNCHANGED <<yawErr, heading>> /\ (been' = been \/ been' = (been \/ InPlace))
  <2>1. been' \in BOOLEAN /\ (been => been')
    BY <1>4, TurnedIsBoolean DEF LineTypes
  <2>2. LineTypes'
    BY <1>1, <1>4, <2>1 DEF LineTypes
  <2>3. Seen'
    BY <1>2, <1>4, <2>1 DEF Seen
  <2> QED BY <2>2, <2>3
<1> QED BY <1>3, <1>4

LEMMA LineOfController ==
  ASSUME LineTypes, Seen, Controller PROVE LineTypes' /\ Seen'
<1>1. CASE CycleBegins \/ PassesGoal \/ Consumes \/ Starts \/ Prepares \/ Track
  <2>1. UNCHANGED lineVars
    BY <1>1 DEF CycleBegins, PassesGoal, Consumes, NoPose, Consume, Compare, UsefulJob,
       Install, Starts, Start, Need, Version, Launch, Prepares, Should, InTheMiddle, Prepare,
       Have, Got, Pending, Failed, Track
  <2> QED BY <2>1 DEF lineVars, LineTypes, Seen
<1>2. CASE Again \/ Progress
  <2>1. UNCHANGED <<status, yawErr, heading>> /\ (been' = been \/ been' = (been \/ InPlace))
    BY <1>2 DEF Again, Progress
  <2> QED BY <2>1, ReachOfOthers
<1>3. CASE Follow \/ Sync
  <2>1. status' = status \/ status' = 1
    BY <1>3 DEF Follow, Sync, ForceLegacy, StartOver
  <2>2. Look \/ UNCHANGED <<yawErr, been, heading>>
    BY <1>3 DEF Follow, Sync
  <2> QED BY <2>1, <2>2, ReachOfOthers
<1>4. CASE Line
  <2>1. UNCHANGED lineVars \/ \E cmd \in {"drive", "turn", "stop"} : LineCommand(cmd)
    BY <1>4 DEF Line
  <2>2. CASE UNCHANGED lineVars
    BY <2>2 DEF lineVars, LineTypes, Seen
  <2> QED BY <2>1, <2>2, ReachOfLine
<1> QED BY <1>1, <1>2, <1>3, <1>4 DEF Controller, IsGoalReached

LEMMA LineStep ==
  ASSUME LineTypes, Seen, [Next]_vars PROVE LineTypes' /\ Seen'
<1>1. CASE Plans
  <2>1. UNCHANGED yawErr /\ \E m \in Marks : SetPlan(base.goal, m)
    BY <1>1 DEF Plans
  <2>2. UNCHANGED <<status, been, heading>> \/ NewGoal(base.goal)
    BY <2>1 DEF SetPlan
  <2>3. CASE UNCHANGED <<status, been, heading>>
    BY <2>1, <2>3 DEF LineTypes, Seen
  <2>4. CASE NewGoal(base.goal)
    BY <2>1, <2>4, ReachOfPlan
  <2> QED BY <2>2, <2>3, <2>4
<1>2. CASE \/ \E g \in Targets, f \in FixedRoutes : GoalArrives(g, f)
           \/ Generate \/ FindsNoPlan \/ GoalEnds \/ Obstacle \/ Moves \/ UNCHANGED vars
  <2>1. UNCHANGED <<status, yawErr, been, heading>>
    BY <1>2 DEF TopologyArrives, Generate, GoalArrives, FindsNoPlan, GoalEnds, Obstacle, Moves,
       vars, lineVars
  <2> QED BY <2>1 DEF LineTypes, Seen
<1>3. CASE \E r \in Topologies[version + 1] : TopologyArrives(r)
  <2>1. UNCHANGED <<status, yawErr, been, heading>>
    BY <1>3 DEF TopologyArrives, lineVars
  <2> QED BY <2>1 DEF LineTypes, Seen
<1> QED BY <1>1, <1>2, <1>3, LineOfController DEF Next

(* A step of a cycle goes on with it, ends it with a command, or ends it   *)
(* and the goal with it. *)
LEMMA CycleStep ==
  ASSUME Controller
  PROVE  /\ pc # "idle" \/ base.state = "controlling"
         /\ \/ UNCHANGED <<base, verdict>>
            \/ /\ pc' = "idle" /\ verdict' # "reached"
               /\ base' = base \/ base' = [base EXCEPT !.state = "planning"]
            \/ pc' = "idle" /\ base' = Idle
<1> USE DEF Fails, Commands, Ends, Goes, Calls, Answers, LooksUp, NotConsumed, Consumed,
        NotStarted, ConsumesAs
<1>1. CASE IsGoalReached
  BY <1>1 DEF IsGoalReached, CycleBegins, PassesGoal, Again, Progress
<1>2. CASE Consumes
  BY <1>2 DEF Consumes, NoPose, Consume, Compare, UsefulJob, Install
<1>3. CASE Starts
  BY <1>3 DEF Starts, Start, Need, Version, Launch
<1>4. CASE Prepares
  BY <1>4 DEF Prepares, Should, InTheMiddle, Prepare, Have, Got, Pending, Failed
<1>5. CASE Follow \/ Sync \/ Track \/ Line
  BY <1>5 DEF Follow, Sync, Track, Line
<1> QED BY <1>1, <1>2, <1>3, <1>4, <1>5 DEF Controller

LEMMA BaseStep ==
  ASSUME BaseOK, Reports, [Next]_vars PROVE BaseOK' /\ Reports'
<1>1. CASE Controller
  <2>1. base.state # "idle" /\ verdict # "reached"
    BY <1>1, CycleStep DEF Reports
  <2>2. CASE UNCHANGED <<base, verdict>>
    BY <2>1, <2>2 DEF BaseOK, Reports
  <2>3. CASE /\ pc' = "idle" /\ verdict' # "reached"
             /\ base' = base \/ base' = [base EXCEPT !.state = "planning"]
    BY <2>3 DEF BaseOK, Reports
  <2>4. CASE pc' = "idle" /\ base' = Idle
    BY <2>4 DEF BaseOK, Reports, Idle
  <2> QED BY <1>1, CycleStep, <2>2, <2>3, <2>4
<1>2. ASSUME NEW g \in Targets, NEW f \in FixedRoutes, GoalArrives(g, f)
      PROVE  BaseOK' /\ Reports'
  <2>1. f \in BOOLEAN
    BY FixedAssumption
  <2>2. base' = [state |-> "planning", goal |-> g, fixed |-> f, awake |-> TRUE]
    BY <1>2 DEF GoalArrives
  <2>3. verdict' # "reached" /\ pc' = "idle"
    BY <1>2 DEF GoalArrives, Reports
  <2> QED BY <2>1, <2>2, <2>3 DEF BaseOK, Reports
<1>3. CASE Plans
  <2>1. base' = [base EXCEPT !.state = "controlling", !.awake = PlansAgain]
    BY <1>3 DEF Plans
  <2>2. PlansAgain \in BOOLEAN
    BY DEF PlansAgain
  <2>3. BaseOK' /\ base'.state # "idle"
    BY <2>1, <2>2 DEF BaseOK
  <2>4. verdict' = verdict /\ base.state # "idle"
    BY <1>3 DEF Plans
  <2> QED BY <2>3, <2>4 DEF Reports
<1>4. CASE GoalEnds
  <2>1. base' = Idle /\ pc' = "idle"
    BY <1>4 DEF GoalEnds
  <2> QED BY <2>1 DEF BaseOK, Reports, Idle
<1>5. CASE \/ \E r \in Topologies[version + 1] : TopologyArrives(r)
           \/ Generate \/ FindsNoPlan \/ Obstacle \/ Moves \/ UNCHANGED vars
  <2>1. UNCHANGED <<base, pc, verdict>>
    BY <1>5 DEF TopologyArrives, Generate, FindsNoPlan, Obstacle, Moves, vars
  <2> QED BY <2>1 DEF BaseOK, Reports
<1> QED BY <1>1, <1>2, <1>3, <1>4, <1>5 DEF Next

LEMMA MarkStep ==
  ASSUME mark \in Marks, [Next]_vars PROVE mark' \in Marks
<1>1. CASE Plans
  BY <1>1 DEF Plans, SetPlan
<1>2. CASE Controller
  BY <1>2 DEF Controller, IsGoalReached, CycleBegins, PassesGoal, Again, Progress, Consumes,
     NoPose, Consume, Compare, UsefulJob, Install, Starts, Start, Need, Version, Launch,
     Prepares, Should, InTheMiddle, Prepare, Have, Got, Pending, Failed, Follow, Sync, Track,
     Line, plan
<1>3. CASE \/ \E r \in Topologies[version + 1] : TopologyArrives(r)
           \/ \E g \in Targets, f \in FixedRoutes : GoalArrives(g, f)
           \/ Generate \/ FindsNoPlan \/ GoalEnds \/ Obstacle \/ Moves \/ UNCHANGED vars
  BY <1>3 DEF TopologyArrives, GoalArrives, Generate, FindsNoPlan, GoalEnds, Obstacle, Moves,
     vars, plan
<1> QED BY <1>1, <1>2, <1>3 DEF Next

(* Only isGoalReached reports a goal as reached. *)
LEMMA ReportOfCycle ==
  ASSUME PassInv', ReachInv, Controller
  PROVE  ReachedWasThere'
<1>1. verdict # "reached"
  BY CycleStep DEF ReachInv, Reports
<1>2. CASE Again \/ Progress
  <2>1. SUFFICES ASSUME verdict' = "reached" PROVE been' /\ heading' # "wrong"
    BY DEF ReachedWasThere
  <2>2. ~passed'
    BY DEF PassInv, PassedGoalsGoOn
  <2>3. Arrived /\ been' = (been \/ InPlace) /\ UNCHANGED <<status, yawErr, heading>>
    BY <1>1, <1>2, <2>1, <2>2 DEF Again, Progress, Answers, Ends, Goes, LooksUp
  <2>4. (InPlace /\ yawErr) \/ status = 3
    BY <2>3 DEF Arrived, Reached
  <2> QED BY <2>3, <2>4 DEF ReachInv, Seen
<1>3. CASE CycleBegins
  <2>1. mark \in {"line", "wait", "else"}
    BY DEF ReachInv, Marks
  <2>2. mark # "else" => UNCHANGED verdict
    BY <1>3, <2>1 DEF CycleBegins, LooksUp, Goes, Calls
  <2>3. UNCHANGED mark
    BY <1>3 DEF CycleBegins, plan
  <2> QED BY <1>1, <2>2, <2>3 DEF ReachedWasThere
<1>4. CASE PassesGoal \/ Consumes \/ Starts \/ Prepares \/ Follow \/ Sync \/ Track \/ Line
  <2>1. verdict' # "reached"
    BY <1>1, <1>4 DEF PassesGoal, Consumes, NoPose, Consume, Compare, UsefulJob, Install,
       Starts, Start, Need, Version, Launch, Prepares, Should, InTheMiddle, Prepare, Have, Got,
       Pending, Failed, Follow, Sync, Track, Line, Fails, Commands, Ends, Goes, Calls,
       LooksUp, NotConsumed, Consumed, NotStarted, ConsumesAs
  <2> QED BY <2>1 DEF ReachedWasThere
<1> QED BY <1>2, <1>3, <1>4 DEF Controller, IsGoalReached

LEMMA ReportStep ==
  ASSUME PassInv', ReachInv, [Next]_vars PROVE ReachedWasThere'
<1>1. CASE \E g \in Targets, f \in FixedRoutes : GoalArrives(g, f)
  BY <1>1 DEF GoalArrives, ReachInv, Reports, ReachedWasThere
<1>2. CASE Plans
  BY <1>2 DEF Plans, ReachInv, Reports, ReachedWasThere
<1>3. CASE GoalEnds
  BY <1>3 DEF GoalEnds, ReachedWasThere
<1>4. CASE \/ \E r \in Topologies[version + 1] : TopologyArrives(r)
           \/ Generate \/ FindsNoPlan \/ Obstacle \/ Moves \/ UNCHANGED vars
  <2>1. UNCHANGED <<verdict, mark, been, heading>>
    BY <1>4 DEF TopologyArrives, Generate, FindsNoPlan, Obstacle, Moves, vars, plan, lineVars
  <2> QED BY <2>1 DEF ReachInv, ReachedWasThere
<1> QED BY <1>1, <1>2, <1>3, <1>4, ReportOfCycle DEF Next

(* Whatever the topologies, the goals and the obstacles do, a goal that is *)
(* reported as reached is one where the robot has been, and whose heading  *)
(* it was seen to have: of goal_yaw_err and the status, which are kept     *)
(* from one goal to the next, only the yaw error survives a new goal. *)
THEOREM ReachedGoalsWereThere == Spec => []ReachedWasThere
<1>1. Init => ReachInv /\ PassInv
  BY ReachInit DEF Init, PassInv, PassedGoalsGoOn
<1>2. ReachInv /\ PassInv /\ [Next]_vars => ReachInv' /\ PassInv'
  BY LineStep, BaseStep, MarkStep, ReportStep, PassStep DEF ReachInv
<1>3. ReachInv => ReachedWasThere
  BY DEF ReachInv
<1> QED BY <1>1, <1>2, <1>3, PTL DEF Spec
=============================================================================
