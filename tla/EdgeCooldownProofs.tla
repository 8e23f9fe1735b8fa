------------------------- MODULE EdgeCooldownProofs -------------------------
(***************************************************************************)
(* Proofs about the temporary blocks of topology edges and the wait for    *)
(* one to expire, for every graph and all parameters.  The invariant holds *)
(* whatever a search finds, so it is proved for the moves of EdgeCooldown  *)
(* without the promise of a search, and inherited by both specifications:  *)
(* the abstract one and the one with the search of the code.               *)
(***************************************************************************)
EXTENDS DijkstraPlanner, FiniteSetTheorems, TLAPS

Moves == Drive \/ TakeRoute \/ NoRoute \/ Check \/ Tick

(* The wait sleeps only for a block that is still there: otherwise the age *)
(* of the wait could outgrow the longest block.                            *)
StillBlocked == pc = "sleep" => Temporary # {}

IInv == TypeOK /\ BlocksAreOlder /\ StillBlocked

(* A block lasts at most blocked_cooldown_max, whatever the failures. *)
LEMMA CooldownIsBounded ==
  ASSUME NEW count \in 1 .. MaxFailures
  PROVE  Cooldown(count) \in 0 .. CooldownMax
<1>1. BackoffFactor ^ (count - 1) \in Nat
  <2>1. count - 1 \in 0 .. MaxFailures
    BY CooldownAssumption
  <2> QED BY <2>1, PowerAssumption
<1>2. CooldownInitial * BackoffFactor ^ (count - 1) \in Nat
  <2> DEFINE power == BackoffFactor ^ (count - 1)
  <2>1. \A a, b \in Nat : a * b \in Nat
    OBVIOUS
  <2> QED BY <1>1, <2>1, CooldownAssumption
<1> QED BY <1>2, CooldownAssumption DEF Cooldown

LEMMA InitInvariant == Init => IInv
<1> SUFFICES ASSUME Init PROVE IInv
  OBVIOUS
<1>1. BlocksOK
  BY CooldownAssumption DEF Init, BlocksOK
<1>2. WaitOK /\ fixed \in BOOLEAN
  <2>1. 0 \in Pose
    BY PosesAssumption DEF Pose
  <2>2. waited \in Nat /\ trip \in Pose \X Pose
    BY <2>1 DEF Init
  <2>3. /\ pc \in {"drive", "plan", "poll", "check", "sleep"} /\ fixed \in BOOLEAN
        /\ found \in {"open", "path", "none"}
    BY DEF Init
  <2> QED BY <2>2, <2>3 DEF WaitOK
<1>3. pc = "drive"
  BY DEF Init
<1> QED BY <1>1, <1>2, <1>3 DEF IInv, TypeOK, BlocksAreOlder, StillBlocked

LEMMA BlockEdgeInvariant ==
  ASSUME IInv, NEW from \in Pose, NEW to \in Pose, BlockEdge(from, to)
  PROVE  IInv'
<1>a. BlocksOK /\ WaitOK /\ fixed \in BOOLEAN
  BY DEF IInv, TypeOK
<1>0. pc = "drive" /\ UNCHANGED <<pc, waited, trip, fixed, asked, found>>
  BY DEF BlockEdge
<1>1. failures' \in [Graph -> 0 .. MaxFailures]
  BY <1>a, CooldownAssumption DEF BlocksOK, BlockEdge
<1>2. \A e \in Graph : e \in Blockable(from, to) => failures'[e] \in 1 .. MaxFailures
  BY <1>a, CooldownAssumption DEF BlocksOK, BlockEdge
<1>3. left' \in [Graph -> 0 .. CooldownMax]
  BY <1>a, <1>2, CooldownIsBounded DEF BlocksOK, BlockEdge
<1>4. TypeOK'
  BY <1>a, <1>0, <1>1, <1>3 DEF TypeOK, BlocksOK, WaitOK
<1>5. BlocksAreOlder' /\ StillBlocked'
  BY <1>0 DEF BlocksAreOlder, StillBlocked
<1> QED BY <1>4, <1>5 DEF IInv

LEMMA MarkEdgeSuccessInvariant ==
  ASSUME IInv, NEW from \in Pose, NEW to \in Pose, MarkEdgeSuccess(from, to)
  PROVE  IInv'
<1>a. BlocksOK /\ WaitOK /\ fixed \in BOOLEAN
  BY DEF IInv, TypeOK
<1>0. pc = "drive" /\ UNCHANGED <<pc, waited, trip, fixed, asked, found>>
  BY DEF MarkEdgeSuccess
<1>1. left' \in [Graph -> 0 .. CooldownMax] /\ failures' \in [Graph -> 0 .. MaxFailures]
  BY <1>a, CooldownAssumption DEF BlocksOK, MarkEdgeSuccess
<1>2. TypeOK'
  BY <1>a, <1>0, <1>1 DEF TypeOK, BlocksOK, WaitOK
<1>3. BlocksAreOlder' /\ StillBlocked'
  BY <1>0 DEF BlocksAreOlder, StillBlocked
<1> QED BY <1>2, <1>3 DEF IInv

LEMMA PlanInvariant ==
  ASSUME IInv, NEW ends \in Trips, NEW fix \in BOOLEAN, Plan(ends, fix)
  PROVE  IInv'
<1>a. BlocksOK /\ WaitOK
  BY DEF IInv, TypeOK
<1>1. Temporary \subseteq Graph
  BY DEF Temporary
<1>2. BlocksOK' /\ WaitOK'
  BY <1>a, <1>1, DrivenAssumption DEF Plan, UnchangedBlocks, BlocksOK, WaitOK
<1>3. fixed' \in BOOLEAN
  BY DEF Plan
<1>4. pc' = "plan"
  BY DEF Plan
<1> QED BY <1>2, <1>3, <1>4 DEF IInv, TypeOK, BlocksAreOlder, StillBlocked

(* The search and what follows it leave the blocks alone. *)
LEMMA SearchEndInvariant ==
  ASSUME IInv, TakeRoute \/ PlanFails
  PROVE  IInv'
<1>a. BlocksOK /\ WaitOK /\ fixed \in BOOLEAN
  BY DEF IInv, TypeOK
<1>1. /\ pc' = "drive" /\ found' \in {"open", "path", "none"}
      /\ UNCHANGED <<left, failures, waited, trip, fixed, asked>>
  BY DEF TakeRoute, PlanFails, UnchangedBlocks
<1>2. TypeOK'
  BY <1>a, <1>1 DEF TypeOK, BlocksOK, WaitOK
<1> QED BY <1>1, <1>2 DEF IInv, BlocksAreOlder, StillBlocked

LEMMA StartWaitInvariant ==
  ASSUME IInv, StartWait
  PROVE  IInv'
<1>a. BlocksOK /\ WaitOK /\ fixed \in BOOLEAN
  BY DEF IInv, TypeOK
<1>0. /\ pc' = "poll" /\ waited' = 0 /\ asked' = Temporary
      /\ UNCHANGED <<left, failures, trip, fixed, found>>
  BY DEF StartWait, UnchangedBlocks
<1>1. TypeOK'
  BY <1>a, <1>0 DEF TypeOK, BlocksOK, WaitOK, Temporary
<1>2. \A e \in Graph : left'[e] + waited' <= CooldownMax
  BY <1>a, <1>0, CooldownAssumption DEF BlocksOK
<1> QED BY <1>0, <1>1, <1>2 DEF IInv, BlocksAreOlder, StillBlocked

LEMMA PollFailsInvariant ==
  ASSUME IInv, PollFails
  PROVE  IInv'
<1>a. BlocksOK /\ WaitOK /\ fixed \in BOOLEAN
  BY DEF IInv, TypeOK
<1>0. /\ pc = "poll" /\ pc' = "check"
      /\ UNCHANGED <<left, failures, waited, trip, fixed, asked, found>>
  BY DEF PollFails, UnchangedBlocks
<1>1. TypeOK'
  BY <1>a, <1>0 DEF TypeOK, BlocksOK, WaitOK
<1>2. \A e \in Graph : left[e] + waited <= CooldownMax
  BY <1>0 DEF IInv, BlocksAreOlder
<1> QED BY <1>0, <1>1, <1>2 DEF IInv, BlocksAreOlder, StillBlocked

LEMMA CheckInvariant ==
  ASSUME IInv, Check
  PROVE  IInv'
<1>a. BlocksOK /\ WaitOK /\ fixed \in BOOLEAN
  BY DEF IInv, TypeOK
<1>0. pc = "check" /\ UNCHANGED <<left, failures, waited, trip, fixed, asked>>
  BY DEF Check, UnchangedBlocks
<1>1. \/ pc' = "drive" /\ found' = "none"
      \/ pc' = "sleep" /\ found' = found /\ Temporary # {}
  BY DEF Check, SomeBlockWillExpire
<1>2. TypeOK'
  BY <1>a, <1>0, <1>1 DEF TypeOK, BlocksOK, WaitOK
<1>3. \A e \in Graph : left[e] + waited <= CooldownMax
  BY <1>0 DEF IInv, BlocksAreOlder
<1>4. StillBlocked'
  BY <1>0, <1>1 DEF StillBlocked, Temporary, Lasts
<1> QED BY <1>0, <1>2, <1>3, <1>4 DEF IInv, BlocksAreOlder

LEMMA TickInvariant ==
  ASSUME IInv, Tick
  PROVE  IInv'
<1>a. BlocksOK /\ WaitOK /\ fixed \in BOOLEAN
  BY DEF IInv, TypeOK
<1>0. UNCHANGED <<failures, trip, fixed, found>>
  BY DEF Tick
<1>1. \/ pc = "sleep" /\ pc' = "poll" /\ asked' = Temporary'
      \/ pc # "sleep" /\ UNCHANGED <<pc, asked>>
  BY DEF Tick
<1>2. \A e \in Graph : left'[e] \in 0 .. CooldownMax
                       /\ (left[e] > 0 => left'[e] = left[e] - 1)
                       /\ (left[e] = 0 => left'[e] = 0)
  BY <1>a, CooldownAssumption DEF BlocksOK, Tick
<1>3. left' \in [Graph -> 0 .. CooldownMax]
  BY <1>2 DEF Tick
<1>4. waited' = IF pc \in {"poll", "check", "sleep"} THEN waited + 1 ELSE waited
  BY DEF Tick
<1>5. TypeOK'
  <2>1. BlocksOK'
    BY <1>a, <1>0, <1>1, <1>3 DEF BlocksOK, Temporary
  <2>2. waited' \in Nat
    BY <1>a, <1>4 DEF WaitOK
  <2>3. WaitOK'
    BY <1>a, <1>0, <1>1, <2>2 DEF WaitOK
  <2> QED BY <1>a, <1>0, <2>1, <2>3 DEF TypeOK
<1>6. BlocksAreOlder'
  <2> SUFFICES ASSUME pc' \in {"poll", "check", "sleep"}, NEW e \in Graph
               PROVE  left'[e] + waited' <= CooldownMax
    BY DEF BlocksAreOlder
  <2>1. pc \in {"poll", "check", "sleep"} /\ waited' = waited + 1
    BY <1>1, <1>4
  <2>2. \A g \in Graph : left[g] + waited <= CooldownMax
    BY <2>1 DEF IInv, BlocksAreOlder
  <2>3. Temporary # {}
    (* Time passes in a wait only while something is blocked. *)
    BY <2>1 DEF IInv, StillBlocked, Tick
  <2>4. PICK f \in Graph : left[f] > 0
    BY <2>3 DEF Temporary, Lasts
  <2>5. /\ left[e] \in Nat /\ left[f] \in Nat /\ waited \in Nat
        /\ left[e] + waited <= CooldownMax /\ left[f] + waited <= CooldownMax
    BY <1>a, <2>2, CooldownAssumption DEF BlocksOK, WaitOK
  <2> QED BY <2>1, <2>4, <2>5, <1>2, CooldownAssumption
<1>7. StillBlocked'
  BY <1>1 DEF StillBlocked
<1> QED BY <1>5, <1>6, <1>7 DEF IInv

LEMMA StutterInvariant == IInv /\ UNCHANGED vars => IInv'
BY DEF IInv, TypeOK, BlocksOK, WaitOK, BlocksAreOlder, StillBlocked, Temporary, Lasts, vars

LEMMA MovesInvariant == IInv /\ [Moves]_vars => IInv'
<1> SUFFICES ASSUME IInv, [Moves]_vars PROVE IInv'
  OBVIOUS
<1>1. ASSUME NEW leg \in Driven, BlockEdge(leg[1], leg[2]) \/ MarkEdgeSuccess(leg[1], leg[2])
      PROVE  IInv'
  <2>1. leg[1] \in Pose /\ leg[2] \in Pose
    BY DrivenAssumption
  <2> QED BY <1>1, <2>1, BlockEdgeInvariant, MarkEdgeSuccessInvariant
<1>2. ASSUME NEW ends \in Trips, NEW fix \in BOOLEAN, Plan(ends, fix)
      PROVE  IInv'
  BY <1>2, PlanInvariant
<1>3. CASE TakeRoute \/ NoRoute
  BY <1>3, SearchEndInvariant, StartWaitInvariant, PollFailsInvariant DEF NoRoute
<1>4. CASE Check
  BY <1>4, CheckInvariant
<1>5. CASE Tick
  BY <1>5, TickInvariant
<1>6. CASE UNCHANGED vars
  BY <1>6, StutterInvariant
<1> QED BY <1>1, <1>2, <1>3, <1>4, <1>5, <1>6 DEF Moves, Drive

LEMMA NextMoves == [Next]_vars => [Moves]_vars
BY DEF Next, Moves, SearchSucceeds, SearchFails

(* What the search does in its own variables is no move at all. *)
LEMMA PlannerMoves == [PlannerNext]_plannerVars => [Moves]_vars
<1> SUFFICES ASSUME [PlannerNext]_plannerVars PROVE [Moves]_vars
  OBVIOUS
<1>1. CASE DriveOn \/ BeginPlan
  BY <1>1 DEF DriveOn, BeginPlan, Moves, Drive
<1>2. CASE SkipOutdated \/ Expand
  BY <1>2 DEF SkipOutdated, Expand
<1>3. CASE Finish
  BY <1>3 DEF Finish, Moves, NoRoute
<1>4. CASE CheckWait \/ TimePasses
  BY <1>4 DEF CheckWait, TimePasses, Moves
<1>5. CASE UNCHANGED plannerVars
  BY <1>5 DEF plannerVars
<1> QED BY <1>1, <1>2, <1>3, <1>4, <1>5 DEF PlannerNext, SearchStep

(* Every reachable state satisfies the inductive invariant, with the       *)
(* search of the code and with any other that keeps its promise.           *)
THEOREM Invariance == Spec => []IInv
<1>1. IInv /\ [Next]_vars => IInv'
  BY NextMoves, MovesInvariant
<1> QED BY InitInvariant, <1>1, PTL DEF Spec

THEOREM PlannerInvariance == PlannerSpec => []IInv
<1>1. PlannerInit => IInv
  BY InitInvariant DEF PlannerInit
<1>2. IInv /\ [PlannerNext]_plannerVars => IInv'
  BY PlannerMoves, MovesInvariant
<1> QED BY <1>1, <1>2, PTL DEF PlannerSpec

(* Types: in particular no block lasts longer than blocked_cooldown_max,   *)
(* however often an edge has failed.                                       *)
THEOREM TypeCorrect == PlannerSpec => []TypeOK
BY PlannerInvariance, PTL DEF IInv

(* However long the searches take, a wait is never so old that a block     *)
(* made before it could still last blocked_cooldown_max after its start.   *)
THEOREM BlocksEnd == PlannerSpec => []BlocksAreOlder
BY PlannerInvariance, PTL DEF IInv

(* Every wait outlives every block, as long as blocked_wait_timeout is not *)
(* below blocked_cooldown_max: one that gives up has no block left to wait *)
(* for, and the search before it had no way to find, on any graph.         *)
THEOREM WaitIsLongEnough == Spec => GivesUpOnlyIfHopeless
<1> DEFINE NoWay == pc = "check" => ~HasWay(asked)
           LateAndLost == pc = "check" /\ pc' = "drive" /\ WaitIsLong =>
                            Temporary = {} /\ ~HasWay(asked)
<1>1. Init => NoWay
  BY DEF Init
<1>2. NoWay /\ [Next]_vars => NoWay'
  <2> SUFFICES ASSUME NoWay, [Next]_vars, pc' = "check" PROVE ~HasWay(asked)'
    OBVIOUS
  <2>1. CASE Drive
    BY <2>1 DEF Drive, BlockEdge, MarkEdgeSuccess, Plan
  <2>2. CASE SearchSucceeds
    BY <2>2 DEF SearchSucceeds, TakeRoute
  <2>3. CASE SearchFails
    BY <2>3 DEF SearchFails, NoRoute, PlanFails, StartWait, PollFails, HasWay
  <2>4. CASE Check
    BY <2>4 DEF Check
  <2>5. CASE Tick
    BY <2>5 DEF Tick, HasWay
  <2>6. CASE UNCHANGED vars
    BY <2>6 DEF vars, HasWay
  <2> QED BY <2>1, <2>2, <2>3, <2>4, <2>5, <2>6 DEF Next
<1>3. IInv /\ NoWay /\ [Next]_vars => [LateAndLost]_vars
  <2> SUFFICES ASSUME IInv, NoWay, [Next]_vars,
                      pc = "check", pc' = "drive", WaitIsLong
               PROVE  Temporary = {}
    BY DEF NoWay
  <2>1. Check
    BY DEF Next, Drive, BlockEdge, MarkEdgeSuccess, Plan, SearchSucceeds, TakeRoute,
           SearchFails, NoRoute, PlanFails, StartWait, PollFails, Searching, Tick, vars
  <2>2. Temporary = {} \/ waited >= BlockedWaitTimeout
    BY <2>1 DEF Check, SomeBlockWillExpire
  <2>3. waited >= BlockedWaitTimeout => Temporary = {}
    (* The wait is as old as the longest block can be: all are over. *)
    <3> SUFFICES ASSUME waited >= BlockedWaitTimeout, NEW e \in Graph
                 PROVE  ~Lasts(e)
      BY DEF Temporary
    <3>1. BlocksOK /\ WaitOK
      BY DEF IInv, TypeOK
    <3>2. left[e] + waited <= CooldownMax
      BY DEF IInv, BlocksAreOlder
    <3>3. left[e] \in Nat /\ waited \in Nat
      BY <3>1, CooldownAssumption DEF BlocksOK, WaitOK
    <3> QED BY <3>2, <3>3, CooldownAssumption DEF WaitIsLong, Lasts
  <2> QED BY <2>2, <2>3
<1>4. Spec => [][LateAndLost]_vars
  BY <1>1, <1>2, <1>3, Invariance, PTL DEF Spec
<1> QED BY <1>4 DEF GivesUpOnlyIfHopeless

(* An edge and its reverse are blocked, expire and recover together.       *)
THEOREM DirectionsAgree == PlannerSpec => []BothDirectionsBlocked
<1> DEFINE Both == BothDirectionsBlocked
<1>1. PlannerInit => Both
  BY DEF PlannerInit, Init, BothDirectionsBlocked
<1>2. Both /\ [Moves]_vars => Both'
  <2> SUFFICES ASSUME Both, [Moves]_vars, BlockBidirectional,
                      NEW e \in Graph, NEW f \in Graph, Reverses(e, f),
                      ~e.configured, ~f.configured
               PROVE  left'[e] = left'[f] /\ failures'[e] = failures'[f]
    BY DEF BothDirectionsBlocked
  <2>1. left[e] = left[f] /\ failures[e] = failures[f]
    BY DEF BothDirectionsBlocked
  <2>2. \A from, to \in Pose : e \in EdgesOf(from, to) <=> f \in EdgesOf(from, to)
    BY DEF EdgesOf, Between, Reverses
  <2>3. \A from, to \in Pose : e \in Blockable(from, to) <=> f \in Blockable(from, to)
    BY <2>2 DEF Blockable
  <2>4. ASSUME NEW from \in Pose, NEW to \in Pose, BlockEdge(from, to)
        PROVE  left'[e] = left'[f] /\ failures'[e] = failures'[f]
    <3>1. failures'[e] = failures'[f]
      BY <2>1, <2>3, <2>4 DEF BlockEdge
    <3>2. left'[e] = left'[f]
      BY <2>1, <2>3, <2>4, <3>1 DEF BlockEdge
    <3> QED BY <3>1, <3>2
  <2>5. ASSUME NEW from \in Pose, NEW to \in Pose, MarkEdgeSuccess(from, to)
        PROVE  left'[e] = left'[f] /\ failures'[e] = failures'[f]
    BY <2>1, <2>2, <2>5 DEF MarkEdgeSuccess, Cleared
  <2>6. ASSUME UnchangedBlocks
        PROVE  left'[e] = left'[f] /\ failures'[e] = failures'[f]
    BY <2>1, <2>6 DEF UnchangedBlocks
  <2>7. CASE Drive
    <3>1. ASSUME NEW leg \in Driven
          PROVE  leg[1] \in Pose /\ leg[2] \in Pose
      BY DrivenAssumption
    <3>2. ASSUME NEW ends \in Trips, NEW fix \in BOOLEAN, Plan(ends, fix)
          PROVE  UnchangedBlocks
      BY <3>2 DEF Plan
    <3> QED BY <2>4, <2>5, <2>6, <2>7, <3>1, <3>2 DEF Drive
  <2>8. CASE TakeRoute \/ NoRoute \/ Check
    <3>1. UnchangedBlocks
      BY <2>8 DEF TakeRoute, NoRoute, PlanFails, StartWait, PollFails, Check
    <3> QED BY <2>6, <3>1
  <2>9. CASE Tick
    BY <2>1, <2>9 DEF Tick
  <2>10. CASE UNCHANGED vars
    BY <2>1, <2>10 DEF vars
  <2> QED BY <2>7, <2>8, <2>9, <2>10 DEF Moves
<1> QED BY <1>1, <1>2, PlannerMoves, PTL DEF PlannerSpec
-----------------------------------------------------------------------------
(* The search.  A pose is reached once it has a cost, and settled once the *)
(* queue does not hold that cost any more.                                 *)
Reached == {p \in Pose : dist[p] # Infinity}
Settled == {p \in Reached : <<dist[p], p>> \notin q}

LocalsOK ==
  /\ dist \in [Pose -> Nat \cup {Infinity}]
  /\ parent \in [Pose -> Pose \cup {NoPose}]
  /\ q \subseteq Nat \X Pose
  /\ dist[Start] = 0

(* What is left in the queue was never cheaper than the cost of its pose,  *)
(* and is not cheaper than any settled pose.                               *)
QueueOK ==
  \A item \in q : /\ item[2] \in Reached /\ dist[item[2]] <= item[1]
                  /\ \A p \in Settled : dist[p] <= item[1]

(* Every edge that was open when the search began has been followed from   *)
(* the settled poses, and no pose costs more than over such an edge.       *)
SettledSeen ==
  \A p \in Settled, e \in OpenEdges(Graph, asked, fixed) :
    e.from = p => e.to \in Reached /\ dist[e.to] <= dist[p] + e.cost

(* The parents have an open edge to their child, which pays for it, and    *)
(* lead back from every reached pose to the start, over settled poses.     *)
OpenNow == OpenEdges(Graph, Temporary, fixed)
ParentsOpen ==
  \A p \in Pose : parent[p] # NoPose =>
    /\ p \in Reached /\ parent[p] \in Reached
    /\ Between(OpenNow, parent[p], p) # {}
    /\ dist[parent[p]] + StepCost(OpenNow, parent[p], p) <= dist[p]
ParentsLeadBack ==
  \A p \in Reached : \E w \in RoutesBack(p) : \A i \in 1 .. Len(w) - 1 : w[i] \in Settled

SearchOK ==
  /\ LocalsOK /\ QueueOK /\ SettledSeen /\ ParentsOpen /\ ParentsLeadBack
  /\ Temporary \subseteq asked

(* Only the end of a search or of a wait says how it ended.                *)
NotEndedYet == pc # "drive" => found = "open"

SoFarRight == Searching => SearchOK
SearchInv == NotEndedYet /\ SoFarRight

(* The least of some numbers, and the fewest ways to fill a path.          *)
LEMMA LeastNumber ==
  ASSUME NEW T, T \subseteq Nat, T # {}
  PROVE  \E k \in T : \A m \in T : k <= m
<1> DEFINE below == {0 .. k : k \in T}
<1>1. below \subseteq FiniteSubsetsOf(Nat) /\ below # {}
  <2>1. \A k \in T : IsFiniteSet(0 .. k) /\ 0 .. k \in SUBSET Nat
    BY FS_Interval
  <2> QED BY <2>1 DEF FiniteSubsetsOf
<1> HIDE DEF below
<1>2. PICK x \in below : \A y \in below : <<y, x>> \notin StrictSubsetOrdering(Nat)
  BY <1>1, FS_StrictSubsetOrderingWellFounded, WFMin
<1>3. PICK k \in T : x = 0 .. k
  BY DEF below
<1>4. ASSUME NEW m \in T, ~(k <= m)
      PROVE  FALSE
  <2>1. 0 .. m \subseteq 0 .. k /\ 0 .. m # 0 .. k
    <3>1. k \in 0 .. k /\ k \notin 0 .. m
      BY <1>4
    <3> QED BY <1>4, <3>1
  <2>2. 0 .. m \in below /\ 0 .. m \in SUBSET Nat /\ 0 .. k \in SUBSET Nat
    BY DEF below
  <2> QED BY <1>2, <1>3, <2>1, <2>2 DEF StrictSubsetOrdering
<1> QED BY <1>4

LEMMA MinIsLeast ==
  ASSUME NEW S, S \subseteq Nat, S # {}
  PROVE  Min(S) \in S /\ \A x \in S : Min(S) <= x
<1>1. \E k \in S : \A m \in S : k <= m
  BY LeastNumber
<1> QED BY <1>1 DEF Min

LEMMA FitsIntoPoses ==
  ASSUME NEW n \in Nat, NEW w \in [1 .. n -> Pose],
         \A i, j \in 1 .. n : w[i] = w[j] => i = j
  PROVE  n <= Poses
<1>1. w \in Injection(1 .. n, Pose)
  BY DEF Injection, IsInjective
<1>2. IsFiniteSet(Pose) /\ Cardinality(Pose) = Poses
  BY FS_Interval, PosesAssumption DEF Pose
<1>3. Cardinality(1 .. n) <= Cardinality(Pose)
  BY <1>1, <1>2, FS_Injection
<1>4. Cardinality(1 .. n) = n
  BY FS_Interval
<1> QED BY <1>2, <1>3, <1>4

LEMMA SimplePathFacts ==
  ASSUME NEW w \in SimplePaths
  PROVE  /\ w \in Seq(Pose) /\ Len(w) \in Nat /\ Len(w) >= 1
         /\ \A i \in 1 .. Len(w) : w[i] \in Pose
         /\ \A i, j \in 1 .. Len(w) : w[i] = w[j] => i = j
<1>0. PICK n \in 1 .. Poses : \E v \in [1 .. n -> Pose] : w = SubSeq(v, 1, Len(v))
  BY DEF SimplePaths
<1>1. PICK v \in [1 .. n -> Pose] : w = SubSeq(v, 1, Len(v))
  BY <1>0
<1>2. n \in Nat /\ n >= 1
  BY PosesAssumption
<1>3. v \in Seq(Pose) /\ Len(v) = n
  BY <1>2
<1>4. w \in Seq(Pose) /\ Len(w) = n
  BY <1>1, <1>2, <1>3
<1>5. \A i, j \in 1 .. Len(w) : w[i] = w[j] => i = j
  BY <1>4 DEF SimplePaths
<1> QED BY <1>2, <1>4, <1>5

LEMMA SimplePathIs ==
  ASSUME NEW w \in Seq(Pose), Len(w) >= 1, \A i, j \in 1 .. Len(w) : w[i] = w[j] => i = j
  PROVE  w \in SimplePaths
<1>1. w \in [1 .. Len(w) -> Pose] /\ Len(w) \in Nat /\ DOMAIN w = 1 .. Len(w)
  OBVIOUS
<1>2. Len(w) \in 1 .. Poses
  BY <1>1, FitsIntoPoses, PosesAssumption
<1>3. w = SubSeq(w, 1, Len(w))
  OBVIOUS
<1>4. w \in UNION {[1 .. n -> Pose] : n \in 1 .. Poses}
  BY <1>1, <1>2
<1> QED BY <1>1, <1>3, <1>4 DEF SimplePaths


(* The cost of a step is that of the cheapest edge there, and the cost of  *)
(* a route is added up along it.                                           *)
LEMMA StepCostFacts ==
  ASSUME NEW edges \in SUBSET Graph, NEW a, NEW b, Between(edges, a, b) # {}
  PROVE  /\ StepCost(edges, a, b) \in Nat
         /\ \A e \in Between(edges, a, b) : StepCost(edges, a, b) <= e.cost
         /\ \E e \in Between(edges, a, b) : StepCost(edges, a, b) = e.cost
<1> DEFINE costs == {e.cost : e \in Between(edges, a, b)}
<1>1. costs \subseteq Nat /\ costs # {}
  BY GraphAssumption DEF Between, TopoEdges
<1> HIDE DEF costs
<1>2. Min(costs) \in costs /\ \A x \in costs : Min(costs) <= x
  BY <1>1, MinIsLeast
<1>3. StepCost(edges, a, b) = Min(costs)
  BY DEF StepCost, costs
<1>4. Min(costs) \in Nat
  BY <1>1, <1>2
<1> QED BY <1>2, <1>3, <1>4 DEF costs

AddsUp(edges, p, k, c) ==
  /\ c \in [1 .. k -> Nat] /\ c[1] = 0
  /\ \A i \in 2 .. k : c[i] = c[i - 1] + StepCost(edges, p[i - 1], p[i])

LEMMA CostsExist ==
  ASSUME NEW n \in Nat, NEW edges, NEW p,
         \A i \in 2 .. n : StepCost(edges, p[i - 1], p[i]) \in Nat,
         NEW k \in 1 .. n
  PROVE  \E c : AddsUp(edges, p, k, c)
<1> DEFINE bad == {m \in 1 .. n : ~\E c : AddsUp(edges, p, m, c)}
<1>1. ASSUME bad # {}
      PROVE  FALSE
  <2>1. bad \subseteq Nat
    OBVIOUS
  <2>2. PICK m \in bad : \A x \in bad : m <= x
    <3> HIDE DEF bad
    <3> QED BY <1>1, <2>1, LeastNumber
  <2>3. m \in 1 .. n /\ ~\E c : AddsUp(edges, p, m, c)
    BY <2>2
  <2>4. CASE m = 1
    <3>1. AddsUp(edges, p, 1, [i \in 1 .. 1 |-> 0])
      BY DEF AddsUp
    <3> QED BY <2>3, <2>4, <3>1
  <2>5. CASE m # 1
    <3>1. m - 1 \in 1 .. n /\ ~(m <= m - 1) /\ m \in 2 .. n
      BY <2>3, <2>5
    <3>2. m - 1 \notin bad
      BY <2>2, <3>1
    <3>3. PICK c : AddsUp(edges, p, m - 1, c)
      BY <3>1, <3>2
    <3> DEFINE last == c[m - 1] + StepCost(edges, p[m - 1], p[m])
               d == [i \in 1 .. m |-> IF i = m THEN last ELSE c[i]]
    <3>4. c[m - 1] \in Nat /\ last \in Nat
      <4>1. c[m - 1] \in Nat
        BY <3>1, <3>3 DEF AddsUp
      <4>2. StepCost(edges, p[m - 1], p[m]) \in Nat
        BY <3>1
      <4> QED BY <4>1, <4>2
    <3> HIDE DEF last
    <3>5. d \in [1 .. m -> Nat] /\ d[1] = 0 /\ d[m] = last
      BY <3>1, <3>3, <3>4, <2>5 DEF AddsUp
    <3>6. ASSUME NEW i \in 2 .. m
          PROVE  d[i] = d[i - 1] + StepCost(edges, p[i - 1], p[i])
      <4>1. i - 1 \in 1 .. m /\ i - 1 # m /\ d[i - 1] = c[i - 1]
        BY <3>1
      <4>2. CASE i = m
        BY <3>5, <4>1, <4>2 DEF last
      <4>3. CASE i # m
        <5>1. i \in 2 .. m - 1 /\ d[i] = c[i]
          BY <3>1, <4>3
        <5> QED BY <3>3, <4>1, <5>1 DEF AddsUp
      <4> QED BY <4>2, <4>3
    <3>7. AddsUp(edges, p, m, d)
      BY <3>5, <3>6 DEF AddsUp
    <3> QED BY <2>3, <3>7
  <2> QED BY <2>4, <2>5
<1> QED BY <1>1

LEMMA CostsAreOne ==
  ASSUME NEW n \in Nat, n >= 1, NEW edges, NEW p, NEW c, AddsUp(edges, p, n, c), NEW g,
         g = [i \in 1 .. n |-> IF i = 1 THEN 0
                               ELSE g[i - 1] + StepCost(edges, p[i - 1], p[i])]
  PROVE  g[n] = c[n]
<1> DEFINE bad == {m \in 1 .. n : g[m] # c[m]}
<1>1. \A i \in 1 .. n : g[i] = IF i = 1 THEN 0
                               ELSE g[i - 1] + StepCost(edges, p[i - 1], p[i])
  BY Zenon
<1>2. ASSUME bad # {}
      PROVE  FALSE
  <2>1. bad \subseteq Nat
    OBVIOUS
  <2>2. PICK m \in bad : \A x \in bad : m <= x
    <3> HIDE DEF bad
    <3> QED BY <1>2, <2>1, LeastNumber
  <2>3. m \in 1 .. n /\ g[m] # c[m]
    BY <2>2
  <2>4. m # 1
    BY <1>1, <2>3 DEF AddsUp
  <2>5. m \in 2 .. n /\ m - 1 \in 1 .. n /\ ~(m <= m - 1)
    BY <2>3, <2>4
  <2>6. g[m - 1] = c[m - 1]
    BY <2>2, <2>5
  <2>7. g[m] = g[m - 1] + StepCost(edges, p[m - 1], p[m])
    BY <1>1, <2>3, <2>4
  <2>8. c[m] = c[m - 1] + StepCost(edges, p[m - 1], p[m])
    BY <2>5 DEF AddsUp
  <2> QED BY <2>3, <2>6, <2>7, <2>8, Zenon
<1> QED BY <1>2

LEMMA CostsAlong ==
  ASSUME NEW edges \in SUBSET Graph, NEW p \in Seq(Pose), Len(p) >= 1,
         \A i \in 2 .. Len(p) : Between(edges, p[i - 1], p[i]) # {}
  PROVE  \E c : AddsUp(edges, p, Len(p), c) /\ RouteCost(edges, p) = c[Len(p)]
<1>1. Len(p) \in Nat /\ Len(p) \in 1 .. Len(p)
  OBVIOUS
<1>2. \A i \in 2 .. Len(p) : StepCost(edges, p[i - 1], p[i]) \in Nat
  BY StepCostFacts
<1>3. PICK c : AddsUp(edges, p, Len(p), c)
  BY <1>1, <1>2, CostsExist
<1> DEFINE Costs(g) == [i \in 1 .. Len(p) |->
                          IF i = 1 THEN 0 ELSE g[i - 1] + StepCost(edges, p[i - 1], p[i])]
           cost == CHOOSE g : g = Costs(g)
<1>4. c = Costs(c)
  <2>1. c \in [1 .. Len(p) -> Nat]
    BY <1>3 DEF AddsUp
  <2>2. ASSUME NEW i \in 1 .. Len(p)
        PROVE  c[i] = IF i = 1 THEN 0 ELSE c[i - 1] + StepCost(edges, p[i - 1], p[i])
    <3>1. i = 1 \/ i \in 2 .. Len(p)
      BY <1>1
    <3> QED BY <1>3, <3>1 DEF AddsUp
  <2> QED BY <2>1, <2>2
<1>5. cost = Costs(cost)
  BY <1>4
<1>6. cost[Len(p)] = c[Len(p)]
  <2> DEFINE n == Len(p)
  <2>1. n \in Nat /\ n >= 1 /\ AddsUp(edges, p, n, c)
    BY <1>1, <1>3
  <2>2. cost = [i \in 1 .. n |-> IF i = 1 THEN 0
                                 ELSE cost[i - 1] + StepCost(edges, p[i - 1], p[i])]
    BY <1>5
  <2> HIDE DEF cost, n
  <2>3. cost[n] = c[n]
    BY <2>1, <2>2, CostsAreOne
  <2> QED BY <2>3 DEF n
<1>7. RouteCost(edges, p) = cost[Len(p)]
  BY DEF RouteCost
<1> QED BY <1>3, <1>6, <1>7

LEMMA OnePose ==
  ASSUME NEW p \in Pose
  PROVE  \E w \in SimplePaths : Len(w) = 1 /\ w[1] = p
<1> DEFINE w == <<p>>
<1>1. w \in Seq(Pose) /\ Len(w) = 1 /\ w[1] = p
  OBVIOUS
<1> HIDE DEF w
<1>2. \A i, j \in 1 .. Len(w) : w[i] = w[j] => i = j
  BY <1>1
<1>3. w \in SimplePaths
  BY <1>1, <1>2, SimplePathIs
<1> QED BY <1>1, <1>3

(* A search begins. *)
LEMMA SearchBegins ==
  ASSUME IInv', BeginsAt(trip'[1]), Temporary' \subseteq asked'
  PROVE  SearchOK'
<1>1. PICK start \in Pose : start = trip'[1] /\ Start' = start
  BY DEF IInv, TypeOK, WaitOK, Start
<1>2. /\ dist' = [p \in Pose |-> IF p = start THEN 0 ELSE Infinity]
      /\ parent' = [p \in Pose |-> NoPose] /\ q' = {<<0, start>>}
  BY <1>1 DEF BeginsAt
<1>3. Reached' = {start} /\ dist'[start] = 0
  BY <1>1, <1>2 DEF Reached, Infinity
<1>4. Settled' = {}
  BY <1>1, <1>2, <1>3 DEF Settled
<1>5. LocalsOK'
  BY <1>1, <1>2, <1>3 DEF LocalsOK
<1>6. QueueOK'
  <2>1. \A item \in q' : item = <<0, start>> /\ item[1] = 0 /\ item[2] = start
    BY <1>2
  <2> QED BY <1>3, <1>4, <2>1 DEF QueueOK
<1>7. SettledSeen' /\ ParentsOpen'
  BY <1>2, <1>4 DEF SettledSeen, ParentsOpen
<1>8. ParentsLeadBack'
  <2>1. PICK w \in SimplePaths : Len(w) = 1 /\ w[1] = start
    BY <1>1, OnePose
  <2>2. w \in RoutesBack(start)'
    <3>1. w[Len(w)] = start /\ \A i \in 2 .. Len(w) : FALSE
      BY <2>1
    <3>2. Followed(w)'
      BY <3>1 DEF Followed
    <3> QED BY <1>1, <2>1, <3>1, <3>2 DEF RoutesBack
  <2>3. \A i \in 1 .. Len(w) - 1 : w[i] \in Settled'
    BY <2>1
  <2> QED BY <1>3, <2>2, <2>3 DEF ParentsLeadBack
<1> QED BY <1>5, <1>6, <1>7, <1>8 DEF SearchOK

(* More edges make no step dearer.                                         *)
LEMMA FewerEdgesCostMore ==
  ASSUME NEW some, NEW all \in SUBSET Graph, some \subseteq all, NEW a, NEW b,
         Between(some, a, b) # {}
  PROVE  /\ Between(all, a, b) # {}
         /\ StepCost(some, a, b) \in Nat /\ StepCost(all, a, b) \in Nat
         /\ StepCost(all, a, b) <= StepCost(some, a, b)
<1>1. Between(some, a, b) \subseteq Between(all, a, b)
  BY DEF Between
<1>2. PICK e \in Between(some, a, b) : StepCost(some, a, b) = e.cost
  BY StepCostFacts
<1>3. StepCost(some, a, b) \in Nat
  BY StepCostFacts
<1>4. StepCost(all, a, b) \in Nat /\ StepCost(all, a, b) <= e.cost
  BY <1>1, <1>2, StepCostFacts
<1> QED BY <1>1, <1>2, <1>3, <1>4

LEMMA CheaperStep ==
  ASSUME NEW cost \in Nat, NEW step \in Nat, NEW less \in Nat, less <= step,
         NEW sum \in Nat, cost + step <= sum
  PROVE  cost + less <= sum
OBVIOUS

(* Blocks expire while it runs. *)
LEMMA LocalsKept ==
  ASSUME SearchOK, UNCHANGED <<dist, parent, q, trip, fixed, asked>>,
         Temporary' \subseteq Temporary
  PROVE  SearchOK'
<1>1. Reached' = Reached /\ Settled' = Settled /\ Start' = Start
  BY DEF Reached, Settled, Start
<1>2. LocalsOK' /\ QueueOK' /\ SettledSeen'
  BY <1>1 DEF SearchOK, LocalsOK, QueueOK, SettledSeen
<1>3. ParentsOpen'
  <2>1. OpenNow \subseteq OpenNow' /\ OpenNow \in SUBSET Graph /\ OpenNow' \in SUBSET Graph
    BY DEF OpenNow, OpenEdges, EdgeIsBlocked
  <2>2. ASSUME NEW p \in Pose, parent'[p] # NoPose
        PROVE  /\ p \in Reached' /\ parent'[p] \in Reached'
               /\ Between(OpenNow', parent'[p], p) # {}
               /\ dist'[parent'[p]] + StepCost(OpenNow', parent'[p], p) <= dist'[p]
    <3>1. /\ p \in Reached /\ parent[p] \in Reached
          /\ Between(OpenNow, parent[p], p) # {}
          /\ dist[parent[p]] + StepCost(OpenNow, parent[p], p) <= dist[p]
      BY <2>2 DEF SearchOK, ParentsOpen
    <3>2. /\ Between(OpenNow', parent[p], p) # {}
          /\ StepCost(OpenNow, parent[p], p) \in Nat
          /\ StepCost(OpenNow', parent[p], p) \in Nat
          /\ StepCost(OpenNow', parent[p], p) <= StepCost(OpenNow, parent[p], p)
      BY <2>1, <3>1, FewerEdgesCostMore
    <3>3. dist[p] \in Nat /\ dist[parent[p]] \in Nat
      BY <3>1 DEF SearchOK, LocalsOK, Reached
    <3>4. dist[parent[p]] + StepCost(OpenNow', parent[p], p) <= dist[p]
      BY <3>1, <3>2, <3>3, CheaperStep
    <3> QED BY <1>1, <3>1, <3>2, <3>4
  <2> QED BY <2>2 DEF ParentsOpen
<1>4. ParentsLeadBack'
  <2>1. \A p : RoutesBack(p)' = RoutesBack(p)
    BY <1>1 DEF RoutesBack, Followed
  <2> QED BY <1>1, <2>1 DEF SearchOK, ParentsLeadBack
<1>5. Temporary' \subseteq asked'
  BY DEF SearchOK
<1> QED BY <1>2, <1>3, <1>4, <1>5 DEF SearchOK

(* An outdated pair is skipped. *)
LEMMA SkipOutdatedSearch ==
  ASSUME SearchOK, SkipOutdated
  PROVE  SearchOK'
<1>1. PICK item \in q : Below(dist[item[2]], item[1]) /\ q' = q \ {item}
  BY DEF SkipOutdated
<1>2. UNCHANGED <<vars, dist, parent>> /\ Temporary' = Temporary
  BY DEF SkipOutdated, vars, Temporary, Lasts
<1>3. /\ item \in Nat \X Pose /\ dist[item[2]] \in Nat
  BY DEF SearchOK, LocalsOK, QueueOK, Reached
<1>4. dist[item[2]] # item[1]
  BY <1>1, <1>3 DEF Below
<1>5. \A p \in Pose : item # <<dist[p], p>>
  BY <1>3, <1>4
<1>6. Reached' = Reached /\ Settled' = Settled /\ Start' = Start
  <2>1. Reached' = Reached /\ Start' = Start
    BY <1>2 DEF Reached, Start, vars
  <2>2. \A p \in Reached : <<dist'[p], p>> \in q' <=> <<dist[p], p>> \in q
    BY <1>1, <1>2, <1>5 DEF Reached
  <2> QED BY <2>1, <2>2 DEF Settled
<1>7. LocalsOK' /\ QueueOK' /\ SettledSeen'
  BY <1>1, <1>2, <1>6 DEF SearchOK, LocalsOK, QueueOK, SettledSeen, vars
<1>8. ParentsOpen' /\ Temporary' \subseteq asked'
  <2>1. OpenNow' = OpenNow
    BY <1>2 DEF OpenNow, vars
  <2> QED BY <1>2, <1>6, <2>1 DEF SearchOK, ParentsOpen, vars
<1>9. ParentsLeadBack'
  <2>1. \A p : RoutesBack(p)' = RoutesBack(p)
    BY <1>2, <1>6 DEF RoutesBack, Followed
  <2> QED BY <1>6, <2>1 DEF SearchOK, ParentsLeadBack
<1> QED BY <1>7, <1>8, <1>9 DEF SearchOK

(* Relaxing the edges of a pose: what is offered and what becomes of it.   *)
LEMMA OffersAreDearer ==
  ASSUME NEW edges \in SUBSET Graph, NEW node \in Pose, NEW cost \in Nat, NEW to \in Pose,
         dist \in [Pose -> Nat \cup {Infinity}], to \in Improved(edges, node, cost)
  PROVE  LET new == Min(Offers(edges, node, cost, to))
         IN  /\ new \in Nat /\ new >= cost /\ Between(edges, node, to) # {}
             /\ dist[to] # Infinity => new < dist[to]
             /\ StepCost(edges, node, to) \in Nat
             /\ cost + StepCost(edges, node, to) <= new
             /\ \A e \in Between(edges, node, to) : new <= cost + e.cost
<1> DEFINE offers == Offers(edges, node, cost, to)
<1>1. \A c \in offers : c \in Nat /\ c >= cost
  BY GraphAssumption DEF Offers, Between, TopoEdges
<1>2. PICK c \in offers : Below(c, dist[to])
  BY DEF Improved
<1>3. Between(edges, node, to) # {}
  BY <1>2 DEF Offers
<1>8. \A e \in Between(edges, node, to) : cost + e.cost \in offers /\ e.cost \in Nat
  BY GraphAssumption DEF Offers, Between, TopoEdges
<1>9. \A x \in offers : \E e \in Between(edges, node, to) : x = cost + e.cost
  BY DEF Offers
<1> HIDE DEF offers
<1>4. Min(offers) \in offers /\ \A x \in offers : Min(offers) <= x
  BY <1>1, <1>2, MinIsLeast
<1>5. dist[to] # Infinity => c < dist[to]
  BY <1>2 DEF Below
<1>6. Min(offers) \in Nat /\ Min(offers) >= cost /\ c \in Nat
  BY <1>1, <1>4
<1>7. dist[to] # Infinity => Min(offers) < dist[to]
  BY <1>4, <1>5, <1>6 DEF Infinity
<1>10. StepCost(edges, node, to) \in Nat /\ cost + StepCost(edges, node, to) <= Min(offers)
  <2>1. PICK e \in Between(edges, node, to) : Min(offers) = cost + e.cost
    BY <1>4, <1>9
  <2>2. StepCost(edges, node, to) \in Nat /\ StepCost(edges, node, to) <= e.cost
    BY <1>3, StepCostFacts
  <2>3. e.cost \in Nat
    BY <1>8
  <2> QED BY <2>1, <2>2, <2>3
<1>11. \A e \in Between(edges, node, to) : Min(offers) <= cost + e.cost
  BY <1>4, <1>8
<1> QED BY <1>3, <1>6, <1>7, <1>10, <1>11 DEF offers

(* What expanding a pose does to the locals: the poses that are better,    *)
(* the current pair of the pose, and the costs. *)
Expands(node, cost, better) ==
  /\ <<cost, node>> \in q /\ dist[node] = cost /\ cost \in Nat /\ node \in Reached
  /\ better \subseteq Pose \ (Settled \cup {node})
  /\ \A item \in q : cost <= item[1]
  /\ \A p \in better : /\ dist'[p] \in Nat /\ dist'[p] >= cost
                       /\ p \in Reached => dist'[p] < dist[p]
                       /\ parent'[p] = node
                       /\ Between(OpenNow, node, p) # {}
                       /\ cost + StepCost(OpenNow, node, p) <= dist'[p]
  /\ \A p \in Pose \ better : dist'[p] = dist[p] /\ parent'[p] = parent[p]
  /\ \A e \in OpenNow :
       e.from = node => e.to \in better \cup Reached /\ dist'[e.to] <= cost + e.cost
  /\ dist' \in [Pose -> Nat \cup {Infinity}] /\ parent' \in [Pose -> Pose \cup {NoPose}]
  /\ q' = (q \ {<<cost, node>>}) \cup {<<dist'[p], p>> : p \in better}

LEMMA ExpandExpands ==
  ASSUME IInv, SearchOK, Expand
  PROVE  \E node \in Pose, cost \in Nat, better \in SUBSET Pose : Expands(node, cost, better)
<1> DEFINE edges == OpenNow
<1>1. PICK item \in q : Surfaces(item) /\ ~Below(dist[item[2]], item[1]) /\ Relax(item)
  BY DEF Expand
<1>2. PICK cost \in Nat, node \in Pose : item = <<cost, node>>
  BY DEF SearchOK, LocalsOK
<1>3. item[1] = cost /\ item[2] = node
  BY <1>2
<1>4. /\ dist \in [Pose -> Nat \cup {Infinity}] /\ parent \in [Pose -> Pose \cup {NoPose}]
      /\ q \subseteq Nat \X Pose /\ edges \in SUBSET Graph
  BY DEF SearchOK, LocalsOK, OpenNow, OpenEdges
<1> DEFINE better == Improved(edges, node, cost)
<1>5. /\ dist' = [p \in Pose |-> IF p \in better THEN Min(Offers(edges, node, cost, p))
                                 ELSE dist[p]]
      /\ parent' = [p \in Pose |-> IF p \in better THEN node ELSE parent[p]]
  BY <1>1, <1>3 DEF Relax, OpenNow
<1>6. better \subseteq Pose
  BY DEF Improved
<1>7. q' = (q \ {<<cost, node>>}) \cup {<<dist'[p], p>> : p \in better}
  BY <1>1, <1>2, <1>3, <1>5, <1>6 DEF Relax, Queued, OpenNow
<1>8. dist[node] = cost /\ node \in Reached
  BY <1>1, <1>2, <1>3 DEF SearchOK, QueueOK, Below, Reached, LocalsOK
<1>9. \A i \in q : cost <= i[1]
  <2>1. ASSUME NEW i \in q
        PROVE  cost <= i[1]
    <3>1. i[1] \in Nat /\ (cost < i[1] \/ cost = i[1])
      BY <1>1, <1>3, <1>4 DEF Surfaces
    <3> QED BY <3>1
  <2> QED BY <2>1
<1>10. \A p \in better : /\ dist'[p] \in Nat /\ dist'[p] >= cost
                         /\ p \in Reached => dist'[p] < dist[p]
                         /\ parent'[p] = node /\ Between(edges, node, p) # {}
                         /\ cost + StepCost(edges, node, p) <= dist'[p]
                         /\ \A e \in Between(edges, node, p) : dist'[p] <= cost + e.cost
  <2>1. ASSUME NEW p \in better
        PROVE  /\ dist'[p] \in Nat /\ dist'[p] >= cost
               /\ p \in Reached => dist'[p] < dist[p]
               /\ parent'[p] = node /\ Between(edges, node, p) # {}
               /\ cost + StepCost(edges, node, p) <= dist'[p]
               /\ \A e \in Between(edges, node, p) : dist'[p] <= cost + e.cost
    <3>1. p \in Pose /\ p \in Improved(edges, node, cost)
      BY <1>6, <2>1
    <3>2. /\ dist'[p] = Min(Offers(edges, node, cost, p)) /\ parent'[p] = node
      BY <1>5, <2>1, <3>1
    <3>3. /\ Min(Offers(edges, node, cost, p)) \in Nat
          /\ Min(Offers(edges, node, cost, p)) >= cost /\ Between(edges, node, p) # {}
          /\ dist[p] # Infinity => Min(Offers(edges, node, cost, p)) < dist[p]
          /\ cost + StepCost(edges, node, p) <= Min(Offers(edges, node, cost, p))
          /\ \A e \in Between(edges, node, p) :
               Min(Offers(edges, node, cost, p)) <= cost + e.cost
      BY <1>4, <3>1, OffersAreDearer
    <3> QED BY <3>2, <3>3 DEF Reached
  <2> QED BY <2>1
<1>11. better \subseteq Pose \ (Settled \cup {node})
  <2>1. ASSUME NEW p \in better, p \in Settled \cup {node}
        PROVE  FALSE
    <3>1. p \in Reached /\ dist[p] <= cost
      BY <1>2, <1>3, <1>8, <2>1 DEF SearchOK, QueueOK, Settled
    <3>2. dist'[p] \in Nat /\ dist'[p] >= cost /\ dist'[p] < dist[p]
      BY <1>10, <3>1
    <3>3. dist[p] \in Nat
      BY <1>4, <3>1 DEF Reached
    <3> QED BY <3>1, <3>2, <3>3
  <2> QED BY <1>6, <2>1
<1>12. \A p \in Pose \ better : dist'[p] = dist[p] /\ parent'[p] = parent[p]
  BY <1>5
<1>13. \A e \in edges : e.from = node =>
          e.to \in better \cup Reached /\ dist'[e.to] <= cost + e.cost
  <2>1. ASSUME NEW e \in edges, e.from = node
        PROVE  e.to \in better \cup Reached /\ dist'[e.to] <= cost + e.cost
    <3>1. e.to \in Pose /\ e.cost \in Nat /\ e \in Between(edges, node, e.to)
      BY <1>4, <2>1, GraphAssumption DEF Between, TopoEdges
    <3>2. CASE e.to \in better
      BY <1>10, <3>1, <3>2
    <3>3. CASE e.to \notin better
      <4>1. cost + e.cost \in Offers(edges, node, cost, e.to) /\ cost + e.cost \in Nat
        BY <3>1 DEF Offers
      <4>2. ~Below(cost + e.cost, dist[e.to])
        BY <3>1, <3>3, <4>1 DEF Improved
      <4>3. dist[e.to] # Infinity /\ ~(cost + e.cost < dist[e.to]) /\ dist[e.to] \in Nat
        BY <1>4, <3>1, <4>1, <4>2 DEF Below, Infinity
      <4>4. dist'[e.to] = dist[e.to]
        BY <1>12, <3>1, <3>3
      <4>5. dist[e.to] <= cost + e.cost
        BY <4>1, <4>3
      <4> QED BY <3>1, <4>3, <4>4, <4>5 DEF Reached
    <3> QED BY <3>2, <3>3
  <2> QED BY <2>1
<1> HIDE DEF better
<1>14. dist' \in [Pose -> Nat \cup {Infinity}] /\ parent' \in [Pose -> Pose \cup {NoPose}]
  <2>1. \A p \in Pose : dist'[p] \in Nat \cup {Infinity} /\ parent'[p] \in Pose \cup {NoPose}
    BY <1>4, <1>10, <1>12
  <2> QED BY <1>5, <2>1
<1> QED BY <1>2, <1>7, <1>8, <1>9, <1>10, <1>11, <1>12, <1>13, <1>14 DEF Expands

LEMMA ExpandSets ==
  ASSUME SearchOK, NEW node \in Pose, NEW cost \in Nat, NEW better,
         Expands(node, cost, better)
  PROVE  /\ better \subseteq Pose /\ node \notin better /\ node \in Reached
         /\ Reached' = Reached \cup better
         /\ Settled' = Settled \cup {node} /\ better \cap Settled' = {}
<1>1. /\ better \subseteq Pose \ (Settled \cup {node}) /\ dist[node] = cost
      /\ node \in Reached /\ <<cost, node>> \in q
      /\ \A p \in better : dist'[p] \in Nat
      /\ \A p \in Pose \ better : dist'[p] = dist[p]
      /\ q' = (q \ {<<cost, node>>}) \cup {<<dist'[p], p>> : p \in better}
  BY DEF Expands
<1>2. Reached' = Reached \cup better
  BY <1>1 DEF Reached, Infinity
<1>3. ASSUME NEW p \in better
      PROVE  p \notin Settled'
  BY <1>1 DEF Settled
<1>4. ASSUME NEW p \in Settled
      PROVE  p \in Settled'
  BY <1>1, <1>2 DEF Settled, Reached
<1>5. node \in Settled'
  BY <1>1, <1>2 DEF Settled
<1>6. ASSUME NEW p \in Settled', p # node
      PROVE  p \in Settled
  <2>1. p \in Reached /\ p \in Pose \ better
    BY <1>2, <1>3, <1>6 DEF Settled, Reached
  <2>2. <<dist[p], p>> \notin q' /\ <<dist[p], p>> # <<cost, node>>
    BY <1>1, <1>6, <2>1 DEF Settled
  <2>3. <<dist[p], p>> \notin q
    BY <1>1, <2>2
  <2> QED BY <2>1, <2>3 DEF Settled
<1> QED BY <1>1, <1>2, <1>3, <1>4, <1>5, <1>6

LEMMA ExpandQueue ==
  ASSUME SearchOK, NEW node \in Pose, NEW cost \in Nat, NEW better,
         Expands(node, cost, better)
  PROVE  QueueOK'
<1>1. /\ better \subseteq Pose /\ node \notin better /\ node \in Reached
      /\ Reached' = Reached \cup better /\ Settled' = Settled \cup {node}
      /\ better \cap Settled' = {}
  BY ExpandSets
<1>2. /\ \A p \in better : /\ dist'[p] \in Nat /\ dist'[p] >= cost
                           /\ p \in Reached => dist'[p] < dist[p]
      /\ \A p \in Pose \ better : dist'[p] = dist[p]
      /\ \A item \in q : cost <= item[1]
      /\ q' = (q \ {<<cost, node>>}) \cup {<<dist'[p], p>> : p \in better}
      /\ dist[node] = cost /\ <<cost, node>> \in q
  BY DEF Expands
<1>3. \A p \in Settled' : dist'[p] <= cost /\ dist'[p] \in Nat
  <2>1. ASSUME NEW p \in Settled
        PROVE  dist[p] <= cost /\ dist[p] \in Nat
    <3>1. dist[p] <= <<cost, node>>[1]
      BY <1>2 DEF SearchOK, QueueOK
    <3>2. dist[p] \in Nat
      BY DEF SearchOK, LocalsOK, Settled, Reached
    <3> QED BY <3>1, <3>2
  <2>2. \A p \in Settled' : dist'[p] = dist[p]
    BY <1>1, <1>2 DEF Settled, Reached
  <2> QED BY <1>1, <1>2, <2>1, <2>2
<1>4. ASSUME NEW item \in q'
      PROVE  /\ item[2] \in Reached' /\ dist'[item[2]] <= item[1]
             /\ cost <= item[1] /\ item[1] \in Nat
  <2>1. CASE item \in q
    <3>1. /\ item[2] \in Reached /\ dist[item[2]] <= item[1] /\ item[1] \in Nat
          /\ dist[item[2]] \in Nat /\ item[2] \in Pose
      BY <2>1 DEF SearchOK, LocalsOK, QueueOK, Reached
    <3>2. CASE item[2] \in better
      BY <1>1, <1>2, <2>1, <3>1, <3>2
    <3>3. CASE item[2] \notin better
      BY <1>1, <1>2, <2>1, <3>1, <3>3
    <3> QED BY <3>2, <3>3
  <2>2. CASE item \notin q
    <3>1. PICK p \in better : item = <<dist'[p], p>>
      BY <1>2, <1>4, <2>2
    <3>2. item[1] = dist'[p] /\ item[2] = p
      BY <3>1
    <3> QED BY <1>1, <1>2, <3>2
  <2> QED BY <2>1, <2>2
<1>5. ASSUME NEW item \in q', NEW p \in Settled'
      PROVE  dist'[p] <= item[1]
  <2>1. dist'[p] <= cost /\ dist'[p] \in Nat
    BY <1>3
  <2>2. cost <= item[1] /\ item[1] \in Nat
    BY <1>4
  <2> QED BY <2>1, <2>2
<1> QED BY <1>4, <1>5 DEF QueueOK

LEMMA AppendedPose ==
  ASSUME NEW w \in Seq(Pose), Len(w) \in Nat, Len(w) >= 1, NEW p \in Pose,
         \A i, j \in 1 .. Len(w) : w[i] = w[j] => i = j,
         \A i \in 1 .. Len(w) : w[i] # p
  PROVE  \E v \in SimplePaths : /\ Len(v) = Len(w) + 1 /\ v[Len(v)] = p
                                /\ \A i \in 1 .. Len(w) : v[i] = w[i]
<1> DEFINE v == Append(w, p)
<1>1. /\ v \in Seq(Pose) /\ Len(v) = Len(w) + 1 /\ v[Len(v)] = p
      /\ \A i \in 1 .. Len(w) : v[i] = w[i]
  OBVIOUS
<1> HIDE DEF v
<1>2. ASSUME NEW i \in 1 .. Len(v), NEW j \in 1 .. Len(v), v[i] = v[j]
      PROVE  i = j
  <2>1. /\ i = Len(v) \/ i \in 1 .. Len(w)
        /\ j = Len(v) \/ j \in 1 .. Len(w)
    BY <1>1
  <2> QED BY <1>1, <1>2, <2>1
<1>3. v \in SimplePaths
  BY <1>1, <1>2, SimplePathIs
<1> QED BY <1>1, <1>3

LEMMA ExpandLeadsBack ==
  ASSUME SearchOK, NEW node \in Pose, NEW cost \in Nat, NEW better,
         Expands(node, cost, better), UNCHANGED trip
  PROVE  ParentsLeadBack'
<1>1. /\ better \subseteq Pose /\ node \notin better /\ node \in Reached
      /\ Reached' = Reached \cup better /\ Settled' = Settled \cup {node}
      /\ better \cap Settled' = {} /\ Start' = Start
  BY ExpandSets DEF Start
<1>2. /\ \A p \in better : parent'[p] = node
      /\ \A p \in Pose \ better : parent'[p] = parent[p]
  BY DEF Expands
<1>3. ASSUME NEW p \in Reached', p \notin better
      PROVE  \E v \in RoutesBack(p)' : \A i \in 1 .. Len(v) - 1 : v[i] \in Settled'
  <2>1. p \in Reached
    BY <1>1, <1>3
  <2>2. PICK w \in RoutesBack(p) : \A i \in 1 .. Len(w) - 1 : w[i] \in Settled
    BY <2>1 DEF SearchOK, ParentsLeadBack
  <2>3. w \in SimplePaths /\ w[1] = Start /\ w[Len(w)] = p /\ Followed(w)
    BY <2>2 DEF RoutesBack
  <2>4. Len(w) \in Nat /\ \A i \in 1 .. Len(w) : w[i] \in Pose
    BY <2>3, SimplePathFacts
  <2>5. \A i \in 1 .. Len(w) - 1 : w[i] \in Settled'
    BY <1>1, <2>2
  <2>6. \A i \in 1 .. Len(w) : w[i] \notin better
    <3>1. \A i \in 1 .. Len(w) : i = Len(w) \/ i \in 1 .. Len(w) - 1
      BY <2>4
    <3> QED BY <1>1, <1>3, <2>3, <2>5, <3>1
  <2>7. \A i \in 2 .. Len(w) : parent'[w[i]] = w[i - 1]
    <3>1. \A i \in 2 .. Len(w) : i \in 1 .. Len(w) /\ w[i] \in Pose \ better
      BY <2>4, <2>6
    <3> QED BY <1>2, <2>3, <3>1 DEF Followed
  <2>8. w \in RoutesBack(p)'
    BY <1>1, <2>3, <2>7 DEF RoutesBack, Followed
  <2> QED BY <2>5, <2>8
<1>4. ASSUME NEW p \in better
      PROVE  \E v \in RoutesBack(p)' : \A i \in 1 .. Len(v) - 1 : v[i] \in Settled'
  <2>1. PICK w \in RoutesBack(node) : \A i \in 1 .. Len(w) - 1 : w[i] \in Settled
    BY <1>1 DEF SearchOK, ParentsLeadBack
  <2>2. w \in SimplePaths /\ w[1] = Start /\ w[Len(w)] = node /\ Followed(w)
    BY <2>1 DEF RoutesBack
  <2>3. /\ w \in Seq(Pose) /\ Len(w) \in Nat /\ Len(w) >= 1
        /\ \A i \in 1 .. Len(w) : w[i] \in Pose
        /\ \A i, j \in 1 .. Len(w) : w[i] = w[j] => i = j
    BY <2>2, SimplePathFacts
  <2>4. \A i \in 1 .. Len(w) : w[i] \in Settled'
    <3>1. \A i \in 1 .. Len(w) : i = Len(w) \/ i \in 1 .. Len(w) - 1
      BY <2>3
    <3> QED BY <1>1, <2>1, <2>2, <3>1
  <2>5. \A i \in 1 .. Len(w) : w[i] \notin better /\ w[i] # p
    BY <1>1, <1>4, <2>4
  <2>6. PICK v \in SimplePaths : /\ Len(v) = Len(w) + 1 /\ v[Len(v)] = p
                                 /\ \A i \in 1 .. Len(w) : v[i] = w[i]
    BY <1>1, <1>4, <2>3, <2>5, AppendedPose
  <2>7. v[1] = Start
    BY <2>2, <2>3, <2>6
  <2>8. ASSUME NEW i \in 2 .. Len(v)
        PROVE  parent'[v[i]] = v[i - 1]
    <3>1. CASE i = Len(v)
      <4>1. v[i - 1] = w[Len(w)]
        BY <2>3, <2>6, <3>1
      <4> QED BY <1>2, <1>4, <2>2, <2>6, <3>1, <4>1
    <3>2. CASE i # Len(v)
      <4>1. i \in 1 .. Len(w) /\ i - 1 \in 1 .. Len(w) /\ i \in 2 .. Len(w)
        BY <2>3, <2>6, <2>8, <3>2
      <4>2. v[i] = w[i] /\ v[i - 1] = w[i - 1] /\ w[i] \in Pose \ better
        BY <2>3, <2>5, <2>6, <4>1
      <4>3. parent[w[i]] = w[i - 1]
        BY <2>2, <4>1 DEF Followed
      <4> QED BY <1>2, <4>2, <4>3
    <3> QED BY <3>1, <3>2
  <2>9. \A i \in 1 .. Len(v) - 1 : v[i] \in Settled'
    BY <2>3, <2>4, <2>6
  <2>10. v \in RoutesBack(p)'
    BY <1>1, <2>6, <2>7, <2>8 DEF RoutesBack, Followed
  <2> QED BY <2>9, <2>10
<1> QED BY <1>3, <1>4 DEF ParentsLeadBack

LEMMA ExpandSearch ==
  ASSUME IInv, SearchOK, Expand
  PROVE  SearchOK'
<1>1. PICK node \in Pose, cost \in Nat, better \in SUBSET Pose : Expands(node, cost, better)
  BY ExpandExpands
<1>2. /\ better \subseteq Pose /\ node \notin better /\ node \in Reached
      /\ Reached' = Reached \cup better /\ Settled' = Settled \cup {node}
  BY <1>1, ExpandSets
<1>3. UNCHANGED vars /\ Temporary' = Temporary /\ Start' = Start
  BY DEF Expand, vars, Temporary, Lasts, Start
<1>4. /\ \A p \in better : /\ parent'[p] = node /\ Between(OpenNow, node, p) # {}
                           /\ cost + StepCost(OpenNow, node, p) <= dist'[p]
                           /\ p \in Reached => dist'[p] < dist[p]
      /\ \A p \in Pose \ better : parent'[p] = parent[p] /\ dist'[p] = dist[p]
      /\ \A e \in OpenNow :
           e.from = node => e.to \in better \cup Reached /\ dist'[e.to] <= cost + e.cost
      /\ dist[node] = cost
      /\ dist' \in [Pose -> Nat \cup {Infinity}] /\ parent' \in [Pose -> Pose \cup {NoPose}]
      /\ q' = (q \ {<<cost, node>>}) \cup {<<dist'[p], p>> : p \in better}
      /\ \A p \in better : dist'[p] \in Nat
  BY <1>1 DEF Expands
<1>5. LocalsOK'
  <2>1. q' \subseteq Nat \X Pose
    BY <1>2, <1>4 DEF SearchOK, LocalsOK
  <2>2. dist'[Start] = 0
    <3>1. Start \in Reached /\ Start \in Pose /\ dist[Start] = 0
      BY DEF SearchOK, LocalsOK, Reached, Infinity, IInv, TypeOK, WaitOK, Start
    <3>2. ASSUME Start \in better
          PROVE  FALSE
      BY <1>4, <3>1, <3>2
    <3> QED BY <1>4, <3>1, <3>2
  <2> QED BY <1>3, <1>4, <2>1, <2>2 DEF LocalsOK
<1>6. QueueOK'
  BY <1>1, ExpandQueue
<1>11. \A p \in Reached : p \in Reached' /\ dist'[p] <= dist[p] /\ dist[p] \in Nat
                          /\ dist'[p] \in Nat
  <2>1. ASSUME NEW p \in Reached
        PROVE  p \in Reached' /\ dist'[p] <= dist[p] /\ dist[p] \in Nat /\ dist'[p] \in Nat
    <3>1. dist[p] \in Nat /\ p \in Pose /\ p \in Reached'
      BY <1>2 DEF SearchOK, LocalsOK, Reached
    <3>2. CASE p \in better
      BY <1>4, <3>1, <3>2
    <3>3. CASE p \notin better
      BY <1>4, <3>1, <3>3
    <3> QED BY <3>2, <3>3
  <2> QED BY <2>1
<1>12. \A p \in Settled' : dist'[p] = dist[p]
  <2>1. \A p \in Settled' : p \in Pose \ better
    BY <1>1, ExpandSets DEF Settled, Reached
  <2> QED BY <1>4, <2>1
<1>7. SettledSeen'
  <2>1. OpenEdges(Graph, asked, fixed) \subseteq OpenNow
    BY DEF SearchOK, OpenNow, OpenEdges, EdgeIsBlocked
  <2>2. asked' = asked /\ fixed' = fixed
    BY <1>3 DEF vars
  <2>3. ASSUME NEW p \in Settled', NEW e \in OpenEdges(Graph, asked, fixed), e.from = p
        PROVE  e.to \in Reached' /\ dist'[e.to] <= dist'[p] + e.cost
    <3>1. CASE p \in Settled
      <4>1. e.to \in Reached /\ dist[e.to] <= dist[p] + e.cost
        BY <2>3, <3>1 DEF SearchOK, SettledSeen
      <4>2. dist'[e.to] <= dist[e.to] /\ dist[e.to] \in Nat /\ dist'[e.to] \in Nat
            /\ e.to \in Reached'
        BY <1>11, <4>1
      <4>3. dist[p] \in Nat /\ dist'[p] = dist[p]
        BY <1>11, <1>12, <2>3, <3>1 DEF Settled
      <4>4. e.cost \in Nat
        BY GraphAssumption DEF OpenEdges, TopoEdges
      <4> QED BY <4>1, <4>2, <4>3, <4>4
    <3>2. CASE p = node
      <4>1. dist'[p] = cost
        BY <1>4, <1>12, <2>3, <3>2
      <4>2. e.to \in better \cup Reached /\ dist'[e.to] <= cost + e.cost
        BY <1>4, <2>1, <2>3, <3>2
      <4> QED BY <1>2, <4>1, <4>2
    <3> QED BY <1>2, <2>3, <3>1, <3>2
  <2> QED BY <2>2, <2>3 DEF SettledSeen
<1>8. ParentsOpen'
  <2>1. OpenNow' = OpenNow
    BY <1>3 DEF OpenNow, vars
  <2>2. ASSUME NEW p \in Pose, parent'[p] # NoPose
        PROVE  /\ p \in Reached' /\ parent'[p] \in Reached'
               /\ Between(OpenNow, parent'[p], p) # {}
               /\ dist'[parent'[p]] + StepCost(OpenNow, parent'[p], p) <= dist'[p]
    <3>1. CASE p \in better
      <4>1. parent'[p] = node /\ dist'[node] = cost
        BY <1>2, <1>4, <3>1
      <4> QED BY <1>2, <1>4, <3>1, <4>1
    <3>2. CASE p \notin better
      <4> DEFINE a == parent[p]
                 step == StepCost(OpenNow, a, p)
      <4>1. parent'[p] = a /\ dist'[p] = dist[p]
        BY <1>4, <3>2
      <4>2. p \in Reached /\ a \in Reached /\ Between(OpenNow, a, p) # {}
            /\ dist[a] + step <= dist[p]
        BY <2>2, <4>1 DEF SearchOK, ParentsOpen
      <4>3. step \in Nat
        <5>1. OpenNow \in SUBSET Graph
          BY DEF OpenNow, OpenEdges
        <5> QED BY <4>2, <5>1, StepCostFacts
      <4> HIDE DEF a, step
      <4>4. dist'[a] <= dist[a] /\ dist'[a] \in Nat /\ dist[a] \in Nat /\ a \in Reached'
            /\ p \in Reached' /\ dist[p] \in Nat
        BY <1>11, <4>2
      <4>5. dist'[a] + step <= dist'[p]
        BY <4>1, <4>2, <4>3, <4>4
      <4> QED BY <4>1, <4>2, <4>4, <4>5 DEF a, step
    <3> QED BY <3>1, <3>2
  <2> QED BY <2>1, <2>2 DEF ParentsOpen
<1>9. ParentsLeadBack'
  BY <1>1, <1>3, ExpandLeadsBack DEF vars
<1>10. Temporary' \subseteq asked'
  BY <1>3 DEF SearchOK, vars
<1> QED BY <1>5, <1>6, <1>7, <1>8, <1>9, <1>10 DEF SearchOK

(* The end of a search.  What it finds is open now: no edge that a parent  *)
(* pointer was set along has been blocked since.                           *)
LEMMA FoundIsOpen ==
  ASSUME IInv, SearchOK, RouteFound # <<>>
  PROVE  RouteFound \in Routes(OpenNow, Start, Goal)
<1>1. PICK w \in RoutesBack(Goal) : RouteFound = w
  BY DEF RouteFound
<1>2. w \in SimplePaths /\ w[1] = Start /\ w[Len(w)] = Goal /\ Followed(w)
  BY <1>1 DEF RoutesBack
<1>3. Len(w) \in Nat /\ \A i \in 1 .. Len(w) : w[i] \in Pose
  BY <1>2, SimplePathFacts
<1>4. ASSUME NEW i \in 2 .. Len(w)
      PROVE  Between(OpenNow, w[i - 1], w[i]) # {}
  <2>1. i \in 1 .. Len(w) /\ i - 1 \in 1 .. Len(w)
    BY <1>3
  <2>2. w[i] \in Pose /\ w[i - 1] \in Pose /\ parent[w[i]] = w[i - 1]
    BY <1>2, <1>3, <2>1 DEF Followed
  <2>3. w[i - 1] # NoPose
    BY <2>2 DEF Pose, NoPose
  <2> QED BY <2>2, <2>3 DEF SearchOK, ParentsOpen
<1> QED BY <1>1, <1>2, <1>4 DEF Routes

(* An empty queue has followed every route to its end.                     *)
LEMMA AllReached ==
  ASSUME SearchOK, q = {}, NEW w \in Routes(OpenEdges(Graph, asked, fixed), Start, Goal)
  PROVE  Goal \in Reached
<1>1. /\ w \in SimplePaths /\ w[1] = Start /\ w[Len(w)] = Goal
      /\ \A i \in 2 .. Len(w) :
           Between(OpenEdges(Graph, asked, fixed), w[i - 1], w[i]) # {}
  BY DEF Routes
<1>2. Len(w) \in Nat /\ Len(w) >= 1 /\ \A i \in 1 .. Len(w) : w[i] \in Pose
  BY <1>1, SimplePathFacts
<1>3. Settled = Reached /\ Start \in Reached
  <2>1. Start = w[1] /\ Start \in Pose
    BY <1>1, <1>2
  <2> QED BY <2>1 DEF SearchOK, LocalsOK, Settled, Reached, Infinity
<1> DEFINE missed == {i \in 1 .. Len(w) : w[i] \notin Reached}
<1>4. ASSUME missed # {}
      PROVE  FALSE
  <2>1. PICK k \in missed : \A m \in missed : k <= m
    <3>1. missed \subseteq Nat
      BY <1>2
    <3> HIDE DEF missed
    <3> QED BY <1>4, <3>1, LeastNumber
  <2>2. k \in 1 .. Len(w) /\ w[k] \notin Reached /\ k # 1
    BY <1>1, <1>3
  <2>3. k \in 2 .. Len(w) /\ k - 1 \in 1 .. Len(w)
    BY <1>2, <2>2
  <2>4. w[k - 1] \in Reached
    <3>1. ~(k <= k - 1)
      BY <2>3
    <3> QED BY <2>1, <2>3, <3>1
  <2>5. PICK e \in OpenEdges(Graph, asked, fixed) : e.from = w[k - 1] /\ e.to = w[k]
    BY <1>1, <2>3 DEF Between
  <2>6. w[k] \in Reached
    BY <1>3, <2>4, <2>5 DEF SearchOK, SettledSeen
  <2> QED BY <2>2, <2>6
<1>5. Len(w) \in 1 .. Len(w)
  BY <1>2
<1> QED BY <1>1, <1>4, <1>5

(* A search that finds nothing had nothing to find.                        *)
LEMMA NoneFound ==
  ASSUME IInv, SearchOK, Finished, RouteFound = <<>>
  PROVE  ~HasWay(asked)
<1>1. ASSUME NEW w \in RoutesBack(Goal)
      PROVE  FALSE
  <2>1. PICK v \in RoutesBack(Goal) : RouteFound = v
    BY <1>1 DEF RouteFound
  <2>2. Len(v) >= 1
    BY SimplePathFacts DEF RoutesBack
  <2>3. Len(<<>>) = 0
    OBVIOUS
  <2> QED BY <2>1, <2>2, <2>3
<1>2. Goal \notin Reached
  BY <1>1 DEF SearchOK, ParentsLeadBack
<1>3. q = {}
  BY <1>2 DEF Finished, SearchOK, QueueOK
<1>4. Start # Goal
  <2>1. Start \in Pose
    BY DEF IInv, TypeOK, WaitOK, Start
  <2> QED BY <1>2, <2>1 DEF SearchOK, LocalsOK, Reached, Infinity
<1>5. Routes(OpenEdges(Graph, asked, fixed), Start, Goal) = {}
  BY <1>2, <1>3, AllReached
<1> QED BY <1>4, <1>5 DEF HasWay, Start, Goal

-----------------------------------------------------------------------------
LEMMA SearchStepInvariant ==
  ASSUME IInv, IInv', SearchInv, [PlannerNext]_plannerVars
  PROVE  SoFarRight'
<1>1. CASE DriveOn
  <2>1. pc = "drive" /\ pc' = pc
    BY <1>1 DEF DriveOn, BlockEdge, MarkEdgeSuccess
  <2> QED BY <2>1 DEF SearchInv, SoFarRight, Searching
<1>2. CASE BeginPlan
  <2>1. PICK ends \in Trips, fix \in BOOLEAN : Plan(ends, fix) /\ BeginsAt(ends[1])
    BY <1>2 DEF BeginPlan
  <2>2. BeginsAt(trip'[1])
    BY <2>1 DEF Plan
  <2>3. Temporary' \subseteq asked'
    BY <2>1 DEF Plan, UnchangedBlocks, Temporary, Lasts
  <2> QED BY <2>2, <2>3, SearchBegins DEF SearchInv, SoFarRight
<1>3. CASE SkipOutdated
  BY <1>3, SkipOutdatedSearch DEF SearchInv, SoFarRight, SkipOutdated
<1>4. CASE Expand
  BY <1>4, ExpandSearch DEF SearchInv, SoFarRight, Expand
<1>5. CASE Finish
  <2>1. CASE StartWait /\ BeginsAt(Start)
    <3>1. BeginsAt(trip'[1])
      BY <2>1 DEF StartWait, Start
    <3>2. Temporary' \subseteq asked'
      BY <2>1 DEF StartWait, UnchangedBlocks, Temporary, Lasts
    <3> QED BY <3>1, <3>2, SearchBegins DEF SearchInv, SoFarRight
  <2>2. CASE TakeRoute \/ PlanFails \/ PollFails
    BY <2>2 DEF TakeRoute, PlanFails, PollFails, SoFarRight, Searching
  <2> QED BY <1>5, <2>1, <2>2 DEF Finish
<1>6. CASE CheckWait
  BY <1>6 DEF CheckWait, Check, SoFarRight, Searching
<1>7. CASE TimePasses
  <2>1. Tick
    BY <1>7 DEF TimePasses
  <2>2. CASE pc = "sleep"
    <3>1. BeginsAt(trip'[1]) /\ Temporary' \subseteq asked'
      BY <1>7, <2>2 DEF TimePasses, Tick, Start
    <3> QED BY <3>1, SearchBegins DEF SearchInv, SoFarRight
  <2>3. CASE pc # "sleep"
    <3>1. UNCHANGED <<dist, parent, q, trip, fixed, asked, pc>>
      BY <1>7, <2>3 DEF TimePasses, Tick, searchVars
    <3>2. Temporary' \subseteq Temporary
      <4>1. \A e \in Graph : left[e] \in Nat /\ (left'[e] > 0 => left[e] > 0)
        BY <2>1, CooldownAssumption DEF Tick, IInv, TypeOK, BlocksOK
      <4> QED BY <4>1 DEF Temporary, Lasts
    <3> QED BY <3>1, <3>2, LocalsKept DEF SearchInv, SoFarRight, Searching
  <2> QED BY <2>2, <2>3
<1>8. CASE UNCHANGED plannerVars
  <2>1. UNCHANGED <<dist, parent, q, trip, fixed, asked, pc, left>>
    BY <1>8 DEF plannerVars, vars, searchVars
  <2>2. Temporary' = Temporary
    BY <2>1 DEF Temporary, Lasts
  <2> QED BY <2>1, <2>2, LocalsKept DEF SearchInv, SoFarRight, Searching
<1> QED BY <1>1, <1>2, <1>3, <1>4, <1>5, <1>6, <1>7, <1>8 DEF PlannerNext, SearchStep

LEMMA NotEndedInvariant ==
  ASSUME IInv, NotEndedYet, [PlannerNext]_plannerVars
  PROVE  NotEndedYet'
<1>1. [Moves]_vars
  BY PlannerMoves
<1>2. CASE Drive
  <2>1. CASE pc' = "drive"
    BY <2>1 DEF NotEndedYet
  <2>2. CASE \E ends \in Trips, fix \in BOOLEAN : Plan(ends, fix)
    BY <2>2 DEF Plan, NotEndedYet
  <2>3. CASE \E leg \in Driven : BlockEdge(leg[1], leg[2]) \/ MarkEdgeSuccess(leg[1], leg[2])
    BY <2>3 DEF BlockEdge, MarkEdgeSuccess, NotEndedYet
  <2> QED BY <1>2, <2>2, <2>3 DEF Drive
<1>3. CASE TakeRoute \/ PlanFails \/ PollFails
  BY <1>3 DEF TakeRoute, PlanFails, PollFails, NotEndedYet
<1>4. CASE StartWait
  BY <1>4 DEF StartWait, NotEndedYet
<1>5. CASE Check
  BY <1>5 DEF Check, NotEndedYet
<1>6. CASE Tick
  BY <1>6 DEF Tick, NotEndedYet
<1>7. CASE UNCHANGED vars
  BY <1>7 DEF vars, NotEndedYet
<1> QED BY <1>1, <1>2, <1>3, <1>4, <1>5, <1>6, <1>7 DEF Moves, NoRoute

LEMMA SearchInvariance == PlannerSpec => [](IInv /\ SearchInv)
<1>1. PlannerInit => SearchInv
  BY DEF PlannerInit, Init, SearchInv, NotEndedYet, SoFarRight, Searching
<1>2. IInv /\ IInv' /\ SearchInv /\ [PlannerNext]_plannerVars => SearchInv'
  BY SearchStepInvariant, NotEndedInvariant DEF SearchInv
<1> QED BY <1>1, <1>2, PlannerInvariance, PTL DEF PlannerSpec

(* Every step of the planner is one that EdgeCooldown allows: the end of a *)
(* search is one of its searches, the steps before it change nothing.      *)
LEMMA StepKeepsPromise ==
  ASSUME IInv, SearchInv, [PlannerNext]_plannerVars
  PROVE  [Next]_vars
<1>1. CASE DriveOn \/ BeginPlan
  BY <1>1 DEF DriveOn, BeginPlan, Next, Drive
<1>2. CASE SkipOutdated \/ Expand
  BY <1>2 DEF SkipOutdated, Expand
<1>3. CASE Finish
  <2>1. SearchOK /\ Finished
    BY <1>3 DEF Finish, SearchInv, SoFarRight
  <2>2. CASE RouteFound # <<>>
    <3>1. HasWay(Temporary)
      BY <2>1, <2>2, FoundIsOpen DEF HasWay, OpenNow, Start, Goal
    <3> QED BY <1>3, <2>2, <3>1 DEF Finish, Next, SearchSucceeds
  <2>3. CASE RouteFound = <<>>
    <3>1. ~HasWay(asked)
      BY <2>1, <2>3, NoneFound
    <3>2. NoRoute
      BY <1>3, <2>3 DEF Finish, NoRoute
    <3> QED BY <3>1, <3>2 DEF Next, SearchFails
  <2> QED BY <2>2, <2>3
<1>4. CASE CheckWait \/ TimePasses
  BY <1>4 DEF CheckWait, TimePasses, Next
<1>5. CASE UNCHANGED plannerVars
  BY <1>5 DEF plannerVars
<1> QED BY <1>1, <1>2, <1>3, <1>4, <1>5 DEF PlannerNext, SearchStep

(* dijkstraShortestPath keeps the promise of a search, whatever the graph, *)
(* the costs of its edges and the order of equally cheap poses, and        *)
(* however many blocks expire while it runs: what it finds is open when it *)
(* ends, and it finds nothing only if there was no open route when it      *)
(* began.  So nothing is said about the missions with the search in one    *)
(* step that the search of the code could break.                           *)
THEOREM SearchKeepsPromise == PlannerSpec => KeepsPromise
<1>1. PlannerInit => Init
  BY DEF PlannerInit
<1>2. IInv /\ SearchInv /\ [PlannerNext]_plannerVars => [Next]_vars
  BY StepKeepsPromise
<1> QED BY <1>1, <1>2, SearchInvariance, PTL DEF PlannerSpec, KeepsPromise, Spec

(* Every wait of the missions that search as the code does outlives every  *)
(* block, by the same promise.                                             *)
THEOREM PlannerGivesUpLate == PlannerSpec => GivesUpOnlyIfHopeless
BY SearchKeepsPromise, WaitIsLongEnough, PTL DEF KeepsPromise

-----------------------------------------------------------------------------
(* Cheapest routes.  The parents pay for their children, so the route that *)
(* is read off them costs no more now than its last pose.                  *)
LEMMA ParentsPay ==
  ASSUME IInv, SearchOK, NEW w \in RoutesBack(Goal)
  PROVE  /\ Goal \in Reached /\ RouteCost(OpenNow, w) \in Nat
         /\ RouteCost(OpenNow, w) <= dist[Goal]
<1>1. /\ w \in SimplePaths /\ w[1] = Start /\ w[Len(w)] = Goal
      /\ \A i \in 2 .. Len(w) : parent[w[i]] = w[i - 1]
  BY DEF RoutesBack, Followed
<1>2. /\ w \in Seq(Pose) /\ Len(w) \in Nat /\ Len(w) >= 1
      /\ \A i \in 1 .. Len(w) : w[i] \in Pose
  BY <1>1, SimplePathFacts
<1>3. ASSUME NEW i \in 2 .. Len(w)
      PROVE  /\ w[i] \in Reached /\ w[i - 1] \in Reached
             /\ Between(OpenNow, w[i - 1], w[i]) # {}
             /\ dist[w[i - 1]] + StepCost(OpenNow, w[i - 1], w[i]) <= dist[w[i]]
             /\ StepCost(OpenNow, w[i - 1], w[i]) \in Nat
  <2>1. i \in 1 .. Len(w) /\ i - 1 \in 1 .. Len(w)
    BY <1>2
  <2>2. w[i] \in Pose /\ w[i - 1] # NoPose /\ parent[w[i]] = w[i - 1]
    BY <1>1, <1>2, <2>1 DEF Pose, NoPose
  <2>3. /\ w[i] \in Reached /\ w[i - 1] \in Reached
        /\ Between(OpenNow, w[i - 1], w[i]) # {}
        /\ dist[w[i - 1]] + StepCost(OpenNow, w[i - 1], w[i]) <= dist[w[i]]
    BY <2>2 DEF SearchOK, ParentsOpen
  <2>4. OpenNow \in SUBSET Graph
    BY DEF OpenNow, OpenEdges
  <2> QED BY <2>3, <2>4, StepCostFacts
<1>4. PICK c : AddsUp(OpenNow, w, Len(w), c) /\ RouteCost(OpenNow, w) = c[Len(w)]
  <2>1. OpenNow \in SUBSET Graph
    BY DEF OpenNow, OpenEdges
  <2> QED BY <1>2, <1>3, <2>1, CostsAlong
<1>5. Start \in Reached /\ dist[Start] = 0
  <2>1. Start \in Pose
    BY DEF IInv, TypeOK, WaitOK, Start
  <2> QED BY <2>1 DEF SearchOK, LocalsOK, Reached, Infinity
<1> DEFINE bad == {i \in 1 .. Len(w) : ~(w[i] \in Reached /\ c[i] <= dist[w[i]])}
<1>6. ASSUME bad # {}
      PROVE  FALSE
  <2>1. PICK k \in bad : \A x \in bad : k <= x
    <3>1. bad \subseteq Nat
      BY <1>2
    <3> HIDE DEF bad
    <3> QED BY <1>6, <3>1, LeastNumber
  <2>2. k \in 1 .. Len(w) /\ ~(w[k] \in Reached /\ c[k] <= dist[w[k]])
    BY <2>1
  <2>3. k # 1
    BY <1>1, <1>4, <1>5, <2>2 DEF AddsUp
  <2>4. k \in 2 .. Len(w) /\ k - 1 \in 1 .. Len(w) /\ ~(k <= k - 1)
    BY <1>2, <2>2, <2>3
  <2>5. w[k - 1] \in Reached /\ c[k - 1] <= dist[w[k - 1]]
    BY <2>1, <2>4
  <2> DEFINE before == c[k - 1]
             step == StepCost(OpenNow, w[k - 1], w[k])
             there == dist[w[k]]
             last == dist[w[k - 1]]
  <2>6. c[k] = before + step
    BY <1>4, <2>4 DEF AddsUp
  <2>7. before \in Nat /\ step \in Nat /\ there \in Nat /\ last \in Nat
        /\ last + step <= there /\ before <= last
    <3>1. before \in Nat
      BY <1>4, <2>4 DEF AddsUp
    <3>2. w[k] \in Reached /\ step \in Nat /\ last + step <= there
      BY <1>3, <2>4
    <3>3. there \in Nat /\ last \in Nat
      BY <2>5, <3>2 DEF SearchOK, LocalsOK, Reached
    <3> QED BY <2>5, <3>1, <3>2, <3>3
  <2>8. w[k] \in Reached /\ ~(c[k] <= there)
    BY <1>3, <2>2, <2>4
  <2> HIDE DEF before, step, there, last
  <2> QED BY <2>6, <2>7, <2>8
<1>7. Len(w) \in 1 .. Len(w)
  BY <1>2
<1>8. c[Len(w)] \in Nat
  BY <1>4, <1>7 DEF AddsUp
<1> QED BY <1>1, <1>4, <1>6, <1>7, <1>8

(* Costs never fall along a route.                                         *)
LEMMA CostsRise ==
  ASSUME NEW n \in Nat, NEW edges, NEW p, NEW c, AddsUp(edges, p, n, c),
         \A i \in 2 .. n : StepCost(edges, p[i - 1], p[i]) \in Nat, NEW k \in 1 .. n
  PROVE  c[k] <= c[n]
<1> DEFINE bad == {i \in k .. n : ~(c[k] <= c[i])}
<1>1. \A i \in 1 .. n : c[i] \in Nat
  BY DEF AddsUp
<1>2. ASSUME bad # {}
      PROVE  FALSE
  <2>1. PICK m \in bad : \A x \in bad : m <= x
    <3>1. bad \subseteq Nat
      OBVIOUS
    <3> HIDE DEF bad
    <3> QED BY <1>2, <3>1, LeastNumber
  <2>2. m \in k .. n /\ ~(c[k] <= c[m])
    BY <2>1
  <2>3. m # k
    BY <1>1, <2>2
  <2>4. m - 1 \in k .. n /\ m \in 2 .. n /\ ~(m <= m - 1)
    BY <2>2, <2>3
  <2>5. c[k] <= c[m - 1]
    BY <2>1, <2>4
  <2> DEFINE step == StepCost(edges, p[m - 1], p[m])
             x == c[k]
             y == c[m - 1]
  <2>6. c[m] = y + step /\ step \in Nat /\ x \in Nat /\ y \in Nat
    BY <1>1, <2>4 DEF AddsUp
  <2> HIDE DEF step
  <2> QED BY <2>2, <2>5, <2>6
<1> QED BY <1>2

(* When the goal surfaces, every pose that is not settled costs as much.   *)
LEMMA GoalIsCheapest ==
  ASSUME IInv, SearchOK, Finished, Goal \in Reached, NEW p \in Reached, p \notin Settled
  PROVE  dist[Goal] <= dist[p]
<1>1. <<dist[p], p>> \in q
  BY DEF Settled
<1>2. PICK item \in q : Surfaces(item) /\ ~Below(dist[item[2]], item[1]) /\ item[2] = Goal
  BY <1>1 DEF Finished
<1>3. item[1] <= dist[p]
  <2> DEFINE other == <<dist[p], p>>
  <2>1. item[1] < other[1] \/ item[1] = other[1]
    BY <1>1, <1>2 DEF Surfaces
  <2>2. other[1] = dist[p] /\ dist[p] \in Nat /\ item[1] \in Nat
    BY DEF SearchOK, LocalsOK, Reached
  <2> HIDE DEF other
  <2> QED BY <2>1, <2>2
<1>4. dist[Goal] \in Nat /\ dist[p] \in Nat /\ item[1] \in Nat
  BY DEF SearchOK, LocalsOK, Reached
<1>5. dist[Goal] <= item[1]
  BY <1>2 DEF SearchOK, QueueOK
<1> QED BY <1>3, <1>4, <1>5

(* So no route that was open when the search began is cheaper.             *)
LEMMA NoRouteIsCheaper ==
  ASSUME IInv, SearchOK, Finished, Goal \in Reached,
         NEW w \in Routes(OpenEdges(Graph, asked, fixed), Start, Goal)
  PROVE  /\ RouteCost(OpenEdges(Graph, asked, fixed), w) \in Nat
         /\ dist[Goal] <= RouteCost(OpenEdges(Graph, asked, fixed), w)
<1> DEFINE edges == OpenEdges(Graph, asked, fixed)
<1>1. /\ w \in SimplePaths /\ w[1] = Start /\ w[Len(w)] = Goal
      /\ \A i \in 2 .. Len(w) : Between(edges, w[i - 1], w[i]) # {}
      /\ edges \in SUBSET Graph
  BY DEF Routes, OpenEdges
<1>2. w \in Seq(Pose) /\ Len(w) \in Nat /\ Len(w) >= 1 /\ Len(w) \in 1 .. Len(w)
      /\ \A i \in 1 .. Len(w) : w[i] \in Pose
  BY <1>1, SimplePathFacts
<1>3. \A p \in Settled, e \in edges :
        e.from = p => e.to \in Reached /\ dist[e.to] <= dist[p] + e.cost
  BY DEF SearchOK, SettledSeen
<1> HIDE DEF edges
<1>4. PICK c : AddsUp(edges, w, Len(w), c) /\ RouteCost(edges, w) = c[Len(w)]
  BY <1>1, <1>2, CostsAlong
<1>5. \A i \in 2 .. Len(w) : StepCost(edges, w[i - 1], w[i]) \in Nat
  BY <1>1, StepCostFacts
<1>6. \A p \in Reached : dist[p] \in Nat
  BY DEF SearchOK, LocalsOK, Reached
<1>7. \A i \in 1 .. Len(w) : c[i] \in Nat
  BY <1>4 DEF AddsUp
<1>8. Start \in Reached /\ dist[Start] = 0
  <2>1. Start \in Pose
    BY DEF IInv, TypeOK, WaitOK, Start
  <2> QED BY <2>1 DEF SearchOK, LocalsOK, Reached, Infinity
<1> DEFINE Ahead(i) == \A j \in 1 .. i - 1 : w[j] \in Settled
           bad == {i \in 1 .. Len(w) : Ahead(i) /\ ~(w[i] \in Reached /\ dist[w[i]] <= c[i])}
<1>9. ASSUME bad # {}
      PROVE  FALSE
  <2>1. PICK k \in bad : \A x \in bad : k <= x
    <3>1. bad \subseteq Nat
      BY <1>2
    <3> HIDE DEF bad
    <3> QED BY <1>9, <3>1, LeastNumber
  <2>2. k \in 1 .. Len(w) /\ Ahead(k) /\ ~(w[k] \in Reached /\ dist[w[k]] <= c[k])
    BY <2>1
  <2>3. k # 1
    BY <1>1, <1>4, <1>8, <2>2 DEF AddsUp
  <2>4. k \in 2 .. Len(w) /\ k - 1 \in 1 .. Len(w) /\ ~(k <= k - 1) /\ k - 1 \in 1 .. k - 1
    BY <1>2, <2>2, <2>3
  <2>5. Ahead(k - 1) /\ w[k - 1] \in Settled
    BY <2>2, <2>4
  <2>6. w[k - 1] \in Reached /\ dist[w[k - 1]] <= c[k - 1]
    BY <2>1, <2>4, <2>5
  <2>7. PICK e \in Between(edges, w[k - 1], w[k]) : StepCost(edges, w[k - 1], w[k]) = e.cost
    BY <1>1, <2>4, StepCostFacts
  <2>8. w[k] \in Reached /\ dist[w[k]] <= dist[w[k - 1]] + e.cost
    BY <1>3, <2>5, <2>7 DEF Between
  <2> DEFINE before == c[k - 1]
             step == e.cost
             there == dist[w[k]]
             last == dist[w[k - 1]]
  <2>9. c[k] = before + step
    BY <1>4, <2>4, <2>7 DEF AddsUp
  <2>10. before \in Nat /\ step \in Nat /\ there \in Nat /\ last \in Nat
    BY <1>5, <1>6, <1>7, <2>4, <2>6, <2>7, <2>8
  <2>11. there <= last + step /\ last <= before /\ ~(there <= c[k])
    BY <2>2, <2>6, <2>8
  <2> HIDE DEF before, step, there, last
  <2> QED BY <2>9, <2>10, <2>11
<1> DEFINE open == {i \in 1 .. Len(w) : w[i] \notin Settled}
<1>10. CASE open = {}
  <2>1. Ahead(Len(w))
    BY <1>2, <1>10
  <2> QED BY <1>1, <1>2, <1>4, <1>7, <1>9, <2>1 DEF edges
<1>11. CASE open # {}
  <2>1. PICK k \in open : \A x \in open : k <= x
    <3>1. open \subseteq Nat
      BY <1>2
    <3> HIDE DEF open
    <3> QED BY <1>11, <3>1, LeastNumber
  <2>2. k \in 1 .. Len(w) /\ w[k] \notin Settled
    BY <2>1
  <2>3. Ahead(k)
    <3>1. ASSUME NEW j \in 1 .. k - 1
          PROVE  w[j] \in Settled
      <4>1. j \in 1 .. Len(w) /\ ~(k <= j)
        BY <1>2, <2>2
      <4> QED BY <2>1, <4>1
    <3> QED BY <3>1
  <2>4. w[k] \in Reached /\ dist[w[k]] <= c[k]
    BY <1>9, <2>2, <2>3
  <2>5. dist[Goal] <= dist[w[k]]
    BY <2>2, <2>4, GoalIsCheapest
  <2>6. c[k] <= c[Len(w)]
    BY <1>2, <1>4, <1>5, <2>2, CostsRise
  <2> DEFINE x == dist[Goal]
             y == dist[w[k]]
             u == c[k]
             v == c[Len(w)]
  <2>7. x \in Nat /\ y \in Nat /\ u \in Nat /\ v \in Nat /\ x <= y /\ y <= u /\ u <= v
    BY <1>2, <1>6, <1>7, <2>2, <2>4, <2>5, <2>6
  <2> HIDE DEF x, y, u, v
  <2>8. x <= v
    BY <2>7
  <2> QED BY <1>4, <2>7, <2>8 DEF v, x, edges
<1> QED BY <1>10, <1>11

(* dijkstraShortestPath finds a route that is open when the search ends    *)
(* and no dearer than any that was open when it began, whatever the graph: *)
(* outdated pairs, ties, edges that cost nothing and parallel edges make   *)
(* no difference, nor do blocks that expire in the middle.                 *)
THEOREM SearchFindsShortest == PlannerSpec => RouteIsShortest
<1>1. ASSUME IInv, SearchInv, [PlannerNext]_plannerVars, Searching, found' = "path"
      PROVE  LET before == OpenEdges(Graph, asked, fixed)
                 now == OpenEdges(Graph, Temporary, fixed)
             IN  /\ path' \in Routes(now, Start, Goal)
                 /\ \A route \in Routes(before, Start, Goal) :
                      RouteCost(now, path') <= RouteCost(before, route)
  <2>1. SearchOK /\ found = "open" /\ pc \in {"plan", "poll"}
    BY <1>1 DEF SearchInv, SoFarRight, NotEndedYet, Searching
  <2>2. Finish /\ RouteFound # <<>>
    <3>1. CASE DriveOn \/ BeginPlan
      BY <2>1, <3>1 DEF DriveOn, BeginPlan, BlockEdge, MarkEdgeSuccess, Plan
    <3>2. CASE SkipOutdated \/ Expand \/ UNCHANGED plannerVars
      BY <1>1, <2>1, <3>2 DEF SkipOutdated, Expand, plannerVars, vars
    <3>3. CASE Finish
      BY <1>1, <2>1, <3>3 DEF Finish, PlanFails, PollFails, StartWait
    <3>4. CASE CheckWait \/ TimePasses
      BY <1>1, <2>1, <3>4 DEF CheckWait, TimePasses, Check, Tick
    <3> QED BY <1>1, <3>1, <3>2, <3>3, <3>4 DEF PlannerNext, SearchStep
  <2>3. path' = RouteFound /\ Finished
    BY <2>2 DEF Finish
  <2>4. PICK w \in RoutesBack(Goal) : RouteFound = w
    BY <2>2 DEF RouteFound
  <2>5. w \in Routes(OpenNow, Start, Goal)
    BY <1>1, <2>1, <2>2, <2>4, FoundIsOpen
  <2>6. /\ Goal \in Reached /\ RouteCost(OpenNow, w) \in Nat
        /\ RouteCost(OpenNow, w) <= dist[Goal]
    BY <1>1, <2>1, ParentsPay
  <2>7. ASSUME NEW route \in Routes(OpenEdges(Graph, asked, fixed), Start, Goal)
        PROVE  RouteCost(OpenNow, w) <= RouteCost(OpenEdges(Graph, asked, fixed), route)
    <3> DEFINE x == RouteCost(OpenNow, w)
               y == dist[Goal]
               z == RouteCost(OpenEdges(Graph, asked, fixed), route)
    <3>1. z \in Nat /\ y <= z
      BY <1>1, <2>1, <2>3, <2>6, NoRouteIsCheaper
    <3>2. x \in Nat /\ x <= y /\ y \in Nat
      BY <2>1, <2>6 DEF SearchOK, LocalsOK, Reached
    <3> HIDE DEF x, y, z
    <3>3. x <= z
      BY <3>1, <3>2
    <3> QED BY <3>3 DEF x, z
  <2> QED BY <2>3, <2>4, <2>5, <2>7 DEF OpenNow
<1>2. IInv /\ SearchInv /\ [PlannerNext]_plannerVars =>
        [Searching /\ found' = "path" =>
           LET before == OpenEdges(Graph, asked, fixed)
               now == OpenEdges(Graph, Temporary, fixed)
           IN  /\ path' \in Routes(now, Start, Goal)
               /\ \A route \in Routes(before, Start, Goal) :
                    RouteCost(now, path') <= RouteCost(before, route)]_plannerVars
  BY <1>1
<1> QED BY <1>2, SearchInvariance, PTL DEF PlannerSpec, RouteIsShortest
=============================================================================
