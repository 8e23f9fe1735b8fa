-------------------------- MODULE DijkstraPlanner ---------------------------
(***************************************************************************)
(* dijkstraShortestPath (run_nav.cpp 1388-1467) inside the planning and    *)
(* waiting of EdgeCooldown: one iteration of the search loop per step,     *)
(* while blocks expire around it.  The priority queue holds <<cost, pose>> *)
(* pairs and is never updated in place: a pose that was reached more       *)
(* cheaply later leaves an outdated pair behind, which is skipped when it  *)
(* surfaces.  The search stops when the goal surfaces, and the route is    *)
(* read off the parent pointers.                                           *)
(***************************************************************************)
EXTENDS EdgeCooldown

(* numeric_limits<double>::infinity(), which no cost is, and the order of  *)
(* costs with infinity above all others.                                   *)
Infinity == -1
Below(c, d) == c # Infinity /\ (d = Infinity \/ c < d)

VARIABLES
  dist, parent,           \* the vectors dist and parent, functions on Pose
  q,                      \* the priority queue
  path                    \* the route found, <<>> if none

searchVars == <<dist, parent, q, path>>
plannerVars == <<vars, searchVars>>

Start == trip[1]
Goal == trip[2]

(* The locals of the function, when a search from a pose begins and when   *)
(* none runs. *)
BeginsAt(from) ==
  /\ dist' = [p \in Pose |-> IF p = from THEN 0 ELSE Infinity]
  /\ parent' = [p \in Pose |-> NoPose]
  /\ q' = {<<0, from>>}
  /\ path' = <<>>
LocalsGone ==
  /\ dist' = [p \in Pose |-> Infinity]
  /\ parent' = [p \in Pose |-> NoPose]
  /\ q' = {}

PlannerInit ==
  /\ Init
  /\ dist = [p \in Pose |-> Infinity] /\ parent = [p \in Pose |-> NoPose]
  /\ q = {} /\ path = <<>>

-----------------------------------------------------------------------------
(* The order of std::pair under std::greater: the cheapest first, then the *)
(* smallest index.                                                         *)
Surfaces(item) ==
  \A other \in q : \/ item[1] < other[1]
                   \/ item[1] = other[1] /\ item[2] <= other[2]

(* The loop over the edges of a pose: dist and parent are overwritten by   *)
(* every edge that is a strict improvement, so the cheapest edge wins.  (A *)
(* dearer parallel edge that comes first leaves one more outdated pair.)   *)
Offers(edges, node, cost, to) ==
  {cost + e.cost : e \in Between(edges, node, to)}
Improved(edges, node, cost) ==
  {to \in Pose : \E c \in Offers(edges, node, cost, to) : Below(c, dist[to])}

(* mutant: only a pose that was not reached before is queued *)
QueuedOnce(better) == {p \in better : dist[p] = Infinity}
Queued(better) == better

Relax(item) ==
  LET edges == OpenEdges(Graph, Temporary, fixed)
      node == item[2]
      better == Improved(edges, node, item[1])
      newDist == [p \in Pose |-> IF p \in better
                                 THEN Min(Offers(edges, node, item[1], p))
                                 ELSE dist[p]]
  IN  /\ dist' = newDist
      /\ parent' = [p \in Pose |-> IF p \in better THEN node ELSE parent[p]]
      /\ q' = (q \ {item}) \cup {<<newDist[p], p>> : p \in Queued(better)}

(* An outdated pair: cost > dist[node], continue. *)
SkipOutdated ==
  /\ Searching
  /\ \E item \in q : /\ Surfaces(item) /\ Below(dist[item[2]], item[1])
                     /\ q' = q \ {item}
  /\ UNCHANGED <<vars, dist, parent, path>>

Expand ==
  /\ Searching
  /\ \E item \in q : /\ Surfaces(item) /\ ~Below(dist[item[2]], item[1])
                     /\ item[2] # Goal
                     /\ Relax(item)
  /\ UNCHANGED <<vars, path>>

(* The route that the parent pointers give, followed from the goal back to *)
(* the start: none if they do not lead there.                              *)
Followed(w) == \A i \in 2 .. Len(w) : parent[w[i]] = w[i - 1]
RoutesBack(pose) ==
  {w \in SimplePaths : w[1] = Start /\ w[Len(w)] = pose /\ Followed(w)}
RouteFound ==
  IF RoutesBack(Goal) = {} THEN <<>> ELSE CHOOSE w \in RoutesBack(Goal) : TRUE

(* mutant: the search stops as soon as the goal has been reached once *)
FinishedEarly == q = {} \/ Start = Goal \/ parent[Goal] # NoPose
(* The goal surfaces, or the queue is empty. *)
Finished ==
  \/ q = {}
  \/ \E item \in q : /\ Surfaces(item) /\ ~Below(dist[item[2]], item[1])
                     /\ item[2] = Goal

(* A wait that starts searches again at once.                              *)
Finish ==
  /\ Searching /\ Finished
  /\ IF RouteFound # <<>>
     THEN TakeRoute /\ path' = RouteFound /\ LocalsGone
     ELSE \/ (PlanFails \/ PollFails) /\ LocalsGone /\ UNCHANGED path
          \/ StartWait /\ BeginsAt(Start)

-----------------------------------------------------------------------------
(* The rest of the mission, as in EdgeCooldown. *)
DriveOn == \E leg \in Driven :
  /\ BlockEdge(leg[1], leg[2]) \/ MarkEdgeSuccess(leg[1], leg[2])
  /\ UNCHANGED searchVars
BeginPlan == \E ends \in Trips, fix \in BOOLEAN :
  Plan(ends, fix) /\ BeginsAt(ends[1])
CheckWait == Check /\ UNCHANGED searchVars
TimePasses ==
  /\ Tick
  /\ IF pc = "sleep" THEN BeginsAt(Start) ELSE UNCHANGED searchVars

SearchStep == SkipOutdated \/ Expand \/ Finish

PlannerNext == DriveOn \/ BeginPlan \/ SearchStep \/ CheckWait \/ TimePasses

(* The mission thread runs, and time passes. *)
PlannerSpec ==
  /\ PlannerInit /\ [][PlannerNext]_plannerVars
  /\ WF_plannerVars(SearchStep) /\ WF_plannerVars(CheckWait)
  /\ WF_plannerVars(TimePasses)
-----------------------------------------------------------------------------
(* The search keeps the promise of EdgeCooldown, whenever blocks expire.   *)
KeepsPromise == Spec

(* A route that is found is open when the search ends, and no dearer than  *)
(* any that was open when it began; so it is a cheapest one if no block    *)
(* expired meanwhile.  Parallel edges, ties, edges that cost nothing and   *)
(* outdated queue entries make no difference.                              *)
RouteIsShortest ==
  [][Searching /\ found' = "path" =>
       LET before == OpenEdges(Graph, asked, fixed)
           now == OpenEdges(Graph, Temporary, fixed)
       IN  /\ path' \in Routes(now, Start, Goal)
           /\ \A route \in Routes(before, Start, Goal) :
                RouteCost(now, path') <= RouteCost(before, route)]_plannerVars

(* A mission never searches or waits for ever.                             *)
WaitEnds == (pc # "drive") ~> (pc = "drive")
=============================================================================
