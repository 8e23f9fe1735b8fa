--------------------------- MODULE TopoNavProofs ----------------------------
(***************************************************************************)
(* Proofs about the missions of run_nav, for any graph, any number of      *)
(* poses, requests and replans, and any use of the buttons.                *)
(***************************************************************************)
EXTENDS TopoNav, TLAPS

Waiting == {"planwait", "replanwait"}
Watching == {"top", "wait", "paused", "resumed", "failing"}

(* The shape of a mission: while it drives, a pose of the route is its     *)
(* goal, and the route leads to the target; while it waits for a way, the  *)
(* route is the pose it waits at.                                          *)
WellFormed(m) ==
  /\ m \in Mission /\ m.pos \in 0 .. Len(m.path)
  /\ m.pc \in Driving => m.pos >= 1 /\ m.path[Len(m.path)] = m.target
  /\ m.pc \in Waiting => Len(m.path) = 1 /\ ~m.fixed

OpenFrom(path, pos, edges) ==
  \A i \in Max2(pos, 2) .. Len(path) : Between(edges, path[i - 1], path[i]) # {}
IsOpen(m, blocked) ==
  m.pc \in Driving => OpenFrom(m.path, m.pos, OpenEdges(Graph, blocked, m.fixed))

(* What is under way, and what has come, since the goal was sent is about  *)
(* the pose of the published path that it names.                           *)
AboutWaypoints(status) == status.fresh => status.node = waypoints[status.index]
OnRoute(m) ==
  /\ m.pc \in Driving => waypoints = m.path
  /\ m.pc \in Watching => AboutWaypoints(sent) /\ AboutWaypoints(report)

Shape ==
  /\ \A r \in Runners : WellFormed(mission[r])
  /\ "joy" \in Runners => ~mission["joy"].fixed
RouteInv == IsOpen(mission["service"], temporary) /\ OnRoute(mission["service"])
IInv == TypeOK /\ Shape /\ (Runners = {"service"} => RouteInv)

-----------------------------------------------------------------------------
(* A plan is a route of open edges from its start to its target. *)
LEMMA PlanIsRoute ==
  ASSUME NEW blocked, NEW start \in Pose, NEW target \in Pose, NEW fixed \in BOOLEAN,
         NEW p \in Plans(blocked, start, target, fixed)
  PROVE  /\ p \in Seq(Pose) /\ Len(p) >= 1
         /\ p[1] = start /\ p[Len(p)] = target
         /\ OpenFrom(p, 1, OpenEdges(Graph, blocked, fixed))
<1>1. p \in AllRoutes[<<start, target>>]
  BY DEF Plans
<1>2. p \in Routes(Graph, start, target)
  BY <1>1 DEF AllRoutes
<1>3. PICK n \in 1 .. Poses : p \in [1 .. n -> Pose]
  BY <1>2 DEF Routes, SimplePaths
<1>4. p \in Seq(Pose) /\ Len(p) = n
  BY <1>3, PosesAssumption
<1>5. \A i \in 2 .. Len(p) : Between(OpenEdges(Graph, blocked, fixed), p[i - 1], p[i]) # {}
  BY DEF Plans
<1>6. Max2(1, 2) = 2
  BY DEF Max2
<1> QED BY <1>2, <1>3, <1>4, <1>5, <1>6 DEF Routes, OpenFrom

LEMMA Max2IsNat == \A a, b \in Nat : Max2(a, b) \in Nat /\ Max2(a, b) >= a /\ Max2(a, b) >= b
                                   /\ Max2(a, b) \in {a, b}
BY DEF Max2

(* A later pose of a route asks for less, and so does a smaller set of     *)
(* blocks.                                                                 *)
LEMMA OpenGoesOn ==
  ASSUME NEW path \in Seq(Pose), NEW pos \in Nat, NEW later \in Nat, later >= pos,
         NEW edges, NEW more, edges \subseteq more, OpenFrom(path, pos, edges)
  PROVE  OpenFrom(path, later, more)
<1> SUFFICES ASSUME NEW i \in Max2(later, 2) .. Len(path)
             PROVE  Between(more, path[i - 1], path[i]) # {}
  BY DEF OpenFrom
<1>1. i \in Max2(pos, 2) .. Len(path)
  BY DEF Max2
<1>2. PICK e \in edges : e.from = path[i - 1] /\ e.to = path[i]
  BY <1>1 DEF OpenFrom, Between
<1> QED BY <1>2 DEF Between

LEMMA FewerBlocksOpen ==
  ASSUME NEW blocked, NEW fewer, fewer \subseteq blocked, NEW fixed
  PROVE  OpenEdges(Graph, blocked, fixed) \subseteq OpenEdges(Graph, fewer, fixed)
BY DEF OpenEdges, EdgeIsBlocked

(* Places by name: the provers do not look into the set while they compute *)
(* with records. *)
LEMMA PlacesAre == {"send", "top", "wait", "paused", "resumed", "failing", "idle",
                    "planwait", "replanwait", "finish", "centering"} \subseteq Places
BY DEF Places

LEMMA FailedIsWellFormed ==
  ASSUME NEW m \in Mission, m.pos \in 0 .. Len(m.path)
  PROVE  /\ WellFormed(Failed(m)) /\ Failed(m).pc = "finish"
         /\ Failed(m).fixed = m.fixed
<1>1. "finish" \in Places
  BY PlacesAre
<1>2. Failed(m) \in Mission /\ Failed(m).pc = "finish" /\ Failed(m).fixed = m.fixed
      /\ Failed(m).pos = m.pos /\ Failed(m).path = m.path
  BY <1>1 DEF Failed, Mission
<1> QED BY <1>2 DEF WellFormed, Driving, Waiting

(* A step that turns the mission of r into n, which has no goal under way, *)
(* and the fixed route that it goes on with.                               *)
Turns(r, n) ==
  /\ mission' = [mission EXCEPT ![r] = n]
  /\ WellFormed(n) /\ (n.fixed => mission[r].fixed \/ r = "service")
  /\ IsOpen(mission[r], temporary) => IsOpen(n, temporary')
  /\ n.pc \notin Watching
  /\ waypoints' \in Seq(Pose)
  /\ n.pc = "send" =>
       \/ waypoints' = n.path
       \/ /\ mission[r].pc \in Driving
          /\ waypoints' = waypoints /\ n.path = mission[r].path
KeepsFixed(r, n) ==
  mission[r].fixed /\ mission[r].pc \in Driving /\ n.pc = "send" =>
    n.path = mission[r].path /\ n.pos \in {mission[r].pos, mission[r].pos + 1}

LEMMA GoOnTurns ==
  ASSUME NEW r \in Runners, NEW m \in Mission, m.fixed = mission[r].fixed,
         NEW path \in Seq(Pose), NEW pos \in 1 .. Len(path), path[Len(path)] = m.target,
         IsOpen(mission[r], temporary) => OpenFrom(path, pos, OpenEdges(Graph, temporary', m.fixed)),
         GoOn(r, m, path, pos)
  PROVE  \E n : Turns(r, n)
<1>1. CASE m.replans > MaxReplans
  <2> DEFINE n == Failed([m EXCEPT !.path = path, !.pos = pos])
  <2>1. mission' = [mission EXCEPT ![r] = n] /\ waypoints' = path
    BY <1>1 DEF GoOn
  <2>2. WellFormed(n) /\ n.pc = "finish" /\ n.fixed = m.fixed
    <3> DEFINE k == [m EXCEPT !.path = path, !.pos = pos]
    <3>0. n = Failed(k)
      OBVIOUS
    <3>1. pos \in Nat
      OBVIOUS
    <3>2. k \in Mission /\ k.pos = pos /\ k.path = path /\ k.fixed = m.fixed
      BY <3>1 DEF Mission
    <3>3. k.pos \in 0 .. Len(k.path)
      BY <3>2
    <3> HIDE DEF k, n
    <3> QED BY <3>0, <3>2, <3>3, FailedIsWellFormed
  <2>3. IsOpen(n, temporary')
    BY <2>2 DEF IsOpen, Driving
  <2> HIDE DEF n
  <2>4. Turns(r, n)
    BY <2>1, <2>2, <2>3 DEF Turns, Watching
  <2> QED BY <2>4
<1>2. CASE ~(m.replans > MaxReplans)
  <2> DEFINE n == [m EXCEPT !.pc = "send", !.path = path, !.pos = pos]
  <2>1. mission' = [mission EXCEPT ![r] = n] /\ waypoints' = path
    BY <1>2 DEF GoOn, Drive
  <2>2. n \in Mission /\ n.pc = "send" /\ n.path = path /\ n.pos = pos /\ n.fixed = m.fixed
        /\ n.target = m.target
    <3>1. "send" \in Places /\ pos \in Nat
      BY PlacesAre
    <3> QED BY <3>1 DEF Mission
  <2>3. WellFormed(n)
    BY <2>2 DEF WellFormed, Driving, Waiting
  <2>4. IsOpen(mission[r], temporary) => IsOpen(n, temporary')
    BY <2>2 DEF IsOpen
  <2>5. n.pc = "send" /\ waypoints' = n.path /\ n.fixed = mission[r].fixed
    BY <2>1, <2>2
  <2> HIDE DEF n
  <2>6. n.pc \notin Watching /\ waypoints' \in Seq(Pose)
    BY <2>1, <2>5 DEF Watching
  <2>7. Turns(r, n)
    BY <2>1, <2>3, <2>4, <2>5, <2>6 DEF Turns
  <2> QED BY <2>7
<1> QED BY <1>1, <1>2

(* A mission that becomes something that does not drive. *)
LEMMA StopTurns ==
  ASSUME NEW r \in Runners, NEW n, WellFormed(n),
         n.fixed => mission[r].fixed \/ r = "service", n.pc \notin Driving,
         waypoints \in Seq(Pose), Become(r, n)
  PROVE  Turns(r, n) /\ KeepsFixed(r, n)
BY DEF Turns, KeepsFixed, Become, IsOpen, Driving, Watching

LEMMA ReplanTurns ==
  ASSUME NEW r \in Runners, NEW m \in Mission, m.fixed = mission[r].fixed, ~m.fixed,
         waypoints \in Seq(Pose), Replan(r, m, temporary')
  PROVE  \E n : Turns(r, n)
<1>1. PICK start \in Pose :
        \/ \E p \in Plans(temporary', start, m.target, FALSE) : GoOn(r, m, p, 1)
        \/ Become(r, [m EXCEPT !.pc = "replanwait", !.path = <<start>>, !.pos = 0])
  BY DEF Replan
<1>2. ASSUME NEW p \in Plans(temporary', start, m.target, FALSE), GoOn(r, m, p, 1)
      PROVE  \E n : Turns(r, n)
  <2>1. m.target \in Pose
    BY DEF Mission
  <2>2. p \in Seq(Pose) /\ 1 \in 1 .. Len(p) /\ p[Len(p)] = m.target
        /\ OpenFrom(p, 1, OpenEdges(Graph, temporary', m.fixed))
    <3>1. p \in Plans(temporary', start, m.target, m.fixed) /\ m.fixed \in BOOLEAN
      <4>1. m.fixed = FALSE /\ m.fixed \in BOOLEAN
        BY DEF Mission
      <4> QED BY <1>2, <4>1
    <3>2. p \in Seq(Pose) /\ Len(p) >= 1 /\ p[Len(p)] = m.target
          /\ OpenFrom(p, 1, OpenEdges(Graph, temporary', m.fixed))
      BY <2>1, <3>1, PlanIsRoute
    <3>3. 1 \in 1 .. Len(p)
      BY <3>2
    <3> QED BY <3>2, <3>3
  <2> QED BY <1>2, <2>2, GoOnTurns
<1>3. CASE Become(r, [m EXCEPT !.pc = "replanwait", !.path = <<start>>, !.pos = 0])
  <2> DEFINE n == [m EXCEPT !.pc = "replanwait", !.path = <<start>>, !.pos = 0]
  <2>1. n \in Mission /\ n.pc = "replanwait" /\ n.path = <<start>> /\ n.pos = 0
        /\ n.fixed = m.fixed
    <3>1. "replanwait" \in Places /\ <<start>> \in Seq(Pose) /\ 0 \in Nat
      BY PlacesAre
    <3> QED BY <3>1 DEF Mission
  <2>2. WellFormed(n)
    BY <2>1 DEF WellFormed, Driving, Waiting
  <2> HIDE DEF n
  <2>3. Become(r, n)
    BY <1>3 DEF n
  <2>4. Turns(r, n)
    BY <2>1, <2>2, <2>3, StopTurns DEF Driving
  <2> QED BY <2>4
<1> QED BY <1>1, <1>2, <1>3

(* The rest of a route from a pose ahead, with the pose before it. *)
LEMMA TailRoute ==
  ASSUME NEW path \in Seq(Pose), NEW pos \in 1 .. Len(path), NEW p \in pos .. Len(path), p > 1
  PROVE  LET rest == SubSeq(path, p - 1, Len(path))
         IN  /\ rest \in Seq(Pose) /\ 2 \in 1 .. Len(rest)
             /\ rest[Len(rest)] = path[Len(path)]
<1> DEFINE rest == SubSeq(path, p - 1, Len(path))
<1>1. /\ rest \in Seq(Pose) /\ Len(rest) = Len(path) - p + 2
      /\ \A i \in 1 .. Len(rest) : rest[i] = path[p - 2 + i]
  OBVIOUS
<1> HIDE DEF rest
<1>2. 2 \in 1 .. Len(rest) /\ Len(rest) \in 1 .. Len(rest) /\ p - 2 + Len(rest) = Len(path)
  BY <1>1
<1> QED BY <1>1, <1>2 DEF rest

LEMMA RestOfRoute ==
  ASSUME NEW path \in Seq(Pose), NEW pos \in 1 .. Len(path), NEW p \in pos .. Len(path), p > 1,
         NEW edges, OpenFrom(path, pos, edges)
  PROVE  LET rest == SubSeq(path, p - 1, Len(path))
         IN  /\ rest \in Seq(Pose) /\ 2 \in 1 .. Len(rest)
             /\ rest[Len(rest)] = path[Len(path)]
             /\ OpenFrom(rest, 2, edges)
<1> DEFINE rest == SubSeq(path, p - 1, Len(path))
<1>1. /\ rest \in Seq(Pose) /\ Len(rest) = Len(path) - p + 2
      /\ \A i \in 1 .. Len(rest) : rest[i] = path[p - 2 + i]
  OBVIOUS
<1> HIDE DEF rest
<1>2. 2 \in 1 .. Len(rest) /\ rest[Len(rest)] = path[Len(path)]
  BY <1>1
<1>3. ASSUME NEW i \in Max2(2, 2) .. Len(rest)
      PROVE  Between(edges, rest[i - 1], rest[i]) # {}
  <2>1. i \in 2 .. Len(rest)
    BY DEF Max2
  <2>2. rest[i - 1] = path[(p - 2 + i) - 1] /\ rest[i] = path[p - 2 + i]
    BY <1>1, <2>1
  <2>3. p - 2 + i \in Max2(pos, 2) .. Len(path)
    BY <1>1, <2>1 DEF Max2
  <2> QED BY <2>2, <2>3 DEF OpenFrom
<1>4. OpenFrom(rest, 2, edges)
  BY <1>3 DEF OpenFrom
<1> QED BY <1>1, <1>2, <1>4 DEF rest

LEMMA ReenterTurns ==
  ASSUME NEW r \in Runners, mission[r].pc \in Driving,
         NEW m \in Mission, m.path = mission[r].path, m.pos = mission[r].pos,
         m.fixed = mission[r].fixed, ~m.fixed,
         m.pos \in 1 .. Len(m.path), m.path[Len(m.path)] = m.target,
         waypoints \in Seq(Pose), temporary' = temporary,
         NEW passed \in BOOLEAN, Reenter(r, m, passed)
  PROVE  \E n : Turns(r, n)
<1>1. CASE Replan(r, m, temporary)
  <2>1. Replan(r, m, temporary')
    BY <1>1
  <2> QED BY <2>1, ReplanTurns
<1>2. ASSUME NEW p \in ReentryPositions(m, passed),
             IF p > 1 THEN GoOn(r, m, SubSeq(m.path, p - 1, Len(m.path)), 2)
                      ELSE GoOn(r, m, m.path, 1)
      PROVE  \E n : Turns(r, n)
  <2> DEFINE edges == OpenEdges(Graph, temporary', m.fixed)
  <2>1. m.path \in Seq(Pose)
    BY DEF Mission
  <2>2. p \in m.pos .. Len(m.path)
    BY <2>1 DEF ReentryPositions
  <2>3. IsOpen(mission[r], temporary) => OpenFrom(m.path, m.pos, edges)
    BY DEF IsOpen
  <2> HIDE DEF edges
  <2>4. CASE p > 1
    <3> DEFINE rest == SubSeq(m.path, p - 1, Len(m.path))
    <3>1. /\ rest \in Seq(Pose) /\ 2 \in 1 .. Len(rest)
          /\ rest[Len(rest)] = m.path[Len(m.path)]
      BY <2>1, <2>2, <2>4, TailRoute
    <3>2. IsOpen(mission[r], temporary) => OpenFrom(rest, 2, edges)
      BY <2>1, <2>2, <2>3, <2>4, RestOfRoute
    <3>3. GoOn(r, m, rest, 2)
      BY <1>2, <2>4
    <3> HIDE DEF rest
    <3> QED BY <3>1, <3>2, <3>3, GoOnTurns DEF edges
  <2>5. CASE ~(p > 1)
    <3>1. p = 1 /\ m.pos = 1
      BY <2>1, <2>2, <2>5
    <3>2. GoOn(r, m, m.path, 1)
      BY <1>2, <2>5
    <3> QED BY <2>1, <2>3, <3>1, <3>2, GoOnTurns DEF edges
  <2> QED BY <2>4, <2>5
<1> QED BY <1>1, <1>2 DEF Reenter

(* The pose is reached. *)
LEMMA AdvanceTurns ==
  ASSUME NEW r \in Runners, mission[r] \in Mission, WellFormed(mission[r]),
         mission[r].pc \in Driving, waypoints \in Seq(Pose), finished \in BOOLEAN,
         temporary' \subseteq temporary, Advance(r)
  PROVE  /\ finished' \in BOOLEAN
         /\ \E n : Turns(r, n) /\ KeepsFixed(r, n)
<1> DEFINE m == mission[r]
<1>1. m \in Mission /\ m.path \in Seq(Pose) /\ m.pos \in 1 .. Len(m.path)
      /\ m.path[Len(m.path)] = m.target
  <2>1. m \in Mission /\ m.pos \in 0 .. Len(m.path) /\ m.pos >= 1
        /\ m.path[Len(m.path)] = m.target
    BY DEF WellFormed
  <2>2. m.path \in Seq(Pose)
    BY <2>1 DEF Mission
  <2> HIDE DEF m
  <2> QED BY <2>1, <2>2
<1>2. CASE m.path[m.pos] = m.target
  <2> DEFINE n == [m EXCEPT !.pc = "finish", !.ok = TRUE]
  <2>1. Become(r, n) /\ finished' \in BOOLEAN
    BY <1>2 DEF Advance
  <2>2. n \in Mission /\ n.pc = "finish" /\ n.fixed = m.fixed /\ n.pos = m.pos
        /\ n.path = m.path
    <3>1. "finish" \in Places
      BY PlacesAre
    <3> QED BY <1>1, <3>1 DEF Mission
  <2> HIDE DEF n
  <2>3. WellFormed(n)
    BY <1>1, <2>2 DEF WellFormed, Driving, Waiting
  <2> QED BY <2>1, <2>2, <2>3, StopTurns DEF Driving
<1>3. CASE m.path[m.pos] # m.target
  <2> DEFINE n == [m EXCEPT !.pc = "send", !.pos = @ + 1]
  <2>1. Become(r, n) /\ finished' \in BOOLEAN
    BY <1>3 DEF Advance
  <2>2. n \in Mission /\ n.pc = "send" /\ n.fixed = m.fixed /\ n.pos = m.pos + 1
        /\ n.path = m.path /\ n.target = m.target
    <3>1. "send" \in Places /\ m.pos + 1 \in Nat
      BY <1>1, PlacesAre
    <3> QED BY <1>1, <3>1 DEF Mission
  <2> HIDE DEF n
  <2>3. m.pos # Len(m.path)
    BY <1>1, <1>3
  <2>4. n.pos \in 1 .. Len(n.path)
    BY <1>1, <2>2, <2>3
  <2>5. WellFormed(n)
    BY <1>1, <2>2, <2>4 DEF WellFormed, Driving, Waiting
  <2>6. IsOpen(m, temporary) => IsOpen(n, temporary')
    <3>1. OpenEdges(Graph, temporary, m.fixed) \subseteq OpenEdges(Graph, temporary', m.fixed)
      BY FewerBlocksOpen
    <3> SUFFICES ASSUME OpenFrom(m.path, m.pos, OpenEdges(Graph, temporary, m.fixed))
                 PROVE  OpenFrom(m.path, m.pos + 1, OpenEdges(Graph, temporary', m.fixed))
      BY <2>2 DEF IsOpen
    <3>2. m.pos \in Nat /\ m.pos + 1 \in Nat /\ m.pos + 1 >= m.pos
      BY <1>1
    <3> QED BY <1>1, <3>1, <3>2, OpenGoesOn
  <2>7. Turns(r, n)
    BY <1>1, <2>1, <2>2, <2>5, <2>6 DEF Turns, Become, Watching
  <2>8. KeepsFixed(r, n)
    BY <2>2 DEF KeepsFixed
  <2> QED BY <2>1, <2>7, <2>8
<1> QED BY <1>2, <1>3

LEMMA AgainIs ==
  ASSUME NEW m \in Mission
  PROVE  /\ Again(m) \in Mission
         /\ Again(m).path = m.path /\ Again(m).pos = m.pos
         /\ Again(m).target = m.target /\ Again(m).fixed = m.fixed
<1>1. m.replans + 1 \in Nat
  <2>1. m.replans \in Nat
    BY DEF Mission
  <2> QED BY <2>1
<1>2. Again(m) = [m EXCEPT !.replans = m.replans + 1]
  BY DEF Again
<1> DEFINE k == m.replans + 1
<1>3. Again(m) = [m EXCEPT !.replans = k] /\ k \in Nat
  BY <1>1, <1>2
<1> HIDE DEF k
<1>4. [m EXCEPT !.replans = k] \in Mission
  BY <1>3 DEF Mission
<1>5. /\ [m EXCEPT !.replans = k].path = m.path /\ [m EXCEPT !.replans = k].pos = m.pos
      /\ [m EXCEPT !.replans = k].target = m.target
      /\ [m EXCEPT !.replans = k].fixed = m.fixed
  BY <1>3 DEF Mission
<1> QED BY <1>3, <1>4, <1>5

LEMMA BlocksAreEdges ==
  ASSUME temporary \subseteq Graph, NEW from, NEW to
  PROVE  /\ BlockEdge(from, to) \subseteq Graph
         /\ MarkEdgeSuccess(from, to) \subseteq temporary
BY DEF BlockEdge, MarkEdgeSuccess, EdgesOf, Between

(* Whatever sendGoalAndMonitor returns: a driving mission becomes one that *)
(* drives, waits for a way or ends, and its rest stays open.               *)
LEMMA ReturnTurns ==
  ASSUME NEW r \in Runners, WellFormed(mission[r]), mission[r].pc \in Driving,
         waypoints \in Seq(Pose), finished \in BOOLEAN, temporary \subseteq Graph,
         NEW result, Return(r, result)
  PROVE  /\ finished' \in BOOLEAN /\ temporary' \subseteq Graph
         /\ \E n : Turns(r, n) /\ KeepsFixed(r, n)
<1> DEFINE m == mission[r]
<1>1. m \in Mission /\ m.pos \in 0 .. Len(m.path) /\ m.pos >= 1
      /\ m.path[Len(m.path)] = m.target
  BY DEF WellFormed
<1>2. m.path \in Seq(Pose) /\ m.fixed \in BOOLEAN
  BY <1>1 DEF Mission
<1>3. m.pos \in 1 .. Len(m.path)
  <2> HIDE DEF m
  <2> QED BY <1>1, <1>2
<1>4. WellFormed(Failed(m)) /\ Failed(m).pc = "finish" /\ Failed(m).fixed = m.fixed
  BY <1>1, FailedIsWellFormed
<1>5. CASE temporary' = temporary /\ finished' = finished /\ Become(r, Failed(m))
  BY <1>4, <1>5, StopTurns DEF Driving
<1>6. CASE temporary' \subseteq temporary /\ Advance(r)
  BY <1>1, <1>6, AdvanceTurns
<1>7. CASE m.fixed
  <2>1. ReturnFixed(r, result)
    BY <1>7 DEF Return
  <2>2. CASE /\ temporary' = temporary /\ finished' = finished
             /\ Become(r, [m EXCEPT !.pc = "send"])
    <3> DEFINE n == [m EXCEPT !.pc = "send"]
    <3>1. n \in Mission /\ n.pc = "send" /\ n.fixed = m.fixed /\ n.pos = m.pos
          /\ n.path = m.path /\ n.target = m.target
      <4>1. "send" \in Places
        BY PlacesAre
      <4> QED BY <1>1, <4>1 DEF Mission
    <3>2. Become(r, n)
      BY <2>2
    <3> HIDE DEF n
    <3>3. WellFormed(n)
      BY <1>1, <3>1 DEF WellFormed, Driving, Waiting
    <3>4. IsOpen(m, temporary) => IsOpen(n, temporary')
      BY <2>2, <3>1 DEF IsOpen
    <3>5. Turns(r, n) /\ KeepsFixed(r, n)
      BY <3>1, <3>2, <3>3, <3>4 DEF Turns, KeepsFixed, Become, Watching
    <3> QED BY <2>2, <3>5
  <2> QED BY <1>5, <1>6, <2>1, <2>2 DEF ReturnFixed
<1>8. CASE ~m.fixed
  <2>1. ReturnReplanning(r, result)
    BY <1>8 DEF Return
  <2> DEFINE again == Again(m)
  <2>2. /\ again \in Mission /\ again.path = m.path /\ again.pos = m.pos
        /\ again.target = m.target /\ again.fixed = m.fixed /\ ~again.fixed
    BY <1>1, <1>8, AgainIs
  <2>3. \A n : KeepsFixed(r, n)
    BY <1>8 DEF KeepsFixed
  <2>4. CASE /\ result = "REACHED" /\ Advance(r)
             /\ temporary' = IF m.pos > 1
                             THEN MarkEdgeSuccess(m.path[m.pos - 1], m.path[m.pos])
                             ELSE temporary
    BY <1>6, <2>4, BlocksAreEdges
  <2>5. CASE temporary' = temporary /\ finished' = finished
             /\ Reenter(r, again, result = "PAUSED_AFTER_PASS")
    <3>1. (result = "PAUSED_AFTER_PASS") \in BOOLEAN
      OBVIOUS
    <3>2. PICK passed \in BOOLEAN : Reenter(r, again, passed)
      BY <2>5, <3>1
    <3>3. again.pos \in 1 .. Len(again.path) /\ again.path[Len(again.path)] = again.target
      BY <1>1, <1>3, <2>2
    <3> HIDE DEF again
    <3>4. \E n : Turns(r, n)
      BY <2>2, <2>5, <3>2, <3>3, ReenterTurns
    <3> QED BY <2>3, <2>5, <3>4
  <2>6. CASE /\ finished' = finished
             /\ LET blocked == IF m.pos > 1
                               THEN BlockEdge(m.path[m.pos - 1], m.path[m.pos])
                               ELSE temporary
                IN  temporary' = blocked /\ Replan(r, again, blocked)
    <3>1. temporary' \subseteq Graph
      BY <2>6, BlocksAreEdges
    <3>2. Replan(r, again, temporary')
      BY <2>6
    <3> HIDE DEF again
    <3>3. \E n : Turns(r, n)
      BY <2>2, <3>2, ReplanTurns
    <3> QED BY <2>3, <2>6, <3>1, <3>3
  <2> QED BY <1>5, <2>1, <2>4, <2>5, <2>6 DEF ReturnReplanning
<1> QED BY <1>2, <1>7, <1>8
-----------------------------------------------------------------------------
(* The part of TypeOK that is not about the missions and their routes. *)
Goals == [node : Pose \cup {NoPose},
          state : {"none", "active", "succeeded", "aborted", "preempted"}]
FlagsOK ==
  /\ cancel_requested \in BOOLEAN /\ pause_robot \in BOOLEAN
  /\ pause_reentry_requested \in BOOLEAN /\ finished \in BOOLEAN
  /\ joyPc \in {"", "paused", "reentry", "canceled", "unpaused", "cleared"}
  /\ joyThread \in {"none", "created", "aborted"}
  /\ requests \in 0 .. MaxRequests
RestOK ==
  /\ FlagsOK
  /\ goal \in Goals /\ tracked \in Pose \cup {NoPose}
  /\ {sent, report} \subseteq Report \cup {NoReport}

LEMMA TypeParts ==
  /\ TypeOK <=> /\ RestOK
                /\ mission \in [Runners -> Mission]
                /\ \A r \in Runners : mission[r].pos \in 0 .. Len(mission[r].path)
                /\ temporary \subseteq Graph /\ waypoints \in Seq(Pose)
  /\ TypeOK' <=> /\ RestOK'
                 /\ mission' \in [Runners -> Mission]
                 /\ \A r \in Runners : mission'[r].pos \in 0 .. Len(mission'[r].path)
                 /\ temporary' \subseteq Graph /\ waypoints' \in Seq(Pose)
BY DEF TypeOK, RestOK, FlagsOK, Goals

(* What every step does with the fixed routes. *)
Kept ==
  \A r \in Runners :
    mission[r].fixed /\ mission[r].pc \in Driving /\ mission'[r].pc \in Driving =>
      /\ mission'[r].path = mission[r].path
      /\ mission'[r].pos \in {mission[r].pos, mission[r].pos + 1}

(* A step that turns a mission. *)
LEMMA TurnPreserves ==
  ASSUME IInv, NEW r \in Runners, NEW n, Turns(r, n), KeepsFixed(r, n),
         temporary' \subseteq Graph, RestOK'
  PROVE  IInv' /\ Kept
<1>1. TypeOK /\ Shape /\ mission \in [Runners -> Mission]
  BY TypeParts DEF IInv
<1>2. /\ mission' = [mission EXCEPT ![r] = n] /\ WellFormed(n) /\ n \in Mission
      /\ n.pos \in 0 .. Len(n.path) /\ waypoints' \in Seq(Pose)
  BY DEF Turns, WellFormed
<1>3. mission'[r] = n /\ \A s \in Runners : s # r => mission'[s] = mission[s]
  BY <1>1, <1>2
<1>4. TypeOK'
  <2>1. mission' \in [Runners -> Mission]
    BY <1>1, <1>2
  <2>2. \A s \in Runners : mission'[s].pos \in 0 .. Len(mission'[s].path)
    BY <1>1, <1>2, <1>3, TypeParts
  <2> QED BY <1>2, <2>1, <2>2, TypeParts
<1>5. Shape'
  <2>1. ASSUME NEW s \in Runners PROVE WellFormed(mission'[s])
    BY <1>1, <1>2, <1>3 DEF Shape
  <2>2. "joy" \in Runners => ~mission'["joy"].fixed
    BY <1>1, <1>3 DEF Shape, Turns
  <2> QED BY <2>1, <2>2 DEF Shape
<1>6. ASSUME Runners = {"service"} PROVE RouteInv'
  <2>1. r = "service" /\ mission'["service"] = n
    BY <1>3, <1>6
  <2>2. IsOpen(mission[r], temporary) /\ OnRoute(mission[r])
    BY <1>6, <2>1 DEF IInv, RouteInv
  <2>3. IsOpen(mission'["service"], temporary')
    BY <2>1, <2>2 DEF Turns
  <2>4. n.pc \in Driving => waypoints' = n.path
    BY <2>2 DEF Turns, OnRoute, Driving, Watching
  <2>5. n.pc \notin Watching
    BY DEF Turns
  <2> QED BY <2>1, <2>3, <2>4, <2>5 DEF RouteInv, OnRoute
<1>7. Kept
  <2> SUFFICES ASSUME NEW s \in Runners, mission[s].fixed, mission[s].pc \in Driving,
                      mission'[s].pc \in Driving
               PROVE  /\ mission'[s].path = mission[s].path
                      /\ mission'[s].pos \in {mission[s].pos, mission[s].pos + 1}
    BY DEF Kept
  <2>1. CASE s # r
    BY <1>3, <2>1
  <2>2. CASE s = r
    <3>1. n.pc = "send"
      BY <1>3, <2>2 DEF Turns, Driving, Watching
    <3> QED BY <1>3, <2>2, <3>1 DEF KeepsFixed
  <2> QED BY <2>1, <2>2
<1> QED BY <1>4, <1>5, <1>6, <1>7 DEF IInv

(* What sendGoalAndMonitor returns. *)
LEMMA ReturnPreserves ==
  ASSUME IInv, NEW r \in Runners, mission[r].pc \in Driving, NEW result, Return(r, result),
         goal' \in Goals, pause_reentry_requested' \in BOOLEAN
  PROVE  IInv' /\ Kept
<1>1. TypeOK /\ WellFormed(mission[r]) /\ RestOK
  BY TypeParts DEF IInv, Shape
<1>2. waypoints \in Seq(Pose) /\ finished \in BOOLEAN /\ temporary \subseteq Graph
  BY <1>1, TypeParts DEF RestOK, FlagsOK
<1>3. /\ finished' \in BOOLEAN /\ temporary' \subseteq Graph
      /\ \E n : Turns(r, n) /\ KeepsFixed(r, n)
  BY <1>1, <1>2, ReturnTurns
<1>4. RestOK'
  BY <1>1, <1>3 DEF Return, RestOK, FlagsOK, joy, planner
<1> QED BY <1>3, <1>4, TurnPreserves

(* A step of the monitoring loop. *)
LEMMA MovePreserves ==
  ASSUME IInv, NEW r \in Runners, mission[r].pc \in Driving, NEW place \in Watching,
         Move(r, place), goal' \in Goals, pause_reentry_requested' \in BOOLEAN,
         {sent', report'} \subseteq Report \cup {NoReport},
         \/ mission[r].pc \in Watching /\ sent' = sent /\ report' = report
         \/ ~sent'.fresh /\ ~report'.fresh
  PROVE  IInv' /\ Kept
<1>1. TypeOK /\ Shape /\ mission \in [Runners -> Mission]
      /\ WellFormed(mission[r]) /\ mission[r] \in Mission /\ RestOK
      /\ temporary \subseteq Graph /\ waypoints \in Seq(Pose)
  BY TypeParts DEF IInv, Shape
<1> DEFINE n == [mission[r] EXCEPT !.pc = place]
<1>2. /\ mission' = [mission EXCEPT ![r] = n]
      /\ waypoints' = waypoints /\ temporary' = temporary
  BY DEF Move
<1>3. /\ n \in Mission /\ n.pc = place /\ n.path = mission[r].path /\ n.pos = mission[r].pos
      /\ n.target = mission[r].target /\ n.fixed = mission[r].fixed
  <2>1. place \in Places
    BY PlacesAre DEF Watching
  <2> QED BY <1>1, <2>1 DEF Mission
<1> HIDE DEF n
<1>4. mission'[r] = n /\ \A s \in Runners : s # r => mission'[s] = mission[s]
  BY <1>1, <1>2
<1>5. WellFormed(n)
  BY <1>1, <1>3 DEF WellFormed, Waiting, Watching
<1>6. RestOK'
  BY <1>1 DEF RestOK, FlagsOK, Move, joy
<1>7. TypeOK'
  <2>1. mission' \in [Runners -> Mission]
    BY <1>1, <1>2, <1>3
  <2>2. \A s \in Runners : mission'[s].pos \in 0 .. Len(mission'[s].path)
    BY <1>1, <1>3, <1>4, TypeParts
  <2> QED BY <1>1, <1>2, <1>6, <2>1, <2>2, TypeParts
<1>8. Shape'
  BY <1>1, <1>3, <1>4, <1>5 DEF Shape
<1>9. ASSUME Runners = {"service"} PROVE RouteInv'
  <2>1. r = "service" /\ mission'["service"] = n
    BY <1>4, <1>9
  <2>2. IsOpen(mission[r], temporary) /\ OnRoute(mission[r])
    BY <1>9, <2>1 DEF IInv, RouteInv
  <2>3. IsOpen(mission'["service"], temporary')
    BY <1>2, <1>3, <2>1, <2>2 DEF IsOpen
  <2>4. waypoints' = n.path
    BY <1>2, <1>3, <2>2 DEF OnRoute
  <2>5. AboutWaypoints(sent)' /\ AboutWaypoints(report)'
    BY <1>2, <2>2 DEF AboutWaypoints, OnRoute
  <2> QED BY <2>1, <2>3, <2>4, <2>5 DEF RouteInv, OnRoute
<1>10. Kept
  BY <1>3, <1>4 DEF Kept
<1> QED BY <1>7, <1>8, <1>9, <1>10 DEF IInv

(* A step that leaves the missions and the waypoints. *)
LEMMA OthersPreserve ==
  ASSUME IInv, mission' = mission, waypoints' = waypoints, temporary' \subseteq temporary,
         RestOK',
         AboutWaypoints(sent) /\ AboutWaypoints(report)
           => AboutWaypoints(sent)' /\ AboutWaypoints(report)'
  PROVE  IInv' /\ Kept
<1>1. TypeOK' /\ Shape' /\ Kept
  BY TypeParts DEF IInv, Shape, Kept
<1>2. ASSUME Runners = {"service"} PROVE RouteInv'
  <2> DEFINE m == mission["service"]
  <2>1. IsOpen(m, temporary) /\ OnRoute(m)
    BY <1>2 DEF IInv, RouteInv
  <2>2. IsOpen(m, temporary')
    <3>1. SUFFICES ASSUME m.pc \in Driving
                   PROVE  OpenFrom(m.path, m.pos, OpenEdges(Graph, temporary', m.fixed))
      BY DEF IsOpen
    <3>2. m \in Mission /\ m.pos \in 0 .. Len(m.path)
      BY <1>2, TypeParts DEF IInv
    <3>3. m.path \in Seq(Pose) /\ m.pos \in Nat
      BY <3>2 DEF Mission
    <3>4. OpenEdges(Graph, temporary, m.fixed) \subseteq OpenEdges(Graph, temporary', m.fixed)
      BY FewerBlocksOpen
    <3>5. m.pos >= m.pos
      BY <3>3
    <3> HIDE DEF m
    <3> QED BY <2>1, <3>1, <3>3, <3>4, <3>5, OpenGoesOn DEF IsOpen
  <2>3. OnRoute(m)'
    BY <2>1 DEF OnRoute
  <2> QED BY <2>2, <2>3 DEF RouteInv
<1> QED BY <1>1, <1>2 DEF IInv
-----------------------------------------------------------------------------
LEMMA CancelGoalIsGoal ==
  ASSUME goal \in Goals, CancelGoal
  PROVE  goal' \in Goals
BY DEF CancelGoal, Goals

LEMMA Parts ==
  ASSUME IInv
  PROVE  /\ RestOK /\ FlagsOK /\ goal \in Goals /\ waypoints \in Seq(Pose)
         /\ temporary \subseteq Graph /\ mission \in [Runners -> Mission]
         /\ {sent, report} \subseteq Report \cup {NoReport}
         /\ \A r \in Runners : WellFormed(mission[r])
BY TypeParts DEF IInv, Shape, RestOK

LEMMA IdleIs ==
  /\ Idle \in Mission /\ Idle.pc = "idle" /\ Idle.path = <<>> /\ Idle.pos = 0
  /\ ~Idle.fixed
<1>1. "idle" \in Places /\ <<>> \in Seq(Pose) /\ 0 \in Nat /\ 0 \in Pose
  BY PlacesAre, PosesAssumption DEF Pose
<1> QED BY <1>1 DEF Idle, Mission

(* A mission that is idle, or has just become so. *)
LEMMA IdleIsWellFormed ==
  ASSUME NEW n \in Mission, n.pc = "idle", n.path = <<>>, n.pos = 0
  PROVE  WellFormed(n)
BY DEF WellFormed, Driving, Waiting

(* planPathCallback up to the start of the mission. *)
LEMMA RequestPreserves ==
  ASSUME IInv, NEW start \in Pose, NEW target \in Pose, NEW fixed \in FixedRoutes,
         Request(start, target, fixed)
  PROVE  IInv' /\ Kept
<1> DEFINE m == [Idle EXCEPT !.target = target, !.fixed = fixed, !.outcome = "running"]
<1>1. /\ "service" \in Runners /\ mission["service"].pc = "idle"
      /\ temporary' = temporary /\ fixed \in BOOLEAN
  BY NavAssumption DEF Request, At
<1>2. RestOK'
  <2>1. requests' \in 0 .. MaxRequests
    <3>1. requests \in 0 .. MaxRequests /\ MaxRequests \in Nat
      BY Parts, NavAssumption DEF FlagsOK
    <3>2. requests < MaxRequests /\ requests' = requests + 1
      BY DEF Request
    <3> QED BY <3>1, <3>2
  <2> QED BY <2>1, Parts DEF Request, RestOK, FlagsOK, joy, planner
<1>3. /\ m \in Mission /\ m.pc = "idle" /\ m.path = <<>> /\ m.pos = 0
      /\ m.target = target /\ m.fixed = fixed
  BY <1>1, IdleIs DEF Mission
<1> HIDE DEF m
<1>4. SUFFICES \E n : Turns("service", n)
  <2>1. \A n : KeepsFixed("service", n)
    BY <1>1 DEF KeepsFixed, Driving
  <2> QED BY <1>1, <1>2, <2>1, Parts, TurnPreserves
<1>5. CASE \E n : /\ Become("service", n) /\ n.pc \in {"idle", "planwait"} /\ WellFormed(n)
  BY <1>1, <1>5, Parts, StopTurns DEF Driving
<1>6. CASE Become("service", [m EXCEPT !.outcome = "canceled"])
  <2> DEFINE n == [m EXCEPT !.outcome = "canceled"]
  <2>1. n \in Mission /\ n.pc = "idle" /\ n.pos = 0 /\ n.path = <<>>
    BY <1>3 DEF Mission
  <2> HIDE DEF n
  <2> QED BY <1>5, <1>6, <2>1, IdleIsWellFormed DEF n
<1>7. CASE Become("service", [m EXCEPT !.outcome = "failed"])
  <2> DEFINE n == [m EXCEPT !.outcome = "failed"]
  <2>1. n \in Mission /\ n.pc = "idle" /\ n.pos = 0 /\ n.path = <<>>
    BY <1>3 DEF Mission
  <2> HIDE DEF n
  <2> QED BY <1>5, <1>7, <2>1, IdleIsWellFormed DEF n
<1>8. CASE ~fixed /\ Become("service", [m EXCEPT !.pc = "planwait", !.path = <<start>>])
  <2> DEFINE n == [m EXCEPT !.pc = "planwait", !.path = <<start>>]
  <2>1. n \in Mission /\ n.pc = "planwait" /\ n.pos = 0 /\ n.path = <<start>> /\ n.fixed = fixed
    <3>1. "planwait" \in Places /\ <<start>> \in Seq(Pose)
      BY PlacesAre
    <3> QED BY <1>3, <3>1 DEF Mission
  <2> HIDE DEF n
  <2>2. WellFormed(n)
    BY <1>8, <2>1 DEF WellFormed, Driving, Waiting
  <2> QED BY <1>5, <1>8, <2>1, <2>2 DEF n
<1>9. ASSUME NEW p \in Plans(temporary, start, target, fixed), Drive("service", m, p, 1)
      PROVE  \E n : Turns("service", n)
  <2> DEFINE n == [m EXCEPT !.pc = "send", !.path = p, !.pos = 1]
  <2>1. /\ p \in Seq(Pose) /\ Len(p) >= 1 /\ p[Len(p)] = target
        /\ OpenFrom(p, 1, OpenEdges(Graph, temporary, fixed))
    BY <1>1, PlanIsRoute
  <2>2. mission' = [mission EXCEPT !["service"] = n] /\ waypoints' = p
    BY <1>9 DEF Drive
  <2>4. n \in Mission /\ n.pc = "send" /\ n.pos = 1 /\ n.path = p /\ n.fixed = fixed
        /\ n.target = target
    <3>1. "send" \in Places /\ 1 \in Nat
      BY PlacesAre
    <3> QED BY <1>3, <2>1, <3>1 DEF Mission
  <2> HIDE DEF n
  <2>5. WellFormed(n)
    <3>1. n.pos \in 0 .. Len(n.path)
      BY <2>1, <2>4
    <3> QED BY <2>1, <2>4, <3>1 DEF WellFormed, Waiting
  <2>6. IsOpen(n, temporary')
    BY <1>1, <2>1, <2>4 DEF IsOpen
  <2>7. Turns("service", n)
    BY <2>1, <2>2, <2>4, <2>5, <2>6 DEF Turns, Watching
  <2> QED BY <2>7
<1> QED BY <1>6, <1>7, <1>8, <1>9 DEF Request, m

(* waitForTemporaryPath *)
LEMMA WaitEndsPreserves ==
  ASSUME IInv, NEW r \in Runners, WaitEnds(r)
  PROVE  IInv' /\ Kept
<1> DEFINE m == mission[r]
<1>1. m.pc \in Waiting /\ temporary' = temporary
  BY DEF WaitEnds, Waiting
<1>2. m \in Mission /\ m.pos \in 0 .. Len(m.path) /\ Len(m.path) = 1 /\ ~m.fixed
  BY <1>1, Parts DEF WellFormed
<1>3. m.path[1] \in Pose /\ m.target \in Pose /\ m.fixed \in BOOLEAN
  <2>1. m.path \in Seq(Pose) /\ m.target \in Pose /\ m.fixed \in BOOLEAN
    BY <1>2 DEF Mission
  <2> HIDE DEF m
  <2> QED BY <1>2, <2>1
<1>4. RestOK' /\ temporary' \subseteq Graph
  BY Parts DEF WaitEnds, RestOK, FlagsOK, nav, joy, planner
<1>5. SUFFICES \E n : Turns(r, n)
  <2>1. \A n : KeepsFixed(r, n)
    BY <1>2 DEF KeepsFixed
  <2> QED BY <1>4, <2>1, TurnPreserves
<1>6. ASSUME NEW p \in Plans(temporary, m.path[1], m.target, FALSE), GoOn(r, m, p, 1)
      PROVE  \E n : Turns(r, n)
  <2>1. p \in Plans(temporary, m.path[1], m.target, m.fixed)
    <3>1. m.fixed = FALSE
      BY <1>2, <1>3
    <3> QED BY <1>6, <3>1
  <2>2. p \in Seq(Pose) /\ Len(p) >= 1 /\ p[Len(p)] = m.target
        /\ OpenFrom(p, 1, OpenEdges(Graph, temporary, m.fixed))
    BY <1>3, <2>1, PlanIsRoute
  <2>3. 1 \in 1 .. Len(p)
    BY <2>2
  <2> QED BY <1>1, <1>2, <1>6, <2>2, <2>3, GoOnTurns
<1>7. CASE Become(r, Failed(m))
  <2>1. WellFormed(Failed(m)) /\ Failed(m).pc = "finish" /\ Failed(m).fixed = m.fixed
    BY <1>2, FailedIsWellFormed
  <2> QED BY <1>7, <2>1, Parts, StopTurns DEF Driving
<1>8. CASE Become(r, [Idle EXCEPT !.outcome = "failed"])
  <2> DEFINE n == [Idle EXCEPT !.outcome = "failed"]
  <2>1. n \in Mission /\ n.pc = "idle" /\ n.pos = 0 /\ n.path = <<>> /\ ~n.fixed
    BY IdleIs DEF Mission
  <2> HIDE DEF n
  <2>2. WellFormed(n)
    BY <2>1, IdleIsWellFormed
  <2> QED BY <1>8, <2>1, <2>2, Parts, StopTurns DEF n, Driving
<1> QED BY <1>6, <1>7, <1>8 DEF WaitEnds

-----------------------------------------------------------------------------
(* sendGoalAndMonitor *)
LEMMA NewGoalIsGoal ==
  ASSUME IInv, NEW r \in Runners, mission[r].pc \in Driving, NewGoal(r)
  PROVE  goal' \in Goals
<1>1. mission[r] \in Mission /\ mission[r].pos \in 0 .. Len(mission[r].path)
      /\ mission[r].pos >= 1
  BY Parts DEF WellFormed
<1>2. mission[r].path \in Seq(Pose)
  BY <1>1 DEF Mission
<1>3. mission[r].path[mission[r].pos] \in Pose
  BY <1>1, <1>2
<1> QED BY <1>3 DEF NewGoal, Goals

LEMMA SendGoalPreserves ==
  ASSUME IInv, NEW r \in Runners, SendGoal(r)
  PROVE  IInv' /\ Kept
<1>1. mission[r].pc \in Driving /\ Move(r, "top") /\ NewGoal(r)
      /\ pause_reentry_requested' = pause_reentry_requested
  BY DEF SendGoal, At, Driving
<1>2. report' = NoReport /\ ~report'.fresh
  BY DEF SendGoal, NoReport
<1>3. sent' \in Report \cup {NoReport} /\ ~sent'.fresh
  <2>1. CASE sent = NoReport
    BY <2>1 DEF SendGoal, NoReport
  <2>2. CASE sent # NoReport
    <3>1. sent \in Report
      BY <2>2, Parts
    <3>2. sent' = [sent EXCEPT !.fresh = FALSE]
      BY <2>2 DEF SendGoal
    <3> QED BY <3>1, <3>2 DEF Report
  <2> QED BY <2>1, <2>2
<1>4. "top" \in Watching /\ goal' \in Goals /\ pause_reentry_requested' \in BOOLEAN
  BY <1>1, NewGoalIsGoal, Parts DEF Watching, FlagsOK
<1> QED BY <1>1, <1>2, <1>3, <1>4, MovePreserves

(* A move within the loop. *)
LEMMA LoopPreserves ==
  ASSUME IInv, NEW r \in Runners, mission[r].pc \in Watching, NEW place \in Watching,
         Move(r, place), goal' \in Goals, pause_reentry_requested' = pause_reentry_requested,
         sent' = sent, report' = report
  PROVE  IInv' /\ Kept
BY Parts, MovePreserves DEF FlagsOK, Driving, Watching

LEMMA MonitorPreserves ==
  ASSUME IInv, NEW r \in Runners, Monitor(r)
  PROVE  IInv' /\ Kept
<1>1. mission[r].pc \in Watching /\ mission[r].pc \in Driving
  BY DEF Monitor, Check, Paused, Resumed, ExplainResult, Succeeded, NotSucceeded,
         FailingEnds, PassedByReport, Near, GiveUp, KeepWaiting, At, Watching, Driving
<1>2. goal \in Goals /\ pause_reentry_requested \in BOOLEAN
      /\ (CancelGoal => goal' \in Goals)
  BY Parts, CancelGoalIsGoal DEF FlagsOK
<1>3. {"top", "wait", "paused", "resumed", "failing"} \subseteq Watching
  BY DEF Watching
<1>4. ASSUME NEW result, Return(r, result), CancelGoal \/ goal' = goal,
             pause_reentry_requested' \in BOOLEAN
      PROVE  IInv' /\ Kept
  BY <1>1, <1>2, <1>4, ReturnPreserves
<1>5. ASSUME NEW place \in Watching, Move(r, place), Stay
      PROVE  IInv' /\ Kept
  BY <1>1, <1>2, <1>5, LoopPreserves DEF Stay
<1>6. CASE Canceled(r) \/ Deviated(r)
  BY <1>2, <1>4, <1>6 DEF Canceled, Deviated
<1>7. CASE Check(r)
  <2>1. CASE CancelGoal /\ Move(r, "paused")
             /\ UNCHANGED <<pause_reentry_requested, sent, report>>
    BY <1>1, <1>2, <1>3, <2>1, LoopPreserves
  <2> QED BY <1>3, <1>5, <1>6, <1>7, <2>1 DEF Check
<1>8. CASE Paused(r)
  BY <1>3, <1>5, <1>6, <1>8 DEF Paused
<1>9. CASE Resumed(r)
  BY <1>4, <1>9 DEF Resumed
<1>10. CASE ExplainResult(r)
  BY <1>3, <1>5, <1>6, <1>10 DEF ExplainResult
<1>11. CASE Succeeded(r)
  <2>1. CASE Return(r, "REACHED") /\ UNCHANGED goal
    BY <1>2, <1>4, <1>11, <2>1 DEF Succeeded
  <2>2. CASE NewGoal(r) /\ Move(r, "top") /\ UNCHANGED <<sent, report>>
    <3>1. pause_reentry_requested' = pause_reentry_requested
      BY <1>11 DEF Succeeded
    <3> QED BY <1>1, <1>3, <2>2, <3>1, NewGoalIsGoal, LoopPreserves
  <2> QED BY <1>11, <2>1, <2>2 DEF Succeeded
<1>12. CASE NotSucceeded(r)
  BY <1>3, <1>5, <1>12 DEF NotSucceeded
<1>13. CASE FailingEnds(r)
  BY <1>2, <1>4, <1>13 DEF FailingEnds
<1>14. CASE PassedByReport(r)
  BY <1>2, <1>4, <1>14 DEF PassedByReport
<1>15. CASE Near(r)
  BY <1>2, <1>4, <1>15 DEF Near
<1>16. CASE GiveUp(r)
  BY <1>2, <1>4, <1>16 DEF GiveUp
<1>17. CASE KeepWaiting(r)
  BY <1>3, <1>5, <1>17 DEF KeepWaiting
<1> QED BY <1>7, <1>8, <1>9, <1>10, <1>11, <1>12, <1>13, <1>14, <1>15, <1>16, <1>17
        DEF Monitor

(* The end of a mission. *)
LEMMA FinishPreserves ==
  ASSUME IInv, NEW r \in Runners, Finish(r)
  PROVE  IInv' /\ Kept
<1> DEFINE m == mission[r]
           outcome == IF m.ok THEN "arrived"
                      ELSE IF r = "service" /\ cancel_requested THEN "canceled"
                      ELSE "failed"
           n == [m EXCEPT !.pc = "centering", !.outcome = outcome]
<1>1. m \in Mission /\ m.pc = "finish" /\ m.pos \in 0 .. Len(m.path)
  BY Parts DEF Finish, At, WellFormed
<1>2. mission' = [mission EXCEPT ![r] = n] /\ UNCHANGED <<waypoints, temporary>>
  BY DEF Finish
<1>3. n \in Mission /\ n.pc = "centering" /\ n.pos = m.pos /\ n.path = m.path
      /\ n.fixed = m.fixed
  <2>1. "centering" \in Places /\ outcome \in {"", "running", "arrived", "canceled", "failed"}
    BY PlacesAre
  <2> HIDE DEF outcome
  <2> QED BY <1>1, <2>1 DEF Mission
<1> HIDE DEF n
<1>4. WellFormed(n)
  BY <1>1, <1>3 DEF WellFormed, Driving, Waiting
<1>5. Become(r, n)
  BY <1>2 DEF Become
<1>6. Turns(r, n) /\ KeepsFixed(r, n)
  BY <1>3, <1>4, <1>5, Parts, StopTurns DEF Driving
<1>7. RestOK' /\ temporary' \subseteq Graph
  BY <1>2, Parts DEF Finish, RestOK, FlagsOK, joy, planner
<1> QED BY <1>6, <1>7, TurnPreserves

LEMMA CenteredPreserves ==
  ASSUME IInv, NEW r \in Runners, Centered(r)
  PROVE  IInv' /\ Kept
<1> DEFINE n == [Idle EXCEPT !.outcome = mission[r].outcome]
<1>1. mission[r] \in Mission
  BY Parts DEF WellFormed
<1>2. mission' = [mission EXCEPT ![r] = n] /\ UNCHANGED <<waypoints, temporary>>
  BY DEF Centered
<1>3. n \in Mission /\ n.pc = "idle" /\ n.pos = 0 /\ n.path = <<>> /\ ~n.fixed
  <2>1. mission[r].outcome \in {"", "running", "arrived", "canceled", "failed"}
    BY <1>1 DEF Mission
  <2> QED BY <2>1, IdleIs DEF Mission
<1> HIDE DEF n
<1>4. WellFormed(n) /\ Become(r, n)
  BY <1>2, <1>3, IdleIsWellFormed DEF Become
<1>5. Turns(r, n) /\ KeepsFixed(r, n)
  BY <1>3, <1>4, Parts, StopTurns DEF Driving
<1>6. RestOK' /\ temporary' \subseteq Graph
  BY <1>2, Parts DEF Centered, RestOK, FlagsOK, nav, joy, planner
<1> QED BY <1>5, <1>6, TurnPreserves

-----------------------------------------------------------------------------
(* The Joy thread. *)
LEMMA StartPreserves ==
  ASSUME IInv, StartOrResume
  PROVE  IInv' /\ Kept
<1>1. RestOK' /\ temporary' = temporary /\ waypoints' = waypoints
      /\ sent' = sent /\ report' = report /\ "joy" \in Runners
  BY Parts DEF StartOrResume, RestOK, FlagsOK, planner
<1>2. CASE mission' = mission
  BY <1>1, <1>2, OthersPreserve DEF AboutWaypoints
<1>3. CASE mission' # mission
  <2> DEFINE route == [i \in 1 .. Poses |-> i - 1]
             n == [Idle EXCEPT !.pc = "send", !.path = route, !.pos = 1,
                               !.target = Poses - 1]
  <2>1. mission' = [mission EXCEPT !["joy"] = n]
    BY <1>3 DEF StartOrResume
  <2>2. /\ route \in Seq(Pose) /\ Len(route) = Poses /\ route[Len(route)] = Poses - 1
        /\ Poses - 1 \in Pose /\ 1 \in 0 .. Poses
    BY PosesAssumption DEF Pose
  <2> HIDE DEF route
  <2>3. n \in Mission /\ n.pc = "send" /\ n.path = route /\ n.pos = 1
        /\ n.target = Poses - 1 /\ ~n.fixed
    <3>1. "send" \in Places /\ 1 \in Nat
      BY PlacesAre
    <3> QED BY <2>2, <3>1, IdleIs DEF Mission
  <2> HIDE DEF n
  <2>4. WellFormed(n)
    BY <2>2, <2>3 DEF WellFormed, Waiting
  <2>5. mission'["joy"] = n /\ \A s \in Runners : s # "joy" => mission'[s] = mission[s]
        /\ mission' \in [Runners -> Mission]
    BY <1>1, <2>1, <2>3, Parts
  <2>6. TypeOK' /\ Shape'
    <3>1. \A s \in Runners : WellFormed(mission'[s])
      BY <2>4, <2>5, Parts
    <3>2. mission' \in [Runners -> Mission]
      BY <2>1, <2>3, Parts
    <3>3. \A s \in Runners : mission'[s].pos \in 0 .. Len(mission'[s].path)
      BY <3>1 DEF WellFormed
    <3>4. TypeOK'
      BY <1>1, <3>2, <3>3, Parts, TypeParts
    <3> QED BY <2>3, <2>5, <3>1, <3>4 DEF Shape
  <2>7. Kept
    <3>1. ~mission["joy"].fixed
      BY <1>1 DEF IInv, Shape
    <3>2. \A s \in Runners : s # "joy" => mission[s] \in Mission
      BY Parts DEF WellFormed
    <3>3. ASSUME NEW s \in Runners, s # "joy"
          PROVE  mission'[s].pos \in {mission[s].pos, mission[s].pos + 1}
                 /\ mission'[s].path = mission[s].path
      BY <2>5, <3>3
    <3> QED BY <3>1, <3>3 DEF Kept
  <2>8. Runners # {"service"}
    BY <1>1
  <2> QED BY <2>6, <2>7, <2>8 DEF IInv
<1> QED BY <1>2, <1>3

LEMMA JoyThreadPreserves ==
  ASSUME IInv, JoyThread
  PROVE  IInv' /\ Kept
<1>1. goal \in Goals /\ (CancelGoal => goal' \in Goals) /\ FlagsOK /\ RestOK
  BY Parts, CancelGoalIsGoal
<1>2. CASE StartOrResume
  BY <1>2, StartPreserves
<1>3. ASSUME PauseRobot \/ PauseReentry \/ PauseCancels \/ Resume \/ CancelNavigation
             \/ CancelUnpauses \/ CancelClearsReentry \/ CancelEndsGoal
      PROVE  IInv' /\ Kept
  <2>1. JoyRest
    BY <1>3 DEF PauseRobot, PauseReentry, PauseCancels, Resume, CancelNavigation,
                CancelUnpauses, CancelClearsReentry, CancelEndsGoal
  <2>2. goal' \in Goals
    BY <1>1, <1>3 DEF PauseRobot, PauseReentry, PauseCancels, Resume, CancelNavigation,
                      CancelUnpauses, CancelClearsReentry, CancelEndsGoal
  <2>3. /\ cancel_requested' \in BOOLEAN /\ pause_robot' \in BOOLEAN
        /\ pause_reentry_requested' \in BOOLEAN
        /\ joyPc' \in {"", "paused", "reentry", "canceled", "unpaused", "cleared"}
    BY <1>1, <1>3 DEF PauseRobot, PauseReentry, PauseCancels, Resume, CancelNavigation,
                      CancelUnpauses, CancelClearsReentry, CancelEndsGoal, FlagsOK
  <2>4. RestOK'
    BY <1>1, <2>1, <2>2, <2>3 DEF JoyRest, RestOK, FlagsOK, planner
  <2> QED BY <2>1, <2>4, OthersPreserve DEF JoyRest, planner, AboutWaypoints
<1> QED BY <1>2, <1>3 DEF JoyThread, JoyStep

(* The planner, the server, and the blocks. *)
LEMMA EnvironmentPreserves ==
  ASSUME IInv,
         BlockExpires \/ ServerEnds \/ SetPlan \/ PublishStatus \/ ReferenceStatusCallback
  PROVE  IInv' /\ Kept
<1>1. RestOK /\ FlagsOK /\ goal \in Goals /\ waypoints \in Seq(Pose)
      /\ {sent, report} \subseteq Report \cup {NoReport}
  BY Parts
<1>2. CASE BlockExpires
  <2>1. temporary' \subseteq temporary
    BY <1>2 DEF BlockExpires
  <2>2. RestOK'
    BY <1>1, <1>2 DEF BlockExpires, RestOK, FlagsOK, nav, joy, planner
  <2> QED BY <1>2, <2>1, <2>2, OthersPreserve DEF BlockExpires, planner, AboutWaypoints
<1>3. CASE ServerEnds
  <2>1. goal' \in Goals
    <3>1. PICK outcome \in {"succeeded", "aborted"} : goal' = [goal EXCEPT !.state = outcome]
      BY <1>3, NavAssumption DEF ServerEnds
    <3> QED BY <1>1, <3>1 DEF Goals
  <2>2. RestOK'
    BY <1>1, <1>3, <2>1 DEF ServerEnds, RestOK, FlagsOK, nav, joy, planner
  <2> QED BY <1>3, <2>2, OthersPreserve DEF ServerEnds, planner, AboutWaypoints
<1>4. CASE SetPlan
  <2>1. tracked' \in Pose \cup {NoPose}
    BY <1>1, <1>4 DEF SetPlan, Goals
  <2>2. RestOK'
    BY <1>1, <1>4, <2>1 DEF SetPlan, RestOK, FlagsOK, nav, joy
  <2> QED BY <1>4, <2>2, OthersPreserve DEF SetPlan, AboutWaypoints
<1>5. CASE PublishStatus
  <2>1. PICK code \in Codes, i \in MiddleOf(waypoints) :
          /\ waypoints[i] = tracked
          /\ sent' = [code |-> code, index |-> i, node |-> tracked, fresh |-> TRUE]
    BY <1>5 DEF PublishStatus
  <2>2. i \in Nat /\ tracked \in Pose
    BY <1>1, <2>1 DEF MiddleOf
  <2>3. sent' \in Report
    BY <2>1, <2>2 DEF Report
  <2>4. RestOK'
    BY <1>1, <1>5, <2>3 DEF PublishStatus, RestOK, FlagsOK, nav, joy
  <2>5. AboutWaypoints(sent)'
    BY <1>5, <2>1 DEF AboutWaypoints, PublishStatus
  <2> QED BY <1>5, <2>4, <2>5, OthersPreserve DEF PublishStatus, AboutWaypoints
<1>6. CASE ReferenceStatusCallback
  <2>1. RestOK'
    BY <1>1, <1>6 DEF ReferenceStatusCallback, RestOK, FlagsOK, nav, joy
  <2>2. AboutWaypoints(sent)'
    BY <1>6 DEF ReferenceStatusCallback, AboutWaypoints, NoReport
  <2> QED BY <1>6, <2>1, <2>2, OthersPreserve DEF ReferenceStatusCallback, AboutWaypoints
<1> QED BY <1>2, <1>3, <1>4, <1>5, <1>6
-----------------------------------------------------------------------------
LEMMA InitIInv == Init => IInv
<1> SUFFICES ASSUME Init PROVE IInv
  OBVIOUS
<1>1. \A r \in Runners : mission[r] = Idle /\ WellFormed(mission[r])
  BY IdleIs, IdleIsWellFormed DEF Init
<1>2. TypeOK
  <2>1. mission \in [Runners -> Mission]
    BY IdleIs DEF Init
  <2>2. \A r \in Runners : mission[r].pos \in 0 .. Len(mission[r].path)
    BY <1>1 DEF WellFormed
  <2>3. FlagsOK
    <3>1. requests \in 0 .. MaxRequests
      <4>1. requests = 0
        BY Zenon DEF Init
      <4> QED BY <4>1, NavAssumption
    <3> QED BY <3>1 DEF Init, FlagsOK
  <2>4. RestOK
    BY <2>3 DEF Init, RestOK, Goals
  <2>5. temporary \subseteq Graph /\ waypoints \in Seq(Pose)
    <3>1. temporary = {} /\ waypoints = <<>>
      BY Zenon DEF Init
    <3> QED BY <3>1
  <2> QED BY <2>1, <2>2, <2>4, <2>5, TypeParts
<1>3. Shape
  BY <1>1, IdleIs DEF Shape
<1>4. Runners = {"service"} => RouteInv
  BY <1>1, IdleIs DEF RouteInv, IsOpen, OnRoute, Driving, Watching
<1> QED BY <1>2, <1>3, <1>4 DEF IInv

LEMMA NextPreserves == IInv /\ [Next]_vars => IInv' /\ Kept
<1> SUFFICES ASSUME IInv, [Next]_vars PROVE IInv' /\ Kept
  OBVIOUS
<1>1. ASSUME NEW start \in Pose, NEW target \in Pose, NEW fixed \in FixedRoutes,
             Request(start, target, fixed)
      PROVE  IInv' /\ Kept
  BY <1>1, RequestPreserves
<1>2. ASSUME NEW r \in Runners, MissionStep(r) PROVE IInv' /\ Kept
  BY <1>2, SendGoalPreserves, MonitorPreserves, WaitEndsPreserves, FinishPreserves,
     CenteredPreserves DEF MissionStep
<1>3. CASE JoyThread
  BY <1>3, JoyThreadPreserves
<1>4. CASE BlockExpires \/ ServerEnds \/ SetPlan \/ PublishStatus \/ ReferenceStatusCallback
  BY <1>4, EnvironmentPreserves
<1>5. CASE UNCHANGED vars
  <2>1. RestOK'
    BY <1>5, Parts DEF vars, nav, joy, planner, RestOK, FlagsOK
  <2> QED BY <1>5, <2>1, OthersPreserve DEF vars, planner, AboutWaypoints
<1> QED BY <1>1, <1>2, <1>3, <1>4, <1>5 DEF Next

(* Every state the missions, the buttons and the planner can reach has its *)
(* type, its missions the shape above, and a lone service mission an open  *)
(* route that the published waypoints agree with.                          *)
THEOREM Invariance == Spec => []IInv
<1>1. Init => IInv
  BY InitIInv
<1>2. IInv /\ [Next]_vars => IInv'
  BY NextPreserves
<1> QED BY <1>1, <1>2, PTL DEF Spec

(* Type correctness of the missions of run_nav. *)
THEOREM TypeCorrect == Spec => []TypeOK
<1>1. IInv => TypeOK
  BY DEF IInv
<1> QED BY <1>1, Invariance, PTL

(* The rest of a replanned route never leads through a blocked edge: each  *)
(* edge that a failed goal of the mission blocks is off the route that is  *)
(* driven after it (runTopologyMission).                                   *)
THEOREM RouteStaysOpen == Spec => []RestOfRouteIsOpen
<1>1. IInv => RestOfRouteIsOpen
  BY DEF IInv, RouteInv, IsOpen, OpenFrom, RestOfRouteIsOpen
<1> QED BY <1>1, Invariance, PTL

(* A reference status that referenceStatusMatches accepts is about the     *)
(* pose of the goal under way, however late it comes.                      *)
THEOREM ReportsAreOwn == Spec => []ReportIsAboutGoal
<1>1. IInv => ReportIsAboutGoal
  <2> SUFFICES ASSUME IInv, Runners = {"service"},
                      mission["service"].pc \in {"top", "wait", "paused", "resumed"},
                      ReferenceStatusMatches("service", Codes)
               PROVE  report.node = mission["service"].path[mission["service"].pos]
    BY DEF ReportIsAboutGoal
  <2>1. OnRoute(mission["service"])
    BY DEF IInv, RouteInv
  <2>2. AboutWaypoints(report) /\ waypoints = mission["service"].path
    BY <2>1 DEF OnRoute, Watching, Driving
  <2> QED BY <2>2 DEF AboutWaypoints, ReferenceStatusMatches
<1> QED BY <1>1, Invariance, PTL

(* A fixed route is driven in its order: no pause, late report or other    *)
(* mission gives it another path or moves it by more than one pose         *)
(* (runFixedTopologyMission).                                              *)
THEOREM FixedRoutesKept == Spec => FixedRouteIsKept
<1>1. IInv /\ [Next]_vars => Kept
  BY NextPreserves
<1>2. Kept => [\A r \in Runners :
         mission[r].fixed /\ mission[r].pc \in Driving /\ mission'[r].pc \in Driving =>
           /\ mission'[r].path = mission[r].path
           /\ mission'[r].pos \in {mission[r].pos, mission[r].pos + 1}]_vars
  BY DEF Kept
<1> QED BY <1>1, <1>2, Invariance, PTL DEF Spec, FixedRouteIsKept

-----------------------------------------------------------------------------
(* A cancellation and the goal it ends.  Without pauses, and with one      *)
(* request, the flag is set before the goal is ended and stays set until   *)
(* the mission is over; a mission that waits after a failure has a goal    *)
(* that was not cancelled.                                                 *)
Unpaused == Runners = {"service"} /\ "A" \notin Buttons /\ MaxRequests <= 1
CancelIsSeen ==
  LET m == mission["service"]
  IN  /\ ~pause_reentry_requested /\ joyPc \notin {"paused", "reentry"}
      /\ m.pc \notin {"paused", "resumed"}
      /\ requests = 0 => m.pc = "idle" /\ goal.state = "none"
      /\ joyPc # "" /\ (requests = 0 \/ m.pc \notin {"idle", "centering"})
           => cancel_requested
      /\ goal.state = "preempted" /\ m.pc \in {"top", "wait"} => cancel_requested
      /\ m.pc = "failing" => goal.state \notin {"active", "preempted"}

(* A goal that is cancelled was active. *)
LEMMA CancelGoalIs ==
  ASSUME goal \in Goals, CancelGoal
  PROVE  goal'.state = IF goal.state = "active" THEN "preempted" ELSE goal.state
BY DEF CancelGoal, Goals

(* A goal is ended by the end of a call of cancel_navigation, the flag set *)
(* long before; the rest of the Joy thread sets or keeps it.               *)
LEMMA JoySeesCancel ==
  ASSUME IInv, Unpaused, CancelIsSeen, JoyThread
  PROVE  CancelIsSeen'
<1>1. goal \in Goals
  BY Parts
<1>2. CASE PauseRobot
  BY <1>2 DEF PauseRobot, Press, Unpaused
<1>3. CASE PauseReentry \/ PauseCancels
  BY <1>3 DEF PauseReentry, PauseCancels, CancelIsSeen
<1>4. CASE Resume
  BY <1>4 DEF Resume, JoyRest, CancelIsSeen
<1>5. CASE StartOrResume
  BY <1>5 DEF StartOrResume, Unpaused
<1>6. CASE CancelNavigation
  BY <1>6 DEF CancelNavigation, JoyRest, CancelIsSeen
<1>7. CASE CancelUnpauses \/ CancelClearsReentry
  <2>1. /\ joyPc # "" /\ joyPc' \in {"unpaused", "cleared"}
        /\ UNCHANGED <<mission, requests, goal, cancel_requested>>
    BY <1>7 DEF CancelUnpauses, CancelClearsReentry, JoyRest
  <2>2. ~pause_reentry_requested'
    BY <1>7 DEF CancelUnpauses, CancelClearsReentry, CancelIsSeen
  <2> QED BY <2>1, <2>2 DEF CancelIsSeen
<1>8. CASE CancelEndsGoal
  <2>1. /\ joyPc = "cleared" /\ joyPc' = "" /\ JoyRest
        /\ UNCHANGED <<cancel_requested, pause_reentry_requested>>
        /\ goal'.state = IF goal.state = "active" THEN "preempted" ELSE goal.state
    BY <1>1, <1>8, CancelGoalIs DEF CancelEndsGoal
  <2> QED BY <2>1 DEF CancelIsSeen, JoyRest
<1> QED BY <1>2, <1>3, <1>4, <1>5, <1>6, <1>7, <1>8 DEF JoyThread, JoyStep

(* A mission that leaves the monitoring loop has no goal to watch.         *)
LEMMA ReturnSeesCancel ==
  ASSUME IInv, Unpaused, CancelIsSeen, mission["service"].pc \in {"top", "wait", "failing"},
         NEW result, Return("service", result), pause_reentry_requested' = pause_reentry_requested
  PROVE  CancelIsSeen'
<1>1. /\ WellFormed(mission["service"]) /\ mission["service"].pc \in Driving
      /\ waypoints \in Seq(Pose) /\ finished \in BOOLEAN /\ temporary \subseteq Graph
      /\ mission \in [Runners -> Mission] /\ "service" \in Runners
  BY Parts DEF Unpaused, FlagsOK, Driving
<1>2. PICK n : Turns("service", n)
  BY <1>1, ReturnTurns
<1>3. mission'["service"] = n /\ n.pc \notin Watching
  BY <1>1, <1>2 DEF Turns
<1>4. UNCHANGED <<cancel_requested, joyPc, requests>>
  BY DEF Return, joy
<1> QED BY <1>3, <1>4 DEF CancelIsSeen, Watching

(* Inside the monitoring loop. *)
LEMMA MoveIs ==
  ASSUME IInv, Unpaused, NEW place, Move("service", place)
  PROVE  /\ mission'["service"].pc = place
         /\ UNCHANGED <<joyPc, cancel_requested, requests, temporary>>
<1>1. mission \in [Runners -> Mission] /\ "service" \in Runners
  BY Parts DEF Unpaused
<1>2. "pc" \in DOMAIN mission["service"]
  BY <1>1 DEF Mission
<1> QED BY <1>1, <1>2 DEF Move, joy

LEMMA MonitorSeesCancel ==
  ASSUME IInv, Unpaused, CancelIsSeen, Monitor("service")
  PROVE  /\ CancelIsSeen'
         /\ goal.state = "preempted" => temporary' \subseteq temporary
<1> DEFINE m == mission["service"]
           Blocks == goal.state = "preempted" => temporary' \subseteq temporary
<1>1. goal \in Goals /\ ~pause_reentry_requested /\ m.pc \notin {"paused", "resumed"}
  BY Parts DEF CancelIsSeen
<1>2. ASSUME NEW result, Return("service", result), m.pc \in {"top", "wait", "failing"},
             pause_reentry_requested' = pause_reentry_requested,
             result # "FAILED" \/ goal.state # "preempted"
      PROVE  CancelIsSeen' /\ Blocks
  <2>1. CancelIsSeen'
    BY <1>2, ReturnSeesCancel
  <2>2. result # "FAILED" => temporary' \subseteq temporary
    BY <1>2 DEF Return, ReturnFixed, ReturnReplanning, MarkEdgeSuccess
  <2> QED BY <1>2, <2>1, <2>2
<1>3. ASSUME NEW place \in {"top", "wait"}, m.pc \in {"top", "wait"}, Move("service", place),
             pause_reentry_requested' = pause_reentry_requested,
             goal'.state = goal.state \/ goal'.state = "active"
      PROVE  CancelIsSeen' /\ Blocks
  <2>1. /\ mission'["service"].pc = place
        /\ UNCHANGED <<joyPc, cancel_requested, requests, temporary>>
    BY <1>3, MoveIs
  <2> QED BY <1>3, <2>1 DEF CancelIsSeen
<1>4. CASE Check("service")
  <2>1. CASE cancel_requested
    BY <1>2, <1>4, <2>1 DEF Check, At, Canceled
  <2>2. CASE ReferenceStatusMatches("service", {"DEVIATED"}) /\ ~cancel_requested
    BY <1>1, <1>2, <1>4, <2>2 DEF Check, At, Deviated
  <2>3. CASE ~cancel_requested /\ ~ReferenceStatusMatches("service", {"DEVIATED"})
    BY <1>1, <1>3, <1>4, <2>3 DEF Check, At, Stay
  <2> QED BY <2>1, <2>2, <2>3
<1>5. CASE Paused("service") \/ Resumed("service")
  BY <1>1, <1>5 DEF Paused, Resumed, At
<1>6. CASE ExplainResult("service")
  BY <1>1, <1>2, <1>6 DEF ExplainResult, At, Canceled, Deviated
<1>7. CASE Succeeded("service")
  <2>1. m.pc = "wait" /\ pause_reentry_requested' = pause_reentry_requested
    BY <1>7 DEF Succeeded, At
  <2>2. CASE Return("service", "REACHED")
    BY <1>2, <2>1, <2>2
  <2>3. CASE NewGoal("service") /\ Move("service", "top")
    BY <1>3, <2>1, <2>3 DEF NewGoal
  <2> QED BY <1>7, <2>2, <2>3 DEF Succeeded
<1>8. CASE NotSucceeded("service")
  <2>1. /\ m.pc = "wait" /\ GoalDone /\ ~cancel_requested /\ Move("service", "failing")
        /\ UNCHANGED <<goal, pause_reentry_requested>>
    BY <1>8 DEF NotSucceeded, At, ResultExplained, Stay
  <2>2. goal.state \notin {"active", "preempted"}
    BY <2>1 DEF CancelIsSeen, GoalDone
  <2>3. /\ mission'["service"].pc = "failing"
        /\ UNCHANGED <<joyPc, cancel_requested, requests, temporary>>
    BY <2>1, MoveIs
  <2> QED BY <2>1, <2>2, <2>3 DEF CancelIsSeen
<1>9. CASE FailingEnds("service")
  <2>1. m.pc = "failing" /\ goal.state # "preempted"
    BY <1>9 DEF FailingEnds, At, CancelIsSeen
  <2> QED BY <1>2, <1>9, <2>1 DEF FailingEnds
<1>10. CASE PassedByReport("service")
  BY <1>2, <1>10 DEF PassedByReport, At
<1>11. CASE Near("service")
  BY <1>2, <1>11 DEF Near, At
<1>12. CASE GiveUp("service")
  <2>1. goal.state # "preempted" /\ m.pc = "wait"
    BY <1>12 DEF GiveUp, At, GoalDone
  <2> QED BY <1>2, <1>12, <2>1 DEF GiveUp
<1>13. CASE KeepWaiting("service")
  BY <1>3, <1>13 DEF KeepWaiting, At, Stay
<1> QED BY <1>4, <1>5, <1>6, <1>7, <1>8, <1>9, <1>10, <1>11, <1>12, <1>13 DEF Monitor

(* The one request begins without a flag only if no cancellation has begun.*)
LEMMA RequestSeesCancel ==
  ASSUME IInv, Unpaused, CancelIsSeen,
         NEW start \in Pose, NEW target \in Pose, NEW fixed \in FixedRoutes,
         Request(start, target, fixed)
  PROVE  CancelIsSeen'
<1> DEFINE m == [Idle EXCEPT !.target = target, !.fixed = fixed, !.outcome = "running"]
<1>1. mission \in [Runners -> Mission] /\ requests \in 0 .. MaxRequests /\ MaxRequests \in Nat
      /\ "service" \in Runners
  BY Parts, NavAssumption DEF Unpaused, FlagsOK
<1>2. /\ requests < MaxRequests /\ requests' = requests + 1
      /\ UNCHANGED <<pause_reentry_requested, joyPc, goal>>
  BY DEF Request, joy
<1>3. requests = 0 /\ requests' = 1
  BY <1>1, <1>2 DEF Unpaused
<1>4. goal.state = "none" /\ (joyPc # "" => cancel_requested)
  BY <1>3 DEF CancelIsSeen
<1>5. m.pc = "idle" /\ "pc" \in DOMAIN m
  BY DEF Idle
<1>6. \/ mission'["service"].pc = "idle"
      \/ ~cancel_requested /\ mission'["service"].pc \in {"send", "planwait"}
  <2>1. CASE cancel_requested
    <3>1. mission' = [mission EXCEPT !["service"] = [m EXCEPT !.outcome = "canceled"]]
      BY <2>1 DEF Request, Become
    <3> QED BY <1>1, <1>5, <3>1
  <2>2. CASE ~cancel_requested
    <3>1. \/ \E p : mission' = [mission EXCEPT !["service"] =
                                  [m EXCEPT !.pc = "send", !.path = p, !.pos = 1]]
          \/ mission' = [mission EXCEPT !["service"] = [m EXCEPT !.outcome = "failed"]]
          \/ mission' = [mission EXCEPT !["service"] =
                           [m EXCEPT !.pc = "planwait", !.path = <<start>>]]
      BY <2>2 DEF Request, Become, Drive
    <3> HIDE DEF m
    <3> QED BY <1>1, <1>5, <2>2, <3>1
  <2> QED BY <2>1, <2>2
<1> HIDE DEF m
<1>7. ~pause_reentry_requested' /\ joyPc' \notin {"paused", "reentry"} /\ joyPc' = joyPc
      /\ goal'.state = "none" /\ requests' # 0
  <2>1. goal' = goal /\ joyPc' = joyPc /\ pause_reentry_requested' = pause_reentry_requested
    BY <1>2
  <2>2. ~pause_reentry_requested /\ joyPc \notin {"paused", "reentry"}
    BY DEF CancelIsSeen
  <2>3. requests' # 0
    BY <1>3
  <2> QED BY <1>4, <2>1, <2>2, <2>3
<1> QED BY <1>4, <1>6, <1>7 DEF CancelIsSeen

LEMMA StepSeesCancel ==
  ASSUME IInv, Unpaused, CancelIsSeen, [Next]_vars
  PROVE  /\ CancelIsSeen'
         /\ [goal.state = "preempted" => temporary' \subseteq temporary]_vars
<1> DEFINE m == mission["service"]
<1> SUFFICES CancelIsSeen' /\ (goal.state = "preempted" => temporary' \subseteq temporary)
  OBVIOUS
<1>1. mission \in [Runners -> Mission] /\ goal \in Goals /\ "service" \in Runners
      /\ requests \in 0 .. MaxRequests
  BY Parts DEF Unpaused, FlagsOK
<1>2. ASSUME NEW start \in Pose, NEW target \in Pose, NEW fixed \in FixedRoutes,
             Request(start, target, fixed)
      PROVE  CancelIsSeen' /\ temporary' \subseteq temporary
  BY <1>2, RequestSeesCancel DEF Request
<1>3. CASE JoyThread
  <2>1. temporary' = temporary
    BY <1>3 DEF JoyThread, JoyStep, PauseRobot, Resume, StartOrResume, CancelNavigation,
                PauseReentry, PauseCancels, CancelUnpauses, CancelClearsReentry,
                CancelEndsGoal, JoyRest
  <2> QED BY <1>3, <2>1, JoySeesCancel
<1>4. CASE BlockExpires \/ SetPlan \/ PublishStatus \/ ReferenceStatusCallback
  <2>1. UNCHANGED <<nav, joy, mission, requests, goal>> /\ temporary' \subseteq temporary
    BY <1>4 DEF BlockExpires, SetPlan, PublishStatus, ReferenceStatusCallback
  <2> QED BY <2>1 DEF nav, joy, CancelIsSeen
<1>5. CASE ServerEnds
  <2>1. PICK outcome \in Outcomes : goal' = [goal EXCEPT !.state = outcome]
    BY <1>5 DEF ServerEnds
  <2>2. goal.state = "active" /\ goal'.state \in {"succeeded", "aborted"}
    BY <1>1, <1>5, <2>1, NavAssumption DEF ServerEnds, Goals
  <2>3. UNCHANGED <<nav, joy, mission, requests, temporary>>
    BY <1>5 DEF ServerEnds
  <2> QED BY <2>2, <2>3 DEF nav, joy, CancelIsSeen
<1>6. CASE SendGoal("service")
  <2>1. /\ m.pc = "send" /\ goal'.state = "active" /\ Move("service", "top")
        /\ UNCHANGED pause_reentry_requested
    BY <1>6 DEF SendGoal, At, NewGoal
  <2>2. /\ mission'["service"].pc = "top"
        /\ UNCHANGED <<joyPc, cancel_requested, requests, temporary>>
    BY <2>1, MoveIs
  <2> QED BY <2>1, <2>2 DEF CancelIsSeen
<1>7. CASE Monitor("service")
  BY <1>7, MonitorSeesCancel
<1>8. CASE WaitEnds("service")
  <2>1. m.pc \in Waiting /\ UNCHANGED <<nav, joy, requests, temporary, goal>>
    BY <1>8 DEF WaitEnds, Waiting
  <2>2. mission'["service"].pc \in {"send", "finish", "idle"}
    <3>1. \/ \E p : GoOn("service", m, p, 1)
          \/ Become("service", Failed(m))
          \/ Become("service", [Idle EXCEPT !.outcome = "failed"])
      BY <1>8 DEF WaitEnds
    <3>2. "pc" \in DOMAIN m /\ m \in Mission
      BY <1>1 DEF Mission
    <3>3. ASSUME NEW p, GoOn("service", m, p, 1)
          PROVE  mission'["service"].pc \in {"send", "finish"}
      <4>1. CASE m.replans > MaxReplans
        <5> DEFINE k == [m EXCEPT !.path = p, !.pos = 1]
        <5>1. "pc" \in DOMAIN k
          BY <3>2
        <5>2. mission' = [mission EXCEPT !["service"] = Failed(k)]
          BY <3>3, <4>1 DEF GoOn
        <5> HIDE DEF k
        <5>3. Failed(k).pc = "finish"
          BY <5>1 DEF Failed
        <5> QED BY <1>1, <5>2, <5>3
      <4>2. CASE ~(m.replans > MaxReplans)
        <5> DEFINE k == [m EXCEPT !.pc = "send", !.path = p, !.pos = 1]
        <5>1. k.pc = "send"
          BY <3>2
        <5>2. mission' = [mission EXCEPT !["service"] = k]
          BY <3>3, <4>2 DEF GoOn, Drive
        <5> HIDE DEF k
        <5> QED BY <1>1, <5>1, <5>2
      <4> QED BY <4>1, <4>2
    <3>4. CASE Become("service", Failed(m))
      BY <1>1, <3>2, <3>4 DEF Become, Failed, Mission
    <3>5. CASE Become("service", [Idle EXCEPT !.outcome = "failed"])
      BY <1>1, <3>5 DEF Become, Idle
    <3> QED BY <3>1, <3>3, <3>4, <3>5
  <2> QED BY <2>1, <2>2 DEF nav, joy, CancelIsSeen, Waiting
<1>9. CASE Finish("service")
  <2>1. m.pc = "finish" /\ mission'["service"].pc = "centering"
        /\ UNCHANGED <<pause_reentry_requested, joy, requests, temporary, goal>>
    BY <1>1, <1>9 DEF Finish, At, Mission
  <2> QED BY <2>1 DEF joy, CancelIsSeen
<1>10. CASE Centered("service")
  <2>1. m.pc = "centering" /\ mission'["service"].pc = "idle"
        /\ UNCHANGED <<nav, joy, requests, temporary, goal>>
    BY <1>1, <1>10 DEF Centered, At, Idle
  <2> QED BY <2>1 DEF nav, joy, CancelIsSeen
<1>11. CASE UNCHANGED vars
  BY <1>11 DEF vars, nav, joy, CancelIsSeen
<1>12. ASSUME NEW r \in Runners, MissionStep(r)
       PROVE  CancelIsSeen' /\ (goal.state = "preempted" => temporary' \subseteq temporary)
  <2>1. r = "service"
    BY <1>12 DEF Unpaused
  <2>2. \/ SendGoal("service") \/ Monitor("service") \/ WaitEnds("service")
        \/ Finish("service") \/ Centered("service")
    BY <1>12, <2>1 DEF MissionStep
  <2>3. temporary' = temporary \/ Monitor("service")
    BY <2>2 DEF SendGoal, Move, WaitEnds, Finish, Centered
  <2> QED BY <1>6, <1>7, <1>8, <1>9, <1>10, <2>2, <2>3
<1>13. CASE Next
  <2> DEFINE Good == CancelIsSeen' /\ (goal.state = "preempted" => temporary' \subseteq temporary)
  <2>1. \A start, target \in Pose, fixed \in FixedRoutes : Request(start, target, fixed) => Good
    BY <1>2
  <2>2. \A r \in Runners : MissionStep(r) => Good
    BY <1>12
  <2>3. JoyThread \/ BlockExpires \/ ServerEnds \/ SetPlan \/ PublishStatus
          \/ ReferenceStatusCallback => Good
    BY <1>3, <1>4, <1>5
  <2> HIDE DEF Good
  <2>4. Good
    BY <1>13, <2>1, <2>2, <2>3 DEF Next
  <2> QED BY <2>4 DEF Good
<1> QED BY <1>11, <1>13

(* A goal that was cancelled and did not fail blocks no edge, whatever the *)
(* graph, the route, the time of the cancellation and the reports: for one *)
(* request and without pauses, which can lose their own request (1790).    *)
THEOREM CancelBlocksNothing ==
  ASSUME Unpaused
  PROVE  Spec => CanceledGoalBlocksNothing
<1>1. Init => CancelIsSeen
  <2> SUFFICES ASSUME Init PROVE CancelIsSeen
    OBVIOUS
  <2>1. mission["service"] = Idle /\ goal.state = "none" /\ joyPc = ""
        /\ pause_reentry_requested = FALSE
    BY DEF Init, Unpaused
  <2> QED BY <2>1, IdleIs DEF CancelIsSeen
<1>2. IInv /\ CancelIsSeen /\ [Next]_vars => CancelIsSeen'
  BY StepSeesCancel
<1>3. IInv /\ CancelIsSeen /\ [Next]_vars
        => [goal.state = "preempted" => temporary' \subseteq temporary]_vars
  BY StepSeesCancel
<1> QED BY <1>1, <1>2, <1>3, Invariance, PTL DEF Spec, CanceledGoalBlocksNothing
=============================================================================
