# Verification of the robot's motion stack in TLA+

This directory specifies, model-checks and proves properties of the programs
that decide whether, where and how the robot moves, and where it believes to
be. The repository holds a ROS 1 workspace for an AgileX Ranger vehicle: a
LiDAR driver, a SLAM node, global and local planners, a topological navigator,
a docking controller that follows tags, an operator console, an arbiter for
velocity commands and the chassis node. Everything that moves the vehicle ends
in the last two.

Line numbers refer to the files named in `PROJECT.json` (`map`), which gives
the lines that every definition translates.

## The system

| Component | State it keeps | Operations | What is hard | What makes it correct |
| --- | --- | --- | --- | --- |
| `cmd_vel_arbiter` | newest command of each of four inputs, the active input, zero cycles still owed, stop-and-center in progress | input callbacks, `finish_motion` service (blocks), action done callback (own thread), 50 Hz timer | hand-over between sources, suppression of finished tasks, a blocking service on the only callback thread, emergency stop from anywhere | only one source drives, zeros between two sources, no motion while the chassis centers, silence stops the vehicle |
| `ranger_base` messenger | stop-and-center state machine, action goal, watchdog, fault lock, parking, last motion command | `/cmd_vel` callback, goal and preempt callbacks, parking service, loop of watchdog, fault check and state machine | restarts of a running operation, a timeout per state, faults that appear and clear, results owed to clients | no motion while an operation or the lock owns the chassis, motion only on a recent velocity, a result for every goal, unlocking only when healthy and centered |
| `run_nav` | graph with temporary blocks, missions (route, position, flags), pause and cancel flags, last report of the local planner | buttons and `cancel_navigation` (Joy thread), `plan_path_and_go` (main thread, blocks), a mission thread for Y | atomics shared by three threads, retries and reroutes, late reports, waits that must end | cheapest open routes, no blocked edge ahead, no pose skipped, pause and cancel never taken for a failure, missions end |
| `mxb_move_base` | goal, state of the control machine, three plan buffers, recovery index | action server thread (`executeCb`, `executeCycle`), planner thread, wake-up timer, fixed-route switch | planner thread against control loop and preemption | an ended goal leaves nothing behind, the robot stands before a recovery, a cancelled goal ends, every goal is planned |
| `TagCtl_srv` | phase, filtered pose, counter of stable readings, targets | service that blocks while it drives to a tag, with callbacks and requests handled inside it | lost tags, nested requests, counters kept over phases | one request at a time, aligned before it leaves the rotation, a lost tag ends it |
| `aNAV_ranger.py` console | loop and its generation, stop events, emergency-stop flag | buttons, loop threads, a cancelling thread, service calls | GUI thread against worker threads, order of cancel and pause | nothing moves by itself after an emergency stop, a stopped loop ends, an old loop does not touch a new one |
| SLAM (`LIO-Lite`) | IMU and LiDAR buffers, filter state, map, voxels of the filter of moving objects, initial pose | sensor callbacks and `Run` in turn on one thread | pairing of streams over gaps and clock jumps, alignment that is given up and taken back | what is put in the map is one scan, its time and a state of that time; a located robot stays located; the static map is what the keyframes support |
| `myglobal_planner` | status of the line, the line itself, goal and start of the last plan | `makePlan`, called by the planner thread again and again | how an obstacle is dealt with is kept from plan to plan | a robot told to wait is told to go on when the obstacle is gone |
| `jgl_dwa_local_planner` | topology and its version, reference path, the job that computes the next one, status of the control along the line, yaw error | topology callback (own thread), generation thread, `setPlan`, `isGoalReached`, `computeVelocityCommands` | a route that is replaced while a path for it is computed or looked at; values of the cycle, or of the goal, before | the path followed is that of the route, a goal to be passed does not end, a goal that ends was reached, waiting ends |
| `robot_r` panel | widgets and publishers | buttons | none of its own | |
| `livox_ros_driver2` | ring queues, point buffers, semaphore | device callbacks, publisher threads | indices and buffers shared without lock | every packet once and whole |
| `ugv_sdk` | last decoded CAN frames | receive thread, getters, commands | shared state, closing from a callback | getters return a whole report |
| `obstacle_detection`, `pcd2pgm`, `hardware`, other scripts | none between two messages | conversions | input and output only | |

Velocities flow from `mxb_move_base` to `/cmd_vel/nav`, from `TagCtl_srv` to
`/cmd_vel/tag`, from the joystick to `/cmd_vel/teleop` and from the emergency
stop to `/cmd_vel/safety`; the arbiter selects one and publishes `/cmd_vel`; the
chassis node turns it into CAN commands. The arbiter calls the chassis node's
`stop_and_center` action, tasks call the arbiter's `finish_motion` service.
`run_nav` sends goals to `mxb_move_base`, whose threads call the global and the
local planner, publishes the topology path to the local planner and hears its
reports; the console calls the services of
`run_nav` and of `TagCtl_srv` and sends button messages to `run_nav`. The SLAM
node gives all of them the robot's pose.

The hazards of this code are listed with their lines in `PROJECT.json`
(`hazards`), with the properties that cover them, or what is missing.

## Modules

| Module | What it is |
| --- | --- |
| `MotionGate` | abstract specification of what the arbiter promises on `/cmd_vel` |
| `CmdVelArbiter` | the arbiter; `GateSpec` states that it implements `MotionGate` |
| `CmdVelArbiterProofs` | theorems about it, among them the refinement |
| `RangerMessenger`, `RangerMessengerProofs` | the chassis node, and its theorems |
| `TopoGraph` | edges, routes and their cost: shared by the next three, and the reference for the planner |
| `EdgeCooldown` | temporary blocks and `waitForTemporaryPath`, with a search that only promises what blocks expiring meanwhile allow |
| `DijkstraPlanner` | the same with `dijkstraShortestPath` itself, one iteration of its loop per step; `KeepsPromise` states that it implements `EdgeCooldown` |
| `EdgeCooldownProofs` | theorems about the blocks and the wait, for both specifications, and about the search: it implements `EdgeCooldown` and finds cheapest routes |
| `TopoNav`, `TopoNavProofs` | the missions of `run_nav` with the threads around them, and their theorems |
| `MoveBase`, `MoveBaseProofs` | `executeCb`, the control cycle and the planner thread, and their theorems |
| `LinePlanner` | the global planner: how it deals with obstacles, and the mark it puts on a plan |
| `TrajectoryGenerator` | which reference paths can come out of a route |
| `LineControl` | the local planner along straight lines: its status and when a goal is reached |
| `LocalPlanner`, `LocalPlannerProofs` | the local planner with the generation thread, the topology callback and the two above, and its theorems |
| `TagControl` | the docking service with the requests and readings handled inside it |
| `OperatorConsole`, `OperatorConsoleProofs` | the console composed with `TagControl` and with the pauses and cancellations of `run_nav`, and theorems about both |
| `StaticMapFilter` | the voxels of the filter of moving objects, with a reference definition |
| `LaserMapping`, `LaserMappingProofs` | the SLAM node around it, and its theorems |
| `MC...` and `.cfg` | small values for the constants |

A definition marked *mutant* is a faulty variant of the definition after it,
which no specification uses: with it in place of the original the property it
is listed with in `PROJECT.json` is violated. So every property is able to fail.

### The arbiter

Every callback is one action; `finish_motion` is three, since it blocks:
`FinishMotion` up to the request, `FinishRequest`, and `WaitHeartbeat` and
`WaitReturn` for the loop. While `phase` is not `"spin"` neither inputs nor the
timer are served, which is how one callback thread behaves; `StopCenterDone`
runs on the thread of the action client and is not bound by that. A subscriber
queue has length 1. Velocities are `zero`, `move` or `invalid` (not finite),
and time is counted in ticks, as an age for each command and a countdown for
each deadline. `zeros` and `mover` are history variables.

### The chassis node

`pc` is the place in `Run()`: callbacks, fault check, state machine, sleep. The
feedback of the CAN bus may be anything in every pass. Of it only the answers
matter which the code computes: error code set, vehicle still, mode
dual-Ackermann, wheels centered. Its age is not in the code, so a silent bus,
which looks like a vehicle that is still and centered, is one of these answers.
`seen` is a history of the frames since the last request and says what a
success may rest on.

### Blocks, routes and missions

`EdgeCooldown` has the times of the blocks. A search reads the clock at every
edge, so blocks expire while it runs; as one step it may therefore find any
route that is open when it ends, and fail only if there was none when it began.
`DijkstraPlanner` takes the search apart into iterations with the queue and the
parent pointers, ticks between them, and is shown to keep that promise. An
iteration reads the clock once for the edges of its pose.

In `TopoNav` a mission is a record with its place in `sendGoalAndMonitor` and
around it (`pc`), the route and the position in it. The button callbacks are
split at their atomic stores (`joyPc`), so that a mission may look at the flags
between two of them. The robot's position is not modelled: each question about
it may be answered in any way at any time. The `move_base` server is external;
it may end a goal in any way in `Outcomes`, or never. The local planner reports
late: a report under way (`sent`) may be overtaken by a new goal or a new path.
Blocks expire at any moment, and a route that is found is a cheapest one
(`Plans`), which `DijkstraPlanner` shows.

### move_base

`pc` is the place of the action server's thread in `executeCb` and
`executeCycle`, `ppc` that of the planner thread. What the code does under
`planner_mutex_` is one step; each access outside of it is a step of its own,
so that the threads interleave where they do in the code. A plan is the goal it
leads to. `SimpleActionServer` is external: its flags for a new goal and a
preemption are modelled as the thread sees them.

### The planners

`LocalPlanner` EXTENDS `LineControl` and `TrajectoryGenerator`, and `LineControl`
the `LinePlanner`: together they are what `move_base` calls, with as much of
`move_base` as decides when (`base`). Three threads meet here. The topology
callback and the generation thread are one action each; the control thread is
taken apart (`pc`) where it looks at something that a mutex protects, since
between two such looks a topology may arrive (`BetweenLooks`). `caller` says for
whom `consumeReferencePathJob` runs, which has three callers in one cycle.
`GoalIndex` is computed when the code computes it and kept in `at`.

Of a pose the place and the heading are kept, and of a distance whether it is
within the threshold. Which curves pass their checks depends on the map:
`Generated` is the set of all results `generate` may end with, built from what
each method makes straight and how the segments are renumbered for the whole
route. `been` and `heading` are a history of what the robot has seen of its
goal, `torn` of a topology that came between two looks.

### Docking and the console

In `TagControl` `calls` is the stack of handlers, since `spinOnce` handles a
second request inside the loop of the first. A reading says whether yaw, x and
y are within their thresholds; the count of stable readings works with a
sequence number as in the code. The outer loop and the inner loop for a lost
tag are one step per round. A request whose handler has begun is `"served"`:
only `"called"` ones are in the queue of the service, and none is handled twice.

`OperatorConsole` adds the GUI thread (a button is one step), the loop threads
with their events and generations, the thread that cancels, messages on `/joy`
and signals to the GUI that arrive late. Of `run_nav` it has the Joy thread, store
by store (`joyPc`, as in `TopoNav`), and for the one goal that is served at a time
the place of its thread (`place`) as far as pauses and cancellations make a
difference: the search or the wait for a route, where no flag is looked at; the
drive; the pause loop of `sendGoalAndMonitor`; and the moment behind it, in which
the next store clears `pause_reentry_requested_` (line 1790) whatever pause has
come since. So a pause may be lost here as in `TopoNav`, and a mission drive on
with `pause_robot` set. `held` is a history: since the last emergency stop nobody
has asked for motion, and none of the conditions held in which a stop does not
hold.

### The SLAM node

One thread calls `spinOnce` and then `Run` or `Run_location`, so a callback is
one action and a pass of the loop that takes up a scan is one. A scan is its
stamp and whether it has points. Of the Kalman filter the time is kept which
its state is of: `Propagated` adds up the steps that `UndistortPcl` predicts
over. `StaticMapFilter` keeps the counters of a voxel as the code does, and in
`observed` what each keyframe saw of it; `IsStatic` reads off this history
whether the voxel belongs to the building. Which voxels a scan hits and its
rays cross is any answer.

## What is checked

| Run | What it asks | Instance |
| --- | --- | --- |
| `arbiter_safety` | nothing drives during centering or suppression, confirmations are true, zeros between sources, `MotionGate` is implemented | three inputs of different priority, two zero cycles, suppression and wait of one tick, a server that may not answer |
| `arbiter_liveness` | silence stops and centers, `finish_motion` returns; a safety input that sends motion moves nothing | two inputs, one of which sends anything |
| `ranger` | all properties of the chassis node, safety and liveness | stability after two frames, timeouts of two and three ticks, passes of one or two ticks, every kind of velocity |
| `temporary_path` | cheapest open route, the promise of the search, waits that end and give up only when hopeless, both directions agree | four poses with a cheaper detour, a free edge, parallel edges and an edge the map blocks; cooldown 1, 2, 3 |
| `topo_replan` | open rest of the route, reports about the right goal, a cancelled goal blocks nothing | ring of four poses, one request, both modes, one re-entry or replan followed to its end |
| `topo_ends` | cancellations and missions end, fixed routes keep their order | two poses, all buttons, both modes, missions of the service or of Y |
| `topo_pause` | *refuted*: the cancellation of a pause is never taken for a failure | two poses, pause and resume |
| `move_base` | nothing is left of an ended goal, the robot stands before a recovery, cancelled goals end, every goal is planned | two goals, periodic planning, one recovery behavior for each, fixed route on and off |
| `move_base_stale` | *refuted*: a goal that succeeds is one the robot has reached | two goals on a fixed route |
| `local_planner` | the path followed is that of the route, a goal that is passed does not end, a goal that ends was reached, waiting for a path or for an obstacle that is gone ends | two topologies of four and five poses, two goals in one place with different headings, fixed routes and others |
| `console` | a stop holds, an old loop does not touch a new one, stopped loops end; docking is aligned first, serves its own request and gives up a lost tag | a session of docking or of driving, three requests, two loops |
| `slam` | one scan, its time and a state of that time in the map; the static map is what was observed; a located robot stays located | mapping with one voxel, localisation with all freedom of the buffers, eight units of time |

Why the bounds are enough:

- Two sources at the arbiter suffice for taking over and losing; the third, of a
  priority between, lets a source be overtaken while the zeros of the previous
  change are still owed. Two zero cycles tell "one" from "all". Suppression
  and waits of one tick distinguish before, at and after the limit.
- Two stable frames and timeouts of two to three ticks let every state of the
  chassis machine end both ways, and by both in one pass.
- `temporary_path`: the graph has the cases in which searches go wrong, a pose
  reached again more cheaply, ties, cost zero and no way at all. `Trips` and
  `Driven` name the searches and the edges that fail; they cover each of them.
  `MaxFailures` is 3: the third cooldown already meets `CooldownMax`, which
  equals the timeout of the wait, the least for which its property holds.
- A ring of four poses has routes with a pose in the middle, the only kind that
  has reports, and a way round a block. `FewReplans` is a constraint of
  `topo_replan`: behaviours are followed through one re-entry or replan up to
  the second. Without it the state space is that of nine of them, which repeat
  each other. `topo_ends` has the true limit.
- `OneRunner` is a constraint of `topo_ends`: the missions of one behaviour are
  all of a service or all of Y. It holds back only requests and the button Y, of
  which fairness says nothing. Both kinds at once are in the module; what should
  hold of that mixture is open, as Y then ends the process (see the findings).
- Two goals are what a plan for the wrong one takes. `InOrder` names the goals
  in the order they are sent; `OneOnFixed` follows a fixed route for a single
  goal. Recoveries happen with both: a planner that gives up on the first goal
  when the second has taken over leaves `runPlanner_` cleared, and only the
  recovery leads back to planning.
- Two topologies are an old and a new one, and the second may arrive at every
  point of a cycle and of a generation. The goal is the third pose of both, but
  the poses around it differ, so a path of one is not one of the other, and one
  route leaves three poses for the curve, the least that bends. `OneKind` gives
  the goals, fixed routes, headings and obstacles their freedom while there is
  no topology, and the topology its freedom with one goal and one kind of
  obstacle. Standing before a turn lasts one cycle (`Settle`) and not eight. The
  robot, the plan and the obstacles change between two cycles only.
- A session of the operator is about docking or about driving: the two meet in
  the console only in the emergency stop. Three requests at the docking service
  are one that runs, one inside of it and one after both; the inner loop has one
  round and the deadline two, so that the deadline spans several inner loops.
  Two loops are an old and a new one, beside one single goal at a time. `Few`
  has two of these threads with one message under way on `/joy`, or one of them
  with two, or docking with the one message of an emergency stop; a third thread
  or more messages would repeat what these do. Within these bounds each of the
  conditions of `held` is needed: without any one of them `StaysStopped` is
  violated.
- The voxels of the filter do not depend on each other, so one is looked at.
  `Bounds` gives the buffers their freedom (two scans, three samples waiting,
  either sensor ahead by two) where no voxel is kept, and the voxel its freedom
  with one scan and two samples waiting. One stamp goes back (`MaxJumps`).

`CHECK_DEADLOCK FALSE` stands where the system may stop: a mission program ends
when no request is left (`MaxRequests`) or the process was ended by
`std::terminate`, `move_base` when all goals are over, the console when its
requests and loops are used up, the SLAM node when it is asked to.

The type invariants of `CmdVelArbiter`, `RangerMessenger`, `EdgeCooldown`,
`MoveBase`, `TopoNav` and `OperatorConsole` (with `TagOK`) are proved and not
part of a run; so is `FilterOK`, the part of `LaserMapping.TypeOK` about the
filter. The rest of `LaserMapping.TypeOK` and `LocalPlanner.TypeOK` state the
types for the reader; the proofs rest on the parts of them that they need
(`InStep`, `EndsInTime`, `Closed`, `JobsOK`, `LineTypes`, `BaseOK`).

### Fairness

- Arbiter: time passes; the callback thread serves the timer and messages,
  returns from its waits and the client's thread calls back when the goal is
  done. Nothing is assumed of inputs, tasks or of the chassis (`GoalDone` is
  not fair), so `FinishReturns` rests on the deadline alone.
- Chassis: `WF(Run)`: `spinOnce` serves the waiting callbacks and returns. That
  operations are not restarted for ever is a premise of the properties and not
  an assumption on the code; nothing in it limits restarts. `LockIsReleased`
  also has the premises that the chassis does stop and center, and that no
  operation for another reason takes the place of the one of the fault:
  `RequestStopAndCenter` (line 630) overwrites the reason, and
  `CompleteStopAndCenter` (698) unlocks for that of a fault only. An emergency
  stop or an invalid velocity that arrives while the wheels are being centered
  after a fault thus leaves the vehicle centered, free of errors and locked.
- Missions: the Joy thread finishes a callback it has begun, and a mission takes
  its steps (weak fairness). The monitoring loop may see "no change" again and
  again; `GiveUp` is strongly fair because `blocked_timeout` and `goal_timeout`
  are wall-clock deadlines that such a loop meets in the end. Without
  fairness of the server: it may leave a goal undecided.
- Searches: the loop of the search runs, the wait takes its steps, time passes.
- `move_base`: both threads run and the timer goes off. `CycleBegins` is
  strongly fair: the sensor data is current again and again, without which the
  controller refuses to work for good reason.
- Planners: the control thread and the generation run (weak fairness). The
  planner thread works between the cycles, five times a second, so `Plans` is
  strongly fair where it plans a line: cycles come in between, and a line is
  missing only where the robot or the goal are off the map. Of the search for a
  way round an obstacle nothing is assumed (`PlansALine`): it may fail for ever,
  and a robot that waited when it went over to that search waits on, which
  `StandingEnds` excepts. The cooldown before another try
  (`path_regenerate_cooldown`) is left open in `Need` and over again and again,
  hence its strong fairness.
- Console: each thread runs, the docking handler too. A call of
  `cancel_navigation` is served or given up after its three seconds, and the Joy
  thread finishes a callback it has begun. The main thread of `run_nav` takes up
  a call, finds a route or none (`WaitEnds`), follows the flags through the pause
  loop and ends a cancelled mission. That a goal arrives or fails is not assumed:
  the routes of a loop are fixed ones, on which `run_nav` waits indefinitely
  (1953-1960, 1972-1979) and `move_base` stands without giving up (930, 952-957).
  Nothing is assumed of the operator and of messages either. A stopped loop ends
  by its cancellation alone, and `StoppedLoopEnds` says for which: the service
  has confirmed it, and no other goal is served before that may use it up.
- The SLAM run has no liveness: what happens depends on the sensors.

## What is proved

The modules named `...Proofs` hold proofs that TLAPS checks, for every value of
the constants that satisfies the ASSUMEs of the modules (any number of inputs,
priorities, timeouts, frame counts, graphs, goals, voxels and stamps).

- **Arbiter.** `Inv` joins the type invariant and the safety invariants with two
  facts. `HandoverOwed`: the zeros sent since the last motion and the zero
  cycles still owed together reach `SwitchStopCycles` whenever the last mover is
  not the active input; `HandoverStops` does not follow from the state without
  it, as `zeros` alone says nothing about what is owed. `StillSinceGoal`:
  nothing has moved while a goal is in progress or waited for; it carries
  `CenteredReplyIsCurrent`. Action properties follow from one step out of
  `Inv`, and so does `ArbiterImplementsGate`, with each action mapped to a step
  of `MotionGate` or a stutter. `SafetyOnlyStops` and `HandoverIsStopped` are
  proved and not in a run of their own: their states are parts of `Inv`.
- **Chassis node.** `Inv` adds `Evidence`: in each state of the machine the
  counters are backed by what was seen since the last request, e.g.
  past `wait_still` the vehicle has stood, in `centering` the counter does not
  exceed the frames seen in a row, and without an error set no fault was seen
  since. All restarts re-establish it, and `SuccessMeansCentered` and
  `UnlockOnlyCentered` follow.
- **Temporary blocks.** `Moves` is what both specifications do to the blocks,
  without the promise of a search; `IInv` is proved of it once and inherited by
  both. It joins the types, `BlocksAreOlder` (while a wait lasts, every block
  ends by `CooldownMax` after its start) and `StillBlocked` (the wait sleeps
  only for a block that is there; without it the age of the wait could outgrow
  the longest block). If a wait gives up by time, `BlocksAreOlder` says that no
  block is left; that the search had no way to find comes from its promise, so
  `WaitIsLongEnough` holds of any search that keeps it. `PowerAssumption` states
  that a natural power of a natural number is natural, which the provers do not
  know. `BothDirectionsBlocked` is inductive by itself.
- **The search.** `SearchInv` says of `dijkstraShortestPath`, between two turns of
  its loop, what its locals stand for. `QueueOK`: what is left in the queue is
  neither cheaper than its pose nor than any settled one. `SettledSeen`: every
  edge that was open when the search began has been followed from the settled
  poses. `ParentsOpen` and `ParentsLeadBack`: the parents are joined to their
  children by an edge that is open now and pays for the difference, and lead
  back to the start over settled poses. Blocks only expire while a search runs
  (`Temporary \subseteq asked`), which is why the route found is judged by the
  edges that are open at the end and the routes it is compared with by those
  that were open at the beginning. `SearchKeepsPromise` is the refinement: each
  turn of the loop is a stutter of `EdgeCooldown` and the last one is an end
  that the promise allows, so `GivesUpOnlyIfHopeless` is inherited
  (`PlannerGivesUpLate`). `SearchFindsShortest` adds up the costs along a route.
  Where the argument is an induction along a route of any length, the proofs
  take the first pose that breaks the claim: `LeastNumber` gets it from the
  well-foundedness of finite sets under inclusion. `CostsExist` shows in this way
  that `RouteCost` adds up at all, `CostsAreOne` that it has one value.
- **move_base.** The invariant joins the types, with `index` bounded although
  `runBehavior` increments it without a test, `IdleIsReset` and
  `StandsStillToRecover`, and what makes them inductive: which values the
  flags and the places of the two threads take, and that `runBehavior` is
  reached only with an index that names a behavior (`IndexOK`).
- **Planners.** `PathIsAlwaysOfRoute`: a job, a result that was taken of one and
  the path are each of the topology whose version they carry, unless one came
  between two looks, and what `generate` says of straight segments is what it
  made straight (`GeneratedIsResult`). `PassedGoalsAlwaysGoOn`: of the two looks
  `isGoalReached` takes, the first finds no path the robot can follow for the
  goal; only a control cycle installs one, and a topology takes it away
  (`PassInv`), so the second finds none either. `ReachedGoalsWereThere`: `Seen`
  relates what is kept from cycle to cycle, status and yaw error, to the history
  of the goal, through all switches of the status.
- **Missions.** `IInv` joins the types with the shape of a mission
  (`WellFormed`: a driving mission has a pose of its route as its goal and the
  route ends at the target; a waiting one has the pose it waits at) and, for a
  lone mission of the service, `RouteInv`. A goal that fails blocks an edge of
  the route it was on; `RestOfRouteIsOpen` holds on because the same step leaves
  that route for one that is planned with the block, for a wait or for the end,
  while a re-entry keeps a piece of the old route and has blocked nothing, and
  a block that expires only opens. `PlanIsRoute`, `OpenGoesOn` and
  `FewerBlocksOpen` say so of routes, of later positions on them and of fewer
  blocks. `ReportIsAboutGoal` needs `AboutWaypoints` of the report under way as
  well as of the one that came, and that `waypoints` is the route while one is
  driven. From one step out of `IInv` comes `FixedRouteIsKept`, for any
  mixture of missions, buttons and requests. With Y as a second runner the two
  state properties are not claimed: Y plans nothing and shares the waypoints.
  `CanceledGoalBlocksNothing` is false in general, so `CancelBlocksNothing` says
  for what it holds: one request and no pauses (`Unpaused`), on any graph. Its
  invariant, `CancelIsSeen`, is the order of the stores: while a callback of
  `cancel_navigation` is under way and the mission is not over, the flag is set
  already, so whoever finds the goal ended finds the flag as well; and a mission
  that waits after a failure has a goal that no cancellation can end any more.
- **Console and docking.** `IInv` joins the types with what the threads rely on
  without saying so. `OneCall`: one handler runs at most, the flag and the
  stack agree, and the base stands when none runs; `Aligned`: whatever has been
  counted since the request has been seen since, also the reading that would be
  counted next. With them `AlignedFirst` and `SuccessIsOwn` follow, for any
  number of frames and rounds. `Generations`: a loop thread that has begun and is
  not over is the one shown or has been told to stop, and a signal comes from a
  loop that is over; so a late signal finds another generation (`LoopIsShown`).
  `StaysStopped` is about the end of a stop; `Still` is what a stop establishes
  at once and all that is under way keeps: nothing is, or it is cancelled, or
  the request of the pause is on the way or has come (`Pausing`). The last takes
  that no mission can leave the pause loop, or is behind it, where it would
  clear that request; a stop that is pressed in such a moment is what `Resuming`
  excepts. `InLine` (every call is waited for by its own thread) makes the
  mission that is served the one that is under way.
- **SLAM node.** `Closed`: a located robot hears no pose. `InStep`: as long as
  the stamps of the lidar have not gone back, the two lidar buffers hold the
  same scans, and so does what was taken from them, and there is no cloud before
  the IMU is initialised. From them come `LocatedForGood` and the first half of
  `FramesAreOfOneScan`. `InTime` is for the second half: as long as the stamps of
  the IMU have not gone back, the samples that wait are in order, and none is
  earlier than what the state is of, the last sample used or the end of the last
  scan, whichever is later. `SamplesCut` says that what goes with a scan is the
  beginning of the buffer and that what stays is not earlier than its end;
  `CarriedIs` that the sum over the samples comes to the difference of the last
  and the first, by the first sample for which it would not. The stamps of the
  lidar do not matter for it. `StaticAsObserved` is about histories of any length. `FilterInv` says, for each
  voxel, what its entry stands for in its history (`AsSeen`): no entry, if nothing
  in the history could still count (`Absent`); a candidate counts the hits since
  the first keyframe that can count, with the stamps of the first and the last
  (`CountsFrom`); a confirmed one was gained in some keyframe and not lost since,
  and its counter is the length of the run of rays at the end (`RunOf`). The
  lemmas relate a history to the one that is longer by a keyframe (`Longer`):
  what is `Alive`, gained or lost in it (`AliveNext`, `GainedSame`, `LostByFree`).
  A candidate that reaches its count too late because of an earlier start that
  was dropped, or a run of rays that is interrupted by a keyframe which saw
  nothing, are the cases the definitions of `CountsFrom` and `RunOf` are made
  for. Stamps that go back make no keyframe, so those of a history are in order.

The inductive invariants were first checked by TLC on the instances of the runs.
For the docking service the attempt showed that the model let a request be
handled a second time while it was served; a request is now `"served"` then.

## What is only model-checked

- Liveness, as fairness and ENABLED are out of the prover's reach:
  `SilenceStopsAndCenters`, `FinishReturns`, `GoalsEnd`, `LockIsReleased`,
  `WaitEnds`, `CancelEndsMission`, `MissionEnds`, `CancelEnds`, `GoalIsPlanned`,
  `LostTagAborts`, `StoppedLoopEnds`, `StandingEnds`.
- `CanceledGoalBlocksNothing` with more than one request, with pauses or with Y,
  where it does not hold: with two requests the late store of a cancellation ends
  the first goal of the next one (see the abstractions), and pauses refute it
  (`topo_pause`).
- The refuted statements, which are matters of one counterexample.

## Findings

1. `topo_pause`: a `pause()` whose stores fall between the end of the previous
   pause loop and the store that clears the re-entry request is lost, its
   cancellation is taken for a failed goal and the edge is blocked, although a
   comment says that it is handled as a re-entry.
2. `move_base_stale`: the planner thread installs its plan without asking
   whether the goal is still the one it planned for. On a fixed route, or
   without periodic planning, the robot follows the plan of the goal before,
   and the new goal is reported as reached where the old one lies.

Besides these the models contain behaviour of the code that no document
contradicts; it appears as a premise or an exception of a property and is
described there:

- After a lidar stamp has gone back, `lidar_buffer_` is cleared and
  `time_buffer_` is not: every later scan carries the time of an earlier one. A
  scan that no IMU sample came with is replaced by the cloud of the scan before
  (`FrameIsOfOneScan`).
- An emergency stop does not always hold, although the console says after its
  release that the robot stays paused (`aNAV_ranger.py:3082`). Its pause is lost
  if it comes while `run_nav` resumes from an earlier one: pause, resume, stop,
  and a mission that leaves the pause loop between the stores clears the request
  (`run_nav.cpp:1790`), sends its goal again and drives with `pause_robot` set.
  A second goal that waits at `run_nav`, or docking under way, goes on after the
  release, and the button that adds a point resumes a paused robot. These are
  the exceptions of `StaysStopped`.
- A stopped loop may run on: its cancellation is used up by another goal that is
  served first, or is not confirmed in time and replaced by a pause, in which a
  mission waits until it is resumed (`StoppedLoopEnds`).
- A tag that is seen for a moment now and then holds a docking request for ever
  (`LostTagAborts`).
- A goal that takes over and is refused leaves `move_base` without a reset
  (`IdleIsReset`); an oscillation stops the base and lets the same cycle
  publish a command (`StandsStillToRecover`).
- A topology that arrives between two looks at it makes the path of the route
  before count as that of the new one: a job gets its poses before its version,
  and the version is compared before the path is installed
  (`PathIsOfRoute`, `torn`).
- The first cycle of a goal is judged by the yaw error of the goal before: a
  second goal in the same place ends at once, however the robot is turned
  (`ReachedWasThere`). The same pose sent again is no other goal: with status 3
  it is reported as reached although the robot was moved away meanwhile
  (`dwa_planner_ros.cpp:1217`).
- A reference path that could not be made for a topology stops the robot in
  every cycle until the next topology or until `move_base` gives up: the robot
  does not wait, but does not go on either (`StandingEnds`). Where it waits when
  the search for a way round an obstacle begins, it waits until that succeeds,
  also when the obstacle is gone.
- A fixed route is planned once. If that plan is one to wait on, because an
  obstacle stood on the line when it was made, nothing makes another one and the
  robot waits when the obstacle is long gone (`StandingEnds`).
- Commands of a finished task that wait in the queue while `finish_motion` blocks
  the callback thread, for up to 7 s, are handled after the suppression (0.5 s)
  has run out, and drive the vehicle; `config/cmd_vel_arbiter.yaml:11` speaks of
  queued commands. `FinishedSourceIsMute` is about the period itself.
- A cancellation that finds nothing to cancel, or a goal without a route
  (`run_nav.cpp:224`), leaves `cancel_requested_` set, and the next request is
  rejected for it. Y after an arrival starts a mission on top of a running one
  and ends the process (`run_nav.cpp:2225`).
- A block that expires between the last search of a wait and the question
  whether one is left makes the wait give up although the way has just opened
  (`GivesUpOnlyIfHopeless`).

## Abstractions

- A turn of the arbiter's timer is one step, although `waitForServer` may block
  it for 0.2 s. Velocities have three values; clamping matters only to inputs
  whose limits are zero.
- A cancelled goal is over at once at the action client; the local planner hears
  of it later. The topology path reaches the local planner at once.
- Costs and times are integers. The search pushes only the cheapest of parallel
  edges; a dearer one that comes first leaves an outdated pair in the real
  queue, which it skips.
- Plan-only requests and invalid pose numbers change no state and are left out;
  `stop_and_quit` is left out because nothing sets it.
- `CanceledGoalBlocksNothing` passes for one mission and one kind of button;
  a cancel callback that is descheduled across the end of a mission and the
  start of the next could end the goal of the latter, which the module contains
  and that run's single request leaves out. `ReportIsAboutGoal` likewise: a
  report of one mission that arrives in the next is in the module, and not in
  that run.
- `move_base`: the services `make_plan` and `clear_costmaps`, dynamic
  reconfiguration and the end of the node are left out; patience and retries are
  free choices.
- Planners: what a plan is marked with and where the robot may be found depend on
  the map and are any answer. The velocity along a path or a line, its index on
  the path and the sampling of velocities around an obstacle come down to
  whether the robot drives, turns or stands. The topology is taken to be
  published once; the code drops a message that repeats the last one.
- Console: a mission that drives, retries, waits or has just been sent is in one
  place (`"driving"`), where it looks at the flags sooner or later; `TopoNav` has
  these apart. A mission may arrive with a pause stored that it has not seen.
  The emergency stop's own velocity on `/cmd_vel/safety` belongs to the
  arbiter. The end of processes by other buttons is left out.
- SLAM: `time_sync_en` is off, the filter of moving objects on, clouds are not
  saved in parts (`pcd_save_interval`), as configured. A lidar that restarts is
  a stamp that goes back. The local map and the tiles of a split map are caches
  of points and left out; a tile whose points the local map has dropped for
  want of room is not loaded again while it counts as held.

## Not modelled, and the plan

- The search of `myglobal_planner` around obstacles, the sampling of velocities
  and the optimisation of curves in `jgl_dwa_local_planner`, the Kalman filter
  with its toolkit (`IKFoM`), the local map (`ivox3d`) and the filters of points
  are numeric: what can go wrong in them are values, and a model that leaves the
  values out says nothing of them. They make up most of the lines no module
  covers.
- `livox_ros_driver2` and `ugv_sdk` are the manufacturers' code; what is shared
  without a lock there is a matter of the memory model of the build.
- The joystick, the panel, the other scripts, `obstacle_detection`, `pcd2pgm` and
  `hardware` convert one message or file into another.

What would come next: the arbiter composed with the chassis node through the
action and `/cmd_vel` (the heartbeat during `finish_motion` against the
watchdog, which reason survives); `TopoNav` with `MoveBase` in the place of its
external server, and with missions of both kinds at once; the swaps of the plan
buffers against a planner that installs twice in one cycle; `Plans` of `TopoNav`
related to the route that `DijkstraPlanner` finds.
