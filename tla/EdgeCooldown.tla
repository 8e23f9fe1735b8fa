---------------------------- MODULE EdgeCooldown ----------------------------
(***************************************************************************)
(* The temporary blocks of topology edges and the wait for one of them to  *)
(* expire (run_nav.cpp 1316-1386, 1469-1538).  A failed goal blocks the    *)
(* edge that led to it, longer after every failure in a row; a reached     *)
(* goal clears the edge.  When nothing is left to drive on, the mission    *)
(* stops and waits for a block to expire, up to blocked_wait_timeout.      *)
(*                                                                         *)
(* A search for a route looks at the clock again at every edge, so blocks  *)
(* expire while it runs.  Here it is one step that promises no more than   *)
(* that allows: a route it finds is open when it ends, and it finds none   *)
(* only if there was none when it began.  DijkstraPlanner has the search   *)
(* of the code and keeps this promise.                                     *)
(*                                                                         *)
(* Time is counted in ticks.  blocked_until is kept as left, the ticks to  *)
(* it: zero once it has passed, or was reset.  A tick is the longest sleep *)
(* of the wait loop.                                                       *)
(***************************************************************************)
EXTENDS TopoGraph

CONSTANTS
  Graph,                  \* the edges loaded from the map
  CooldownInitial,        \* blocked_cooldown_initial_
  CooldownMax,            \* blocked_cooldown_max_
  BackoffFactor,          \* blocked_backoff_factor_
  BlockedWaitTimeout,     \* blocked_wait_timeout_
  BlockBidirectional,     \* block_bidirectional_
  Trips,                  \* bound: the starts and targets of searches
  Driven,                 \* bound: the legs missions drive and fail on
  MaxFailures             \* bound: failures of one edge in a row

(* What the constructor makes of the parameters (lines 114-117). *)
ASSUME GraphAssumption == Graph \subseteq TopoEdges
ASSUME DrivenAssumption ==
  Trips \subseteq Pose \X Pose /\ Driven \subseteq Pose \X Pose
ASSUME CooldownAssumption ==
  /\ CooldownInitial \in Nat \ {0} /\ CooldownMax \in Nat
  /\ CooldownInitial <= CooldownMax
  /\ BackoffFactor \in Nat \ {0}
  /\ BlockedWaitTimeout \in Nat
  /\ MaxFailures \in Nat
ASSUME BidirectionalAssumption == BlockBidirectional \in BOOLEAN
(* A fact of arithmetic that the provers do not know. *)
ASSUME PowerAssumption ==
  \A n \in 0 .. MaxFailures : BackoffFactor ^ n \in Nat

VARIABLES
  left,       \* ticks until the block of an edge expires
  failures,   \* failure_count of an edge
  pc,         \* "drive"; "plan", a search; or in waitForTemporaryPath
              \* "poll", a search, "check" after it, and "sleep"
  waited,     \* ticks since wait_start
  trip,       \* the start and the target of the last search
  fixed,      \* fixed_route of the last search
  asked,      \* the temporary blocks when the last search began
  found       \* how it ended, "path" or "none"; "open" until then

vars == <<left, failures, pc, waited, trip, fixed, asked, found>>

BlocksOK ==
  /\ left \in [Graph -> 0 .. CooldownMax]
  /\ failures \in [Graph -> 0 .. MaxFailures]
  /\ asked \subseteq Graph
WaitOK ==
  /\ pc \in {"drive", "plan", "poll", "check", "sleep"}
  /\ waited \in Nat
  /\ trip \in Pose \X Pose
  /\ found \in {"open", "path", "none"}
TypeOK == BlocksOK /\ WaitOK /\ fixed \in BOOLEAN

Init ==
  /\ left = [e \in Graph |-> 0] /\ failures = [e \in Graph |-> 0]
  /\ pc = "drive" /\ waited = 0
  /\ trip = <<0, 0>> /\ fixed = FALSE /\ asked = {} /\ found = "open"

Lasts(e) == left[e] > 0
Temporary == {e \in Graph : ~e.configured /\ Lasts(e)}

-----------------------------------------------------------------------------
(* Both directions, in the usual configuration. *)
EdgesOf(from, to) ==
  Between(Graph, from, to) \cup
  (IF BlockBidirectional THEN Between(Graph, to, from) ELSE {})

Cooldown(count) ==
  LET backoff == CooldownInitial * BackoffFactor ^ (count - 1)
  IN  IF backoff <= CooldownMax THEN backoff ELSE CooldownMax

Blockable(from, to) == {e \in EdgesOf(from, to) : ~e.configured}
BlockEdge(from, to) ==
  LET hit == Blockable(from, to)
  IN  /\ pc = "drive"
      /\ \A e \in hit : failures[e] < MaxFailures
      /\ failures' = [e \in Graph |-> IF e \in hit THEN failures[e] + 1 ELSE failures[e]]
      /\ left' = [e \in Graph |-> IF e \in hit THEN Cooldown(failures'[e]) ELSE left[e]]
      /\ UNCHANGED <<pc, waited, trip, fixed, asked, found>>

(* mutant: the direction driven is cleared, the other is not *)
ClearedOneWay(from, to) == Between(Graph, from, to)
Cleared(from, to) == EdgesOf(from, to)
MarkEdgeSuccess(from, to) ==
  LET hit == Cleared(from, to)
  IN  /\ pc = "drive"
      /\ failures' = [e \in Graph |-> IF e \in hit THEN 0 ELSE failures[e]]
      /\ left' = [e \in Graph |-> IF e \in hit THEN 0 ELSE left[e]]
      /\ UNCHANGED <<pc, waited, trip, fixed, asked, found>>

-----------------------------------------------------------------------------
(* What becomes of a search: the caller takes the route, gives up or waits,*)
(* and the wait looks whether a block is left before it gives up or sleeps.*)
Searching == pc \in {"plan", "poll"}
UnchangedBlocks == UNCHANGED <<left, failures>>

Plan(ends, fix) ==
  /\ pc = "drive" /\ pc' = "plan"
  /\ trip' = ends /\ fixed' = fix /\ asked' = Temporary /\ found' = "open"
  /\ UnchangedBlocks /\ UNCHANGED waited

TakeRoute ==
  /\ Searching
  /\ pc' = "drive" /\ found' = "path"
  /\ UnchangedBlocks /\ UNCHANGED <<waited, trip, fixed, asked>>

(* A fixed route, a request that is not driven and the first plan of a     *)
(* mission without a route do not wait; nor does anyone without timeout.   *)
PlanFails ==
  /\ pc = "plan"
  /\ pc' = "drive" /\ found' = "none"
  /\ UnchangedBlocks /\ UNCHANGED <<waited, trip, fixed, asked>>
StartWait ==
  /\ pc = "plan" /\ ~fixed /\ BlockedWaitTimeout > 0
  /\ pc' = "poll" /\ waited' = 0 /\ asked' = Temporary
  /\ UnchangedBlocks /\ UNCHANGED <<trip, fixed, found>>
PollFails ==
  /\ pc = "poll"
  /\ pc' = "check"
  /\ UnchangedBlocks /\ UNCHANGED <<waited, trip, fixed, asked, found>>
NoRoute == PlanFails \/ StartWait \/ PollFails

(* nextTemporaryUnblockDelay is finite. *)
SomeBlockWillExpire == Temporary # {}

(* mutant: the timeout is compared one tick too early *)
CheckEarly ==
  /\ pc = "check"
  /\ IF ~SomeBlockWillExpire \/ waited + 1 >= BlockedWaitTimeout
     THEN pc' = "drive" /\ found' = "none"
     ELSE pc' = "sleep" /\ UNCHANGED found
  /\ UnchangedBlocks /\ UNCHANGED <<waited, trip, fixed, asked>>
(* mutant: wait_start is taken anew in every iteration, and nobody asks    *)
(* whether a block can expire *)
CheckRestarts ==
  /\ pc = "check" /\ pc' = "sleep" /\ waited' = 0
  /\ UnchangedBlocks /\ UNCHANGED <<trip, fixed, asked, found>>
Check ==
  /\ pc = "check"
  /\ IF ~SomeBlockWillExpire \/ waited >= BlockedWaitTimeout
     THEN pc' = "drive" /\ found' = "none"
     ELSE pc' = "sleep" /\ UNCHANGED found
  /\ UnchangedBlocks /\ UNCHANGED <<waited, trip, fixed, asked>>

(* Time passes, also during a search, which matters as long as a block is  *)
(* left.  After a sleep the wait searches again.                           *)
Tick ==
  /\ pc \in {"plan", "poll", "check"} => Temporary # {}
  /\ left' = [e \in Graph |-> IF left[e] > 0 THEN left[e] - 1 ELSE 0]
  /\ waited' = IF pc \in {"poll", "check", "sleep"} THEN waited + 1 ELSE waited
  /\ IF pc = "sleep" THEN pc' = "poll" /\ asked' = Temporary'
                     ELSE UNCHANGED <<pc, asked>>
  /\ UNCHANGED <<failures, trip, fixed, found>>

Drive ==
  \/ \E leg \in Driven : BlockEdge(leg[1], leg[2]) \/ MarkEdgeSuccess(leg[1], leg[2])
  \/ \E ends \in Trips, fix \in BOOLEAN : Plan(ends, fix)

-----------------------------------------------------------------------------
(* The promise of a search. *)
HasWay(temporary) ==
  trip[1] = trip[2] \/
  Routes(OpenEdges(Graph, temporary, fixed), trip[1], trip[2]) # {}

SearchSucceeds == TakeRoute /\ HasWay(Temporary)
SearchFails == NoRoute /\ ~HasWay(asked)

Next == Drive \/ SearchSucceeds \/ SearchFails \/ Check \/ Tick

Spec == Init /\ [][Next]_vars
-----------------------------------------------------------------------------
Reverses(e, f) == e.from = f.to /\ e.to = f.from

(* An edge and its reverse fail, expire and recover together: the robot is *)
(* never sent back through an aisle it has just found blocked because the  *)
(* opposite direction was missed.                                          *)
BothDirectionsBlocked ==
  BlockBidirectional =>
    \A e, f \in Graph :
      Reverses(e, f) /\ ~e.configured /\ ~f.configured =>
        left[e] = left[f] /\ failures[e] = failures[f]

WaitIsLong == BlockedWaitTimeout >= CooldownMax

(* A wait gives up only after a search that had no way to find and with no *)
(* block left to wait for, as long as blocked_wait_timeout is not below    *)
(* blocked_cooldown_max (3navlocations.launch: 180 s and 120 s).           *)
GivesUpOnlyIfHopeless ==
  [][pc = "check" /\ pc' = "drive" /\ WaitIsLong =>
       Temporary = {} /\ ~HasWay(asked)]_vars

(* While a wait lasts, every block is over by CooldownMax ticks after its  *)
(* start: what makes the property above inductive.                         *)
BlocksAreOlder ==
  pc \in {"poll", "check", "sleep"} =>
    \A e \in Graph : left[e] + waited <= CooldownMax
=============================================================================
