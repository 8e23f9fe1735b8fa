------------------------ MODULE TrajectoryGenerator -------------------------
(***************************************************************************)
(* What TrajectoryGenerator::generate makes of a route with n poses: which *)
(* curves are tried in which order, and which segments are straight in the *)
(* end.  Segment i runs from pose i to the next, counted from 0.  Whether a *)
(* curve is free of obstacles, near enough to the route and not too bent   *)
(* (pathChecksPass) depends on the map: every outcome is possible.         *)
(***************************************************************************)
EXTENDS Integers, FiniteSets

(* A path: its mode ("curve" if it is one all along, by either method),    *)
(* the segments that are straight, and the segments the generator says are *)
(* straight (fallback).                                                    *)
Path(m, s) == [ok |-> TRUE, mode |-> m, straight |-> s, fallback |-> s]
NoResult == [ok |-> FALSE, mode |-> "invalid", straight |-> {}, fallback |-> {}]

(* Here and below m is the number of poses of the curve itself. *)
CurveSegments(m) == 0 .. m - 2
Polyline(m) == Path("polyline", CurveSegments(m))

(* generateBsplineReference, of the whole. *)
BsplinePaths(m) == IF m >= 3 THEN {Path("curve", {})} ELSE {}

(* findBsplineBreakpoints: the ends, and at least one pose between them. *)
Breakpoints(m) ==
  {b \in SUBSET (0 .. m - 1) : {0, m - 1} \subseteq b /\ Cardinality(b) > 2}
Chunks(b) == {c \in b \X b : c[1] < c[2] /\ b \cap (c[1] + 1 .. c[2] - 1) = {}}

(* generateChunkedBsplineReference: a chunk becomes a curve or straight; a *)
(* chunk of one segment is always straight.                                *)
ChunkedPaths(m) ==
  {LET s == UNION {c[1] .. c[2] - 1 : c \in lines}
   IN IF s = CurveSegments(m) THEN Polyline(m) ELSE Path("hybrid", s) :
     lines \in UNION {{l \in SUBSET Chunks(b) : \A c \in Chunks(b) \ l : c[2] > c[1] + 1} :
                        b \in Breakpoints(m)}}

(* hybridPath, if it is not straight everywhere. *)
HybridPaths(m) ==
  {Path(IF s = {} THEN "curve" ELSE "hybrid", s) :
     s \in SUBSET CurveSegments(m) \ {CurveSegments(m)}}

(* generateCubicReference *)
CubicPaths(m) ==
  {Polyline(m)} \cup (IF m < 3 THEN {} ELSE {Path("curve", {})} \cup HybridPaths(m))

(* referenceCurveWaypoints: the curve leaves out the first pose and the last. *)
CurvePoses(n) == IF n < 4 THEN 0 ELSE n - 2

(* expandFallbackSegmentsForFullTopology, and the segments as they are on  *)
(* the route.                                                              *)
Expanded(segments) == {i + 1 : i \in segments}

(* generate *)
Generated(n) ==
  {NoResult} \cup
  IF CurvePoses(n) < 2 THEN {}
  ELSE {[p EXCEPT !.straight = {i + 1 : i \in @}, !.fallback = Expanded(@)] :
          p \in BsplinePaths(CurvePoses(n)) \cup ChunkedPaths(CurvePoses(n))
                  \cup CubicPaths(CurvePoses(n))}
=============================================================================
