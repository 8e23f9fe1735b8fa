--------------------------- MODULE MCLaserMapping ---------------------------
EXTENDS LaserMapping
(* The voxels are independent of each other in the filter: one is looked at, *)
(* and a scan that misses it hits the others.                                *)
(* The buffers and ImuProcess are the same code in both programs.  They get  *)
(* their whole freedom where no voxels are kept, for a shorter time; where   *)
(* the filter runs, one scan waits at a time, with two samples at most.      *)
Bounds ==
  IF program = "location" THEN lastLidar < MaxTime
  ELSE /\ Len(timeBuffer) <= 1 /\ Len(imuBuffer) <= 2
       /\ \A i \in DOMAIN lidarBuffer : lidarBuffer[i].pts # "none"
=============================================================================
