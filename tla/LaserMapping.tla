---------------------------- MODULE LaserMapping ----------------------------
(***************************************************************************)
(* laser_mapping.cc and imu_processing.hpp of LIO-Lite, as the programs    *)
(* run_mapping_online and run_location_online use them: one thread calls   *)
(* ros::spinOnce, whose callbacks fill the buffers of the two sensors, and *)
(* then Run or Run_location, which takes a scan with its IMU samples from  *)
(* them, predicts the state to the end of the scan, matches the scan and   *)
(* puts it in the map.                                                     *)
(*                                                                         *)
(* The numbers of the filter and of the map are left out.  A scan is its   *)
(* stamp and whether it has no point, too few or enough; what is kept of   *)
(* the filter is the time its state is of.                                 *)
(***************************************************************************)
EXTENDS StaticMapFilter, SequencesExt

CONSTANTS
  Programs,        \* those of "mapping" and "location" that are looked at
  ScanTime,        \* how long a scan takes
  MaxIniCount,     \* MAX_INI_COUNT, samples of the initialisation
  MinConfirmed,    \* min_confirmed_voxels
  Steps, ImuSteps, \* bounds: from one stamp to the next of either sensor,
  MaxTime,         \* the last stamp,
  MaxSkew,         \* how far one sensor is ahead of the other,
  MaxWaiting,      \* scans that wait,
  MaxSamples,      \* samples that wait
  MaxJumps         \* and sensors whose stamps go back

\* The time offset of the last point of a scan.
ASSUME ScanAssumption == ScanTime \in Nat

VARIABLES
  program,      \* which of the two runs
  running,      \* ~FLAG_EXIT
  lidarBuffer, timeBuffer, lastLidar,   \* lidar_buffer_, time_buffer_, last_timestamp_lidar_
  imuBuffer, lastImu,                   \* imu_buffer_ as stamps, last_timestamp_imu_
  measures,     \* lidar_pushed_, and of measures_ lidar_, lidar_bag_time_ and
                \* lidar_end_time_; nothing while no scan is pushed
  meanScan,     \* lidar_mean_scantime_
  imu,          \* init_iter_num_, imu_need_init_, the stamp of last_imu_,
                \* last_lidar_end_time_, and the time the state of kf_ is of
  undistorted,  \* scan_undistort_
  firstScan,    \* flg_first_scan_
  pose,         \* flg_location_inited_, flg_get_init_guess_, sub_init_pose_
                \* still subscribed, global_map_ loaded
  raw, saved,   \* pcl_wait_save_ and GlobalMap.pcd as voxels
  jumped        \* for the property: the sensors whose stamps went back

sensorVars == <<lidarBuffer, timeBuffer, lastLidar, imuBuffer, lastImu, jumped>>
mapVars == <<filterVars, raw, saved>>
vars == <<program, running, sensorVars, measures, meanScan, imu, undistorted,
          firstScan, pose, mapVars>>

Scan == [at : Nat, pts : {"none", "few", "full"}]
NoScan == [at |-> 0, pts |-> "none"]
NoMeasures == [pushed |-> FALSE, scan |-> NoScan, bag |-> 0, end |-> 0]
NotSaved == {"no file"}     \* GlobalMap.pcd has not been written

TypeOK ==
  /\ FilterOK
  /\ program \in Programs /\ running \in BOOLEAN
  /\ lidarBuffer \in Seq(Scan) /\ timeBuffer \in Seq(Nat) /\ lastLidar \in Nat
  /\ imuBuffer \in Seq(Nat) /\ lastImu \in Int
  /\ measures \in [pushed : BOOLEAN, scan : Scan, bag : Nat, end : Nat]
  /\ meanScan \in {0, ScanTime}
  /\ imu \in [iter : Nat, init : BOOLEAN, used : Nat, scanEnd : Nat, time : Nat]
  /\ undistorted \in Scan /\ firstScan \in BOOLEAN
  /\ pose \in [located : BOOLEAN, guess : BOOLEAN, listens : BOOLEAN, map : BOOLEAN]
  /\ raw \subseteq Voxels /\ (saved = NotSaved \/ saved \subseteq Voxels)
  /\ jumped \subseteq {"lidar", "imu"}

Init ==
  /\ FilterInit
  /\ program \in Programs /\ running = TRUE
  /\ lidarBuffer = <<>> /\ timeBuffer = <<>> /\ lastLidar = 0
  /\ imuBuffer = <<>> /\ lastImu = -1
  /\ measures = NoMeasures
  /\ meanScan = 0
  /\ imu = [iter |-> 1, init |-> TRUE, used |-> 0, scanEnd |-> 0, time |-> 0]
  /\ undistorted = NoScan /\ firstScan = TRUE
  /\ pose = [located |-> FALSE, guess |-> FALSE, listens |-> program = "location",
             map |-> program = "location"]
  /\ raw = {} /\ saved = NotSaved /\ jumped = {}

-----------------------------------------------------------------------------
(* The callbacks of ros::spinOnce.                                         *)

\* Bounds on the stamps: they grow by a step, or go back by one.
StampAfter(last, steps, t) ==
  \/ t - last \in steps /\ t <= MaxTime /\ t <= Min({lastLidar, lastImu}) + MaxSkew
  \/ last - t \in steps /\ Cardinality(jumped) < MaxJumps
Jump(sensor, last, t) == jumped' = IF t < last THEN jumped \cup {sensor} ELSE jumped

(* LivoxPCLCallBack, StandardPCLCallBack.  When the stamps go back the scans
   are dropped, their times are not. *)
LidarArrives(t, pts) ==
  /\ running /\ StampAfter(lastLidar, Steps, t) /\ Len(timeBuffer) < MaxWaiting
  /\ lidarBuffer' = Append(IF t < lastLidar THEN <<>> ELSE lidarBuffer,
                           [at |-> t, pts |-> pts])
  /\ timeBuffer' = Append(timeBuffer, t)
  /\ lastLidar' = t
  /\ Jump("lidar", lastLidar, t)
  /\ UNCHANGED <<program, running, imuBuffer, lastImu, measures, meanScan, imu,
                 undistorted, firstScan, pose, mapVars>>

(* IMUCallBack. *)
ImuArrives(t) ==
  /\ running /\ StampAfter(lastImu, ImuSteps, t) /\ Len(imuBuffer) < MaxSamples
  /\ imuBuffer' = Append(IF t < lastImu THEN <<>> ELSE imuBuffer, t)
  /\ lastImu' = t
  /\ Jump("imu", lastImu, t)
  /\ UNCHANGED <<program, running, lidarBuffer, timeBuffer, lastLidar, measures, meanScan,
                 imu, undistorted, firstScan, pose, mapVars>>

(* initialpose_callback, while sub_init_pose_ is subscribed.  It takes back
   that the robot is located before it looks whether it is. *)
PoseArrives ==
  /\ running /\ pose.listens
  /\ pose' = [pose EXCEPT !.located = FALSE, !.guess = TRUE]
  /\ UNCHANGED <<program, running, sensorVars, measures, meanScan, imu, undistorted,
                 firstScan, mapVars>>

-----------------------------------------------------------------------------
(* SyncPackages.                                                           *)

\* The end of a scan that has no point is a guess from the scans before.
EndOf(scan, bag) == bag + (IF scan.pts = "none" THEN meanScan ELSE ScanTime)

\* measures_ with a scan in it, the one waiting for its samples or the next.
Pushed ==
  IF measures.pushed THEN measures
  ELSE [pushed |-> TRUE, scan |-> Head(lidarBuffer), bag |-> Head(timeBuffer),
        end |-> EndOf(Head(lidarBuffer), Head(timeBuffer))]
MeanScan == IF ~measures.pushed /\ Pushed.scan.pts # "none" THEN ScanTime ELSE meanScan

BothWait == running /\ lidarBuffer # <<>> /\ imuBuffer # <<>>

\* Run finds a scan and no IMU sample that is as late as its end.
ScanWaits ==
  /\ BothWait /\ ~measures.pushed /\ lastImu < Pushed.end
  /\ measures' = Pushed /\ meanScan' = MeanScan
  /\ UNCHANGED <<program, running, sensorVars, imu, undistorted, firstScan, pose, mapVars>>

\* How many samples go with the scan: those before its end, and one at it.
SamplesFor(end) ==
  Cardinality({i \in DOMAIN imuBuffer :
    imuBuffer[1] < end /\ imuBuffer[i] <= end /\ \A k \in 1 .. i - 1 : imuBuffer[k] < end})

\* The scan is taken from the buffers with its samples.
TakeScan(n) ==
  /\ BothWait /\ lastImu >= Pushed.end
  /\ measures' = NoMeasures /\ meanScan' = MeanScan
  /\ lidarBuffer' = Tail(lidarBuffer) /\ timeBuffer' = Tail(timeBuffer)
  /\ imuBuffer' = SubSeq(imuBuffer, n + 1, Len(imuBuffer))
  /\ UNCHANGED <<program, running, lastLidar, lastImu, jumped>>

-----------------------------------------------------------------------------
(* ImuProcess.                                                             *)

\* mutant: the time before the end of the last scan is counted again
PropagatedFromSample(samples, end) == end - imu.used
\* How far a sample carries the state: from the end of the scan before, or
\* from the sample before it.
Predicted(s, i) ==
  IF s[i] < imu.scanEnd THEN 0
  ELSE s[i] - (IF s[i - 1] < imu.scanEnd THEN imu.scanEnd ELSE s[i - 1])
Carried(s) ==
  LET to[i \in 1 .. Len(s)] == IF i = 1 THEN 0 ELSE to[i - 1] + Predicted(s, i)
  IN  to[Len(s)]
\* Over all samples of a scan, and from the last one to the end of the scan.
Propagated(samples, end) ==
  LET s == <<imu.used>> \o samples
      rest == end - Last(s)
  IN  Carried(s) + (IF rest > 0 THEN rest ELSE -rest)

UndistortPcl(samples, end, scan) ==
  /\ imu' = [imu EXCEPT !.used = Last(samples), !.scanEnd = end,
                        !.time = @ + Propagated(samples, end)]
  /\ undistorted' = scan

\* The state is set anew from each group of samples until there are enough.
IMUInit(samples) ==
  /\ imu' = [imu EXCEPT !.iter = @ + Len(samples), !.used = Last(samples),
                        !.init = imu.iter + Len(samples) <= MaxIniCount,
                        !.time = Last(samples)]
  /\ UNCHANGED undistorted

(* Process.  Without samples it returns, and scan_undistort_ stays what it
   was. *)
Process(samples, end, scan) ==
  IF samples = <<>> THEN UNCHANGED <<imu, undistorted>>
  ELSE IF imu.init THEN IMUInit(samples) ELSE UndistortPcl(samples, end, scan)

-----------------------------------------------------------------------------
(* Run and Run_location.                                                   *)

TakeAndProcess ==
  LET n == SamplesFor(Pushed.end)
  IN TakeScan(n) /\ Process(SubSeq(imuBuffer, 1, n), Pushed.end, Pushed.scan)

\* A scan without points, one with too few to match, or one that comes while
\* the program waits for an initial pose.
SkipScan ==
  /\ TakeAndProcess
  /\ \/ undistorted'.pts = "none"
     \/ /\ ~firstScan
        /\ IF program = "location" /\ ~pose.located THEN ~pose.guess
           ELSE undistorted'.pts = "few"
  /\ UNCHANGED <<firstScan, pose, mapVars>>

\* The first scan starts the map; when locating it is only passed over.
FirstScan ==
  /\ TakeAndProcess /\ undistorted'.pts # "none" /\ firstScan
  /\ firstScan' = FALSE
  /\ UNCHANGED <<pose, mapVars>>

\* What is kept for the map is added to, and the filter gets the scan.
PublishFrameWorld(hit, through) ==
  /\ raw' = raw \cup hit
  /\ ProcessFrame(hit, through, Pushed.end)

(* Run: match, add to the local map, publish. *)
MapScan(hit, through) ==
  /\ program = "mapping" /\ TakeAndProcess /\ undistorted'.pts = "full" /\ ~firstScan
  /\ PublishFrameWorld(hit, through)
  /\ UNCHANGED <<firstScan, pose, saved>>

\* mutant: poses are heard after the robot has been located
InitialPoseListens(fits) ==
  pose' = IF fits THEN [located |-> TRUE, guess |-> TRUE, listens |-> TRUE, map |-> FALSE]
          ELSE [pose EXCEPT !.located = FALSE, !.guess = FALSE]
(* initialpose, which aligns the scan with the whole map.  When it fits the
   map is given up and no other pose is heard; when not, a new guess is
   waited for. *)
InitialPose(fits) ==
  pose' = IF fits THEN [located |-> TRUE, guess |-> TRUE, listens |-> FALSE, map |-> FALSE]
          ELSE [pose EXCEPT !.located = FALSE, !.guess = FALSE]

AlignScan(fits) ==
  /\ program = "location" /\ ~pose.located /\ pose.guess
  /\ TakeAndProcess /\ undistorted'.pts # "none" /\ ~firstScan
  /\ InitialPose(fits)
  /\ UNCHANGED <<firstScan, mapVars>>

LocateScan ==
  /\ program = "location" /\ pose.located
  /\ TakeAndProcess /\ undistorted'.pts = "full" /\ ~firstScan
  /\ UNCHANGED <<firstScan, pose, filterVars, raw, saved>>

(* SigHandle, and Finish after the loop.  The filtered map is saved if enough
   has been seen and confirmed and it has points and features; else the raw
   one.  Nothing is saved when locating. *)
Finish(features) ==
  LET valid == /\ keyframeId >= 3 /\ Cardinality(Confirmed) >= MinConfirmed
               /\ StaticPart(raw) # {} /\ features
  IN /\ running /\ running' = FALSE
     /\ saved' = IF program = "location" THEN saved
                 ELSE IF valid THEN StaticPart(raw) ELSE raw
     /\ UNCHANGED <<program, sensorVars, measures, meanScan, imu, undistorted, firstScan,
                    pose, filterVars, raw>>

\* The steps that match a scan.
Matches ==
  \/ \E hit \in SUBSET Voxels : \E through \in SUBSET (Voxels \ hit) : MapScan(hit, through)
  \/ LocateScan

Next ==
  \/ \E t \in 1 .. MaxTime, pts \in {"none", "few", "full"} : LidarArrives(t, pts)
  \/ \E t \in 1 .. MaxTime : ImuArrives(t)
  \/ PoseArrives
  \/ ScanWaits
  \/ SkipScan
  \/ FirstScan
  \/ Matches
  \/ \E fits \in BOOLEAN : AlignScan(fits)
  \/ \E features \in BOOLEAN : Finish(features)

Spec == Init /\ [][Next]_vars

-----------------------------------------------------------------------------
(* Properties.                                                             *)

(* What is put in the map or published together belongs together: the cloud
   is the one of the time it is stamped with, and the state it is placed at
   has been predicted to the end of that scan, over every sample loss, late
   message and scan that was skipped before.  Exceptions of the code: a scan
   that no sample came with, for which the cloud before is taken again
   (Process), and stamps that went back: those of the lidar leave its two
   buffers out of step for good (LivoxPCLCallBack), which does not disturb
   the state, those of the IMU do. *)
CloudIsOfScan ==
  Matches /\ SamplesFor(Pushed.end) > 0 /\ "lidar" \notin jumped => undistorted'.at = Pushed.bag
StateIsOfScanEnd ==
  Matches /\ SamplesFor(Pushed.end) > 0 /\ "imu" \notin jumped => imu'.time = Pushed.end
FrameIsOfOneScan == [][CloudIsOfScan /\ StateIsOfScanEnd]_vars

(* A voxel is in the static map exactly if it has been observed to belong
   there: hit in enough keyframes over a long enough time, with no ray
   through it and no long pause in between, and not seen through in several
   keyframes in a row since.  The counters of ProcessFrame come to that over
   any sequence of frames, also with frames that are no keyframes, voxels
   that are forgotten and found again, and stamps that go back. *)
StaticIsAsObserved == \A v \in Voxels : v \in Confirmed <=> IsStatic(observed[v])

(* A located robot stays located: neither a pose that comes late nor one
   that fits badly takes the alignment back, for which the map is gone.
   initialpose_callback alone would do so. *)
StaysLocated == [][pose.located => pose'.located /\ ~pose'.map]_vars
=============================================================================
