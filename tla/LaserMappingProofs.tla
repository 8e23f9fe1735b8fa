------------------------- MODULE LaserMappingProofs -------------------------
(***************************************************************************)
(* What holds of LaserMapping for every value of its constants: a located  *)
(* robot stays located, a scan is stamped with its own time, and the       *)
(* static map holds the voxels that the keyframes have seen to belong to   *)
(* the building.                                                           *)
(***************************************************************************)
EXTENDS LaserMapping, FiniteSetTheorems, TLAPS

(* A robot that is located hears no pose and has given up the whole map.   *)
Closed ==
  /\ pose \in [located : BOOLEAN, guess : BOOLEAN, listens : BOOLEAN, map : BOOLEAN]
  /\ pose.located => ~pose.listens /\ ~pose.map

(* After a fitting alignment no pose is heard (initialpose). *)
LEMMA PoseIsClosed ==
  ASSUME Closed, NEW fits \in BOOLEAN, ~pose.located, InitialPose(fits)
  PROVE  Closed'
<1>1. CASE fits
  <2>1. pose' = [located |-> TRUE, guess |-> TRUE, listens |-> FALSE, map |-> FALSE]
    BY <1>1 DEF InitialPose
  <2>2. QED  BY <2>1 DEF Closed
<1>2. CASE ~fits
  <2>1. pose' = [pose EXCEPT !.located = FALSE, !.guess = FALSE]
    BY <1>2 DEF InitialPose
  <2>2. QED  BY <2>1 DEF Closed
<1>3. QED  BY <1>1, <1>2

(* Every step keeps the pose closed and the robot located. *)
LEMMA PoseStep ==
  ASSUME Closed, [Next]_vars
  PROVE  Closed' /\ (pose.located => pose'.located /\ ~pose'.map)
<1>1. CASE UNCHANGED pose
  BY <1>1 DEF Closed
<1>2. CASE PoseArrives
  <2>1. pose' = [pose EXCEPT !.located = FALSE, !.guess = TRUE] /\ pose.listens
    BY <1>2 DEF PoseArrives
  <2>2. QED  BY <2>1 DEF Closed
<1>3. ASSUME NEW fits \in BOOLEAN, AlignScan(fits)
      PROVE  Closed' /\ ~pose.located
  <2>1. ~pose.located /\ InitialPose(fits)
    BY <1>3 DEF AlignScan
  <2>2. QED  BY <2>1, PoseIsClosed
<1>4. CASE UNCHANGED vars
  BY <1>4, <1>1 DEF vars
<1>5. CASE Next
  <2>1. ASSUME NEW t \in 1 .. MaxTime, NEW pts \in {"none", "few", "full"}, LidarArrives(t, pts)
        PROVE  UNCHANGED pose
    BY <2>1 DEF LidarArrives
  <2>2. ASSUME NEW t \in 1 .. MaxTime, ImuArrives(t)  PROVE  UNCHANGED pose
    BY <2>2 DEF ImuArrives
  <2>3. CASE ScanWaits
    BY <1>1, <2>3 DEF ScanWaits
  <2>4. CASE SkipScan
    BY <1>1, <2>4 DEF SkipScan
  <2>5. CASE FirstScan
    BY <1>1, <2>5 DEF FirstScan
  <2>6. CASE Matches
    BY <1>1, <2>6 DEF Matches, MapScan, LocateScan
  <2>7. ASSUME NEW features \in BOOLEAN, Finish(features)  PROVE  UNCHANGED pose
    BY <2>7 DEF Finish
  <2>8. QED  BY <1>1, <1>2, <1>3, <1>5, <2>1, <2>2, <2>3, <2>4, <2>5, <2>6, <2>7 DEF Next
<1>6. QED  BY <1>4, <1>5

(* A located robot stays located, and a pose that comes late never meets the
   map that initialpose has given up: initialpose_callback takes the
   alignment back without a test, and only the end of the subscription keeps
   it from being called. *)
THEOREM LocatedForGood == Spec => StaysLocated
<1>1. Init => Closed
  BY DEF Init, Closed
<1>2. Closed /\ [Next]_vars => Closed'
  BY PoseStep
<1>3. Closed /\ [Next]_vars => [pose.located => pose'.located /\ ~pose'.map]_vars
  BY PoseStep
<1>4. QED  BY <1>1, <1>2, <1>3, PTL DEF Spec, StaysLocated

-----------------------------------------------------------------------------
(* While the stamps of the lidar have not gone back, its two buffers hold  *)
(* the same scans, and so does what has been taken from them; and before   *)
(* the IMU is initialised there is no cloud.                               *)
BufferTypes ==
  /\ lidarBuffer \in Seq(Scan) /\ timeBuffer \in Seq(Nat) /\ imuBuffer \in Seq(Nat)
  /\ Len(lidarBuffer) <= Len(timeBuffer)
SameScans ==
  "lidar" \notin jumped =>
    /\ Len(timeBuffer) = Len(lidarBuffer)
    /\ \A i \in 1 .. Len(lidarBuffer) : timeBuffer[i] = lidarBuffer[i].at
    /\ measures.pushed => measures.scan.at = measures.bag
ImuFields == DOMAIN imu = {"iter", "init", "used", "scanEnd", "time"}
NoCloudYet == imu.init => undistorted = NoScan
InStep == BufferTypes /\ SameScans /\ ImuFields /\ NoCloudYet

(* The scan that Run takes up is one with its own time. *)
LEMMA PushedIsOne ==
  ASSUME InStep, BothWait, "lidar" \notin jumped
  PROVE  Pushed.scan.at = Pushed.bag
<1>1. Len(lidarBuffer) > 0 /\ Len(timeBuffer) = Len(lidarBuffer)
  BY DEF InStep, BufferTypes, SameScans, BothWait
<1>2. timeBuffer[1] = lidarBuffer[1].at
  BY <1>1 DEF InStep, BufferTypes, SameScans
<1>3. Head(timeBuffer) = timeBuffer[1] /\ Head(lidarBuffer) = lidarBuffer[1]
  BY <1>1 DEF InStep, BufferTypes
<1>4. CASE measures.pushed
  BY <1>4 DEF Pushed, InStep, SameScans
<1>5. CASE ~measures.pushed
  <2>1. Pushed.scan = Head(lidarBuffer) /\ Pushed.bag = Head(timeBuffer)
    BY <1>5 DEF Pushed
  <2>2. QED  BY <2>1, <1>2, <1>3
<1>6. QED  BY <1>4, <1>5

(* A scan takes no more samples than there are. *)
LEMMA SamplesType ==
  ASSUME BufferTypes, NEW end
  PROVE  SamplesFor(end) \in Nat /\ SamplesFor(end) <= Len(imuBuffer)
<1> DEFINE S == {i \in DOMAIN imuBuffer :
      imuBuffer[1] < end /\ imuBuffer[i] <= end /\ \A k \in 1 .. i - 1 : imuBuffer[k] < end}
<1>1. DOMAIN imuBuffer = 1 .. Len(imuBuffer) /\ Len(imuBuffer) \in Nat
  BY DEF BufferTypes
<1>2. IsFiniteSet(1 .. Len(imuBuffer)) /\ Cardinality(1 .. Len(imuBuffer)) = Len(imuBuffer)
  <2> DEFINE k == Len(imuBuffer)
  <2>1. k \in Nat
    BY <1>1
  <2> HIDE DEF k
  <2>2. IsFiniteSet(1 .. k) /\ Cardinality(1 .. k) = IF 1 > k THEN 0 ELSE k - 1 + 1
    BY <2>1, FS_Interval
  <2>3. Cardinality(1 .. k) = k
    BY <2>1, <2>2
  <2> QED BY <2>2, <2>3 DEF k
<1>3. IsFiniteSet(S) /\ Cardinality(S) <= Cardinality(1 .. Len(imuBuffer))
  BY <1>1, <1>2, FS_Subset
<1>4. Cardinality(S) \in Nat
  BY <1>3, FS_CardinalityType
<1>5. QED  BY <1>2, <1>3, <1>4 DEF SamplesFor

(* The step common to all that take a scan keeps the buffers in step. *)
LEMMA TakeStep ==
  ASSUME InStep, TakeAndProcess
  PROVE  InStep'
<1> DEFINE n == SamplesFor(Pushed.end)
           samples == SubSeq(imuBuffer, 1, n)
<1>1. TakeScan(n) /\ Process(samples, Pushed.end, Pushed.scan)
  BY DEF TakeAndProcess
<1>2. n \in Nat
  BY SamplesType DEF InStep
<1>3. lidarBuffer # <<>> /\ lidarBuffer' = Tail(lidarBuffer) /\ timeBuffer' = Tail(timeBuffer)
      /\ measures' = NoMeasures /\ jumped' = jumped
  BY <1>1 DEF TakeScan, BothWait
<1>4. imuBuffer' = SubSeq(imuBuffer, n + 1, Len(imuBuffer))
  BY <1>1 DEF TakeScan
<1>5. SameScans'
  <2>1. SUFFICES ASSUME "lidar" \notin jumped
                 PROVE  SameScans'
    BY <1>3 DEF SameScans
  <2>2. Len(timeBuffer) = Len(lidarBuffer) /\ Len(lidarBuffer) > 0
    BY <2>1, <1>3 DEF InStep, SameScans, BufferTypes
  <2>3. \A i \in 1 .. Len(lidarBuffer) : timeBuffer[i] = lidarBuffer[i].at
    BY <2>1 DEF InStep, SameScans
  <2>4. /\ Len(lidarBuffer') = Len(lidarBuffer) - 1
        /\ \A i \in 1 .. Len(lidarBuffer) - 1 : lidarBuffer'[i] = lidarBuffer[i + 1]
    BY <1>3, <2>2 DEF InStep, BufferTypes
  <2>5. /\ Len(timeBuffer') = Len(timeBuffer) - 1
        /\ \A i \in 1 .. Len(timeBuffer) - 1 : timeBuffer'[i] = timeBuffer[i + 1]
    BY <1>3, <2>2 DEF InStep, BufferTypes
  <2>6. Len(lidarBuffer) \in Nat
    BY DEF InStep, BufferTypes
  <2>7. \A i \in 1 .. Len(lidarBuffer') : timeBuffer'[i] = lidarBuffer'[i].at
    BY <2>2, <2>3, <2>4, <2>5, <2>6
  <2>8. ~measures'.pushed
    BY <1>3 DEF NoMeasures
  <2>9. QED  BY <2>2, <2>4, <2>5, <2>7, <2>8 DEF SameScans
<1>6. BufferTypes'
  <2>1. lidarBuffer' \in Seq(Scan)
    BY <1>3 DEF InStep, BufferTypes
  <2>0. Len(lidarBuffer) > 0 /\ Len(timeBuffer) > 0
    BY <1>3 DEF InStep, BufferTypes
  <2>2. timeBuffer' \in Seq(Nat) /\ Len(lidarBuffer') <= Len(timeBuffer')
    BY <1>3, <2>0 DEF InStep, BufferTypes
  <2>3. imuBuffer' \in Seq(Nat)
    BY <1>2, <1>4 DEF InStep, BufferTypes
  <2>4. QED  BY <2>1, <2>2, <2>3 DEF BufferTypes
<1>7. ImuFields' /\ NoCloudYet'
  <2>1. CASE samples = <<>>
    BY <1>1, <2>1 DEF Process, IMUInit, UndistortPcl, InStep, ImuFields, NoCloudYet
  <2>2. CASE samples # <<>> /\ imu.init
    <3>1. undistorted' = undistorted /\ DOMAIN imu' = DOMAIN imu
      BY <1>1, <2>2 DEF Process, IMUInit, UndistortPcl
    <3>2. QED  BY <3>1, <2>2 DEF InStep, ImuFields, NoCloudYet
  <2>3. CASE samples # <<>> /\ ~imu.init
    <3>1. DOMAIN imu' = DOMAIN imu /\ imu'.init = imu.init
      BY <1>1, <2>3 DEF Process, IMUInit, UndistortPcl, InStep, ImuFields
    <3>2. QED  BY <3>1, <2>3 DEF InStep, ImuFields, NoCloudYet
  <2>4. QED  BY <2>1, <2>2, <2>3
<1>8. QED  BY <1>5, <1>6, <1>7 DEF InStep

(* A new scan goes to the end of both buffers, unless its stamp has gone
   back. *)
LEMMA LidarStep ==
  ASSUME InStep, NEW t \in 1 .. MaxTime, NEW pts \in {"none", "few", "full"},
         LidarArrives(t, pts)
  PROVE  InStep'
<1>1. t \in Nat /\ [at |-> t, pts |-> pts] \in Scan
  BY DEF Scan
<1>2. /\ timeBuffer' = Append(timeBuffer, t)
      /\ lidarBuffer' = Append(IF t < lastLidar THEN <<>> ELSE lidarBuffer,
                               [at |-> t, pts |-> pts])
      /\ jumped' = IF t < lastLidar THEN jumped \cup {"lidar"} ELSE jumped
  BY DEF LidarArrives, Jump
<1>3. UNCHANGED <<imuBuffer, measures, imu, undistorted>>
  BY DEF LidarArrives
<1>4. BufferTypes'
  <2>1. <<>> \in Seq(Scan) /\ lidarBuffer \in Seq(Scan)
    BY DEF InStep, BufferTypes
  <2>2. lidarBuffer' \in Seq(Scan) /\ Len(lidarBuffer') <= Len(lidarBuffer) + 1
    BY <1>1, <1>2, <2>1
  <2>3. timeBuffer' \in Seq(Nat) /\ imuBuffer' \in Seq(Nat)
        /\ Len(timeBuffer') = Len(timeBuffer) + 1
    BY <1>1, <1>2, <1>3 DEF InStep, BufferTypes
  <2>4. QED  BY <2>2, <2>3 DEF InStep, BufferTypes
<1>5. SameScans'
  <2>1. CASE t < lastLidar
    BY <1>2, <2>1 DEF SameScans
  <2>2. CASE ~(t < lastLidar)
    <3>1. SUFFICES ASSUME "lidar" \notin jumped  PROVE SameScans'
      BY <1>2, <2>2 DEF SameScans
    <3>2. lidarBuffer' = Append(lidarBuffer, [at |-> t, pts |-> pts])
      BY <1>2, <2>2
    <3>3. /\ Len(timeBuffer) = Len(lidarBuffer) /\ Len(lidarBuffer) \in Nat
          /\ \A i \in 1 .. Len(lidarBuffer) : timeBuffer[i] = lidarBuffer[i].at
      BY <3>1 DEF InStep, BufferTypes, SameScans
    <3>4. /\ Len(lidarBuffer') = Len(lidarBuffer) + 1
          /\ \A i \in 1 .. Len(lidarBuffer) : lidarBuffer'[i] = lidarBuffer[i]
          /\ lidarBuffer'[Len(lidarBuffer) + 1] = [at |-> t, pts |-> pts]
      BY <1>1, <3>2 DEF InStep, BufferTypes
    <3>5. /\ Len(timeBuffer') = Len(timeBuffer) + 1
          /\ \A i \in 1 .. Len(timeBuffer) : timeBuffer'[i] = timeBuffer[i]
          /\ timeBuffer'[Len(timeBuffer) + 1] = t
      BY <1>1, <1>2 DEF InStep, BufferTypes
    <3>6. lidarBuffer'[Len(lidarBuffer) + 1].at = t
      BY <3>4
    <3>7. \A i \in 1 .. Len(lidarBuffer') : timeBuffer'[i] = lidarBuffer'[i].at
      BY <3>3, <3>4, <3>5, <3>6
    <3>8. measures'.pushed => measures'.scan.at = measures'.bag
      BY <1>3, <3>1 DEF InStep, SameScans
    <3>9. QED  BY <3>3, <3>4, <3>5, <3>7, <3>8 DEF SameScans
  <2>3. QED  BY <2>1, <2>2
<1>6. QED  BY <1>3, <1>4, <1>5 DEF InStep, ImuFields, NoCloudYet

LEMMA BeginsInStep == Init => InStep
<1>1. SUFFICES ASSUME Init  PROVE InStep
  OBVIOUS
<1>2. BufferTypes /\ SameScans
  BY <1>1 DEF Init, BufferTypes, SameScans, NoMeasures
<1>3. ImuFields
  BY <1>1 DEF Init, ImuFields
<1>4. NoCloudYet
  BY <1>1 DEF Init, NoCloudYet
<1>5. QED  BY <1>2, <1>3, <1>4 DEF InStep

LEMMA InStepStep ==
  ASSUME InStep, [Next]_vars
  PROVE  InStep'
<1>1. CASE UNCHANGED <<lidarBuffer, timeBuffer, imuBuffer, measures, jumped, imu, undistorted>>
  BY <1>1 DEF InStep, BufferTypes, SameScans, ImuFields, NoCloudYet
<1>2. CASE UNCHANGED vars
  BY <1>1, <1>2 DEF vars, sensorVars
<1>3. ASSUME NEW t \in 1 .. MaxTime, ImuArrives(t)
      PROVE  InStep'
  <2>1. /\ UNCHANGED <<lidarBuffer, timeBuffer, measures, imu, undistorted>>
        /\ imuBuffer' = Append(IF t < lastImu THEN <<>> ELSE imuBuffer, t)
        /\ jumped' = IF t < lastImu THEN jumped \cup {"imu"} ELSE jumped
    BY <1>3 DEF ImuArrives, Jump
  <2>2. <<>> \in Seq(Nat) /\ imuBuffer \in Seq(Nat) /\ t \in Nat
    BY DEF InStep, BufferTypes
  <2>3. imuBuffer' \in Seq(Nat)
    BY <2>1, <2>2
  <2>4. "lidar" \notin jumped' => "lidar" \notin jumped
    BY <2>1
  <2>5. QED  BY <2>1, <2>3, <2>4 DEF InStep, BufferTypes, SameScans, ImuFields, NoCloudYet
<1>4. CASE ScanWaits
  <2>1. /\ UNCHANGED <<lidarBuffer, timeBuffer, imuBuffer, jumped, imu, undistorted>>
        /\ BothWait /\ measures' = Pushed
    BY <1>4 DEF ScanWaits, sensorVars
  <2>2. "lidar" \notin jumped => measures'.scan.at = measures'.bag
    BY <2>1, PushedIsOne
  <2>3. QED  BY <2>1, <2>2 DEF InStep, BufferTypes, SameScans, ImuFields, NoCloudYet
<1>5. CASE TakeAndProcess
  BY <1>5, TakeStep
<1>6. CASE Next
  <2>1. ASSUME NEW t \in 1 .. MaxTime, NEW pts \in {"none", "few", "full"}, LidarArrives(t, pts)
        PROVE  InStep'
    BY <2>1, LidarStep
  <2>2. CASE PoseArrives
    BY <1>1, <2>2 DEF PoseArrives, sensorVars
  <2>3. CASE SkipScan
    BY <1>5, <2>3 DEF SkipScan
  <2>4. CASE FirstScan
    BY <1>5, <2>4 DEF FirstScan
  <2>5. CASE Matches
    BY <1>5, <2>5 DEF Matches, MapScan, LocateScan
  <2>6. ASSUME NEW fits \in BOOLEAN, AlignScan(fits)  PROVE InStep'
    BY <1>5, <2>6 DEF AlignScan
  <2>7. ASSUME NEW features \in BOOLEAN, Finish(features)  PROVE InStep'
    BY <1>1, <2>7 DEF Finish, sensorVars
  <2>8. QED  BY <1>3, <1>4, <1>6, <2>1, <2>2, <2>3, <2>4, <2>5, <2>6, <2>7 DEF Next
<1>7. QED  BY <1>2, <1>6

(* The scan that is matched is the one taken, if samples came with it. *)
LEMMA CloudStep ==
  ASSUME InStep
  PROVE  CloudIsOfScan
<1>1. SUFFICES ASSUME Matches, SamplesFor(Pushed.end) > 0, "lidar" \notin jumped
               PROVE  undistorted'.at = Pushed.bag
  BY DEF CloudIsOfScan
<1> DEFINE n == SamplesFor(Pushed.end)
           samples == SubSeq(imuBuffer, 1, n)
<1>2. TakeAndProcess /\ undistorted'.pts = "full"
  BY <1>1 DEF Matches, MapScan, LocateScan
<1>3. BothWait /\ Process(samples, Pushed.end, Pushed.scan)
  BY <1>2 DEF TakeAndProcess, TakeScan
<1>4. n \in Nat /\ n > 0
  BY <1>1, SamplesType DEF InStep
<1>5. samples # <<>>
  <2>1. 1 \in DOMAIN samples
    BY <1>4
  <2>2. 1 \notin DOMAIN <<>>
    OBVIOUS
  <2>3. QED  BY <2>1, <2>2
<1>6. CASE imu.init
  <2>1. undistorted' = NoScan
    BY <1>3, <1>5, <1>6 DEF Process, IMUInit, UndistortPcl, InStep, NoCloudYet
  <2>2. QED  BY <1>2, <2>1 DEF NoScan
<1>7. CASE ~imu.init
  <2>1. undistorted' = Pushed.scan
    BY <1>3, <1>5, <1>7 DEF Process, IMUInit, UndistortPcl
  <2>2. QED  BY <1>1, <1>3, <2>1, PushedIsOne
<1>8. QED  BY <1>6, <1>7

(* What is matched and put in the map carries its own time, whatever the
   order in which the messages of the two sensors come and whichever are
   lost: if samples came with the scan and the stamps of the lidar have not
   gone back (SyncPackages, Process). *)
THEOREM CloudHasItsTime == Spec => [][CloudIsOfScan]_vars
<1>1. Init => InStep
  BY BeginsInStep
<1>2. InStep /\ [Next]_vars => InStep'
  BY InStepStep
<1>3. InStep /\ [Next]_vars => [CloudIsOfScan]_vars
  BY CloudStep
<1>4. QED  BY <1>1, <1>2, <1>3, PTL DEF Spec

-----------------------------------------------------------------------------
(* The static map.  A history is what the keyframes saw of one voxel; the  *)
(* next one has one keyframe more.                                         *)
Frame == [saw : {"hit", "free", "nothing"}, at : Nat]
InOrder(h) == \A i, j \in 1 .. Len(h) : i <= j => h[i].at <= h[j].at
Longer(h, g) ==
  /\ h \in Seq(Frame) /\ g \in Seq(Frame) /\ Len(g) = Len(h) + 1
  /\ \A i \in 1 .. Len(h) : g[i] = h[i]
  /\ InOrder(g)

(* The voxel has been hit in keyframe i, and nothing has taken it away as  *)
(* a candidate up to keyframe k.                                           *)
Alive(h, i, k) ==
  /\ h[i].saw = "hit"
  /\ \A m \in i .. k :
       \/ h[m].saw = "hit"
       \/ /\ h[m].saw = "nothing"
          /\ \E n \in HitsIn(h, i, m) : h[m].at - h[n].at <= CandidateTimeout

(* What a history says of the entry of its voxel in states_: there is      *)
(* none; a candidate counts from the first keyframe that can count; and a  *)
(* confirmed one was gained in some keyframe j, and its counter free is    *)
(* the length of the run of free keyframes at the end.                     *)
Absent(h) == ~IsStatic(h) /\ \A i \in 1 .. Len(h) : ~Alive(h, i, Len(h))
IsLast(l, hits) == l \in hits /\ \A m \in hits : m <= l
CountsFrom(h, s, b) ==
  /\ Alive(h, b, Len(h)) /\ \A i \in 1 .. Len(h) : Alive(h, i, Len(h)) => b <= i
  /\ s.hits = Cardinality(HitsIn(h, b, Len(h))) /\ s.first = h[b].at
  /\ \E l \in 1 .. Len(h) : IsLast(l, HitsIn(h, b, Len(h))) /\ s.last = h[l].at
Candidate(h, s) == ~IsStatic(h) /\ \E b \in 1 .. Len(h) : CountsFrom(h, s, b)
RunOf(h, s, j) ==
  IF s.lastFree + 1 = Len(h)
  THEN /\ s.free \in 1 .. FreeToRemove - 1 /\ s.free <= Len(h) - j
       /\ \A k \in Len(h) - s.free + 1 .. Len(h) : h[k].saw = "free"
       /\ h[Len(h) - s.free].saw # "free"
  ELSE h[Len(h)].saw # "free"
Gained(h, j) == \E i \in 1 .. j : GainedIn(h, i, j)
Lasting(h, s) ==
  \E j \in 1 .. Len(h) : Gained(h, j) /\ ~LostAfter(h, j) /\ RunOf(h, s, j)
AsSeen(h, s) ==
  s.lastFree < Len(h) /\ IF s.confirmed THEN Lasting(h, s) ELSE Candidate(h, s)

FilterInv ==
  /\ FilterOK
  /\ keyframeId = 0 <=> lastKeyframe = Never
  /\ \A v \in Voxels :
       /\ Len(observed[v]) = keyframeId /\ InOrder(observed[v])
       /\ keyframeId > 0 => observed[v][keyframeId].at = lastKeyframe
       /\ v \notin DOMAIN states => Absent(observed[v])
       /\ v \in DOMAIN states => AsSeen(observed[v], states[v])

LEMMA HitsType ==
  ASSUME NEW h, NEW i \in Int, NEW j \in Int
  PROVE  IsFiniteSet(HitsIn(h, i, j)) /\ Cardinality(HitsIn(h, i, j)) \in Nat
<1>1. HitsIn(h, i, j) \in SUBSET (i .. j)
  BY DEF HitsIn
<1>2. IsFiniteSet(i .. j)
  BY FS_Interval
<1>3. IsFiniteSet(HitsIn(h, i, j))
  BY <1>1, <1>2, FS_Subset
<1> QED BY <1>3, FS_CardinalityType

(* A keyframe that begins later counts no more hits. *)
LEMMA HitsFewer ==
  ASSUME NEW h, NEW i \in Int, NEW k \in Int, NEW j \in Int, i <= k
  PROVE  Cardinality(HitsIn(h, k, j)) <= Cardinality(HitsIn(h, i, j))
<1>1. HitsIn(h, k, j) \in SUBSET HitsIn(h, i, j)
  BY DEF HitsIn
<1> QED BY <1>1, HitsType, FS_Subset

LEMMA HitsSame ==
  ASSUME NEW h, NEW g, Longer(h, g), NEW i \in 1 .. Len(h), NEW j \in 1 .. Len(h)
  PROVE  HitsIn(g, i, j) = HitsIn(h, i, j)
BY DEF HitsIn, Longer

LEMMA HitsNext ==
  ASSUME NEW h, NEW g, Longer(h, g), NEW i \in 1 .. Len(h)
  PROVE  /\ g[Len(g)].saw # "hit" => HitsIn(g, i, Len(g)) = HitsIn(h, i, Len(h))
         /\ g[Len(g)].saw = "hit" =>
              /\ HitsIn(g, i, Len(g)) = HitsIn(h, i, Len(h)) \cup {Len(g)}
              /\ Cardinality(HitsIn(g, i, Len(g))) = Cardinality(HitsIn(h, i, Len(h))) + 1
<1>1. Len(h) \in Nat /\ Len(g) = Len(h) + 1 /\ \A k \in 1 .. Len(h) : g[k] = h[k]
  BY DEF Longer
<1>2. g[Len(g)].saw # "hit" => HitsIn(g, i, Len(g)) = HitsIn(h, i, Len(h))
  BY <1>1 DEF HitsIn
<1>3. ASSUME g[Len(g)].saw = "hit"
      PROVE  HitsIn(g, i, Len(g)) = HitsIn(h, i, Len(h)) \cup {Len(g)}
  BY <1>1, <1>3 DEF HitsIn
<1>4. Len(g) \notin HitsIn(h, i, Len(h)) /\ IsFiniteSet(HitsIn(h, i, Len(h)))
  <2>1. Len(g) \notin HitsIn(h, i, Len(h))
    BY <1>1 DEF HitsIn
  <2> QED BY <1>1, <2>1, HitsType
<1>5. Cardinality(HitsIn(h, i, Len(h)) \cup {Len(g)}) = Cardinality(HitsIn(h, i, Len(h))) + 1
  BY <1>4, FS_AddElement
<1> QED BY <1>2, <1>3, <1>5

LEMMA AliveSame ==
  ASSUME NEW h, NEW g, Longer(h, g), NEW i \in 1 .. Len(h), NEW j \in 1 .. Len(h)
  PROVE  Alive(g, i, j) <=> Alive(h, i, j)
<1>1. \A m \in i .. j : g[m] = h[m] /\ m \in 1 .. Len(h)
  BY DEF Longer
<1>2. \A m \in i .. j : HitsIn(g, i, m) = HitsIn(h, i, m)
  BY <1>1, HitsSame
<1>3. \A m \in i .. j : \A n \in HitsIn(h, i, m) : g[n] = h[n]
  BY <1>1 DEF HitsIn, Longer
<1>4. g[i] = h[i]
  BY DEF Longer
<1> QED BY <1>1, <1>2, <1>3, <1>4 DEF Alive

LEMMA AliveNext ==
  ASSUME NEW h, NEW g, Longer(h, g), NEW i \in 1 .. Len(h)
  PROVE  Alive(g, i, Len(g)) <=>
           /\ Alive(h, i, Len(h))
           /\ \/ g[Len(g)].saw = "hit"
              \/ /\ g[Len(g)].saw = "nothing"
                 /\ \E n \in HitsIn(h, i, Len(h)) : g[Len(g)].at - h[n].at <= CandidateTimeout
<1>1. Len(h) \in Nat /\ Len(g) = Len(h) + 1 /\ \A k \in 1 .. Len(h) : g[k] = h[k]
  BY DEF Longer
<1>2. Alive(g, i, Len(g)) <=>
        /\ Alive(g, i, Len(h))
        /\ \/ g[Len(g)].saw = "hit"
           \/ /\ g[Len(g)].saw = "nothing"
              /\ \E n \in HitsIn(g, i, Len(g)) : g[Len(g)].at - g[n].at <= CandidateTimeout
  <2>1. \A m : m \in i .. Len(g) <=> m \in i .. Len(h) \/ m = Len(g)
    BY <1>1
  <2> QED BY <2>1 DEF Alive
<1>3. Alive(g, i, Len(h)) <=> Alive(h, i, Len(h))
  BY <1>1, AliveSame
<1>4. g[Len(g)].saw = "nothing" =>
        /\ HitsIn(g, i, Len(g)) = HitsIn(h, i, Len(h))
        /\ \A n \in HitsIn(h, i, Len(h)) : g[n] = h[n]
  BY <1>1, HitsNext DEF HitsIn
<1> QED BY <1>2, <1>3, <1>4

LEMMA AliveNew ==
  ASSUME NEW h, NEW g, Longer(h, g)
  PROVE  Alive(g, Len(g), Len(g)) <=> g[Len(g)].saw = "hit"
BY DEF Alive, Longer

LEMMA GainedMeans ==
  ASSUME NEW h, NEW i, NEW j
  PROVE  GainedIn(h, i, j) <=>
           /\ Alive(h, i, j) /\ h[j].saw = "hit"
           /\ Cardinality(HitsIn(h, i, j)) >= MinHits /\ h[j].at - h[i].at >= MinSpan
BY DEF GainedIn, Alive

LEMMA GainedSame ==
  ASSUME NEW h, NEW g, Longer(h, g), NEW j \in 1 .. Len(h)
  PROVE  Gained(g, j) <=> Gained(h, j)
<1>1. ASSUME NEW i \in 1 .. j
      PROVE  GainedIn(g, i, j) <=> GainedIn(h, i, j)
  <2>1. i \in 1 .. Len(h) /\ g[j] = h[j] /\ g[i] = h[i]
    BY DEF Longer
  <2> QED BY <2>1, GainedMeans, AliveSame, HitsSame
<1> QED BY <1>1 DEF Gained

(* Losing goes by the free keyframes alone.                                *)
LEMMA LostStays ==
  ASSUME NEW h, NEW g, Longer(h, g), NEW j \in 1 .. Len(h), LostAfter(h, j)
  PROVE  LostAfter(g, j)
<1>1. Len(h) \in Nat /\ Len(g) = Len(h) + 1 /\ \A k \in 1 .. Len(h) : g[k] = h[k]
  BY DEF Longer
<1>2. PICK k \in j + 1 .. Len(h) - FreeToRemove + 1 :
        \A n \in k .. k + FreeToRemove - 1 : h[n].saw = "free"
  BY DEF LostAfter
<1>3. k \in j + 1 .. Len(g) - FreeToRemove + 1
      /\ \A n \in k .. k + FreeToRemove - 1 : g[n].saw = "free"
  BY <1>1, <1>2, FilterOptions
<1> QED BY <1>3 DEF LostAfter

LEMMA LostByFree ==
  ASSUME NEW h, NEW g, Longer(h, g), NEW j \in 1 .. Len(h), LostAfter(g, j),
         NEW e \in Len(g) - FreeToRemove + 1 .. Len(g), g[e].saw # "free"
  PROVE  LostAfter(h, j)
<1>1. Len(h) \in Nat /\ Len(g) = Len(h) + 1 /\ \A k \in 1 .. Len(h) : g[k] = h[k]
  BY DEF Longer
<1>2. PICK k \in j + 1 .. Len(g) - FreeToRemove + 1 :
        \A n \in k .. k + FreeToRemove - 1 : g[n].saw = "free"
  BY DEF LostAfter
<1>3. k # Len(g) - FreeToRemove + 1
  BY <1>1, <1>2, FilterOptions
<1>4. k \in j + 1 .. Len(h) - FreeToRemove + 1
      /\ \A n \in k .. k + FreeToRemove - 1 : h[n].saw = "free"
  BY <1>1, <1>2, <1>3, FilterOptions
<1> QED BY <1>4 DEF LostAfter

LEMMA StaticMeans ==
  ASSUME NEW h \in Seq(Frame)
  PROVE  IsStatic(h) <=> \E j \in 1 .. Len(h) : Gained(h, j) /\ ~LostAfter(h, j)
BY DEF IsStatic, Gained

(* Nothing is gained by a keyframe that gains nothing.                     *)
LEMMA NotStaticKept ==
  ASSUME NEW h, NEW g, Longer(h, g), ~IsStatic(h), ~Gained(g, Len(g))
  PROVE  ~IsStatic(g)
<1>1. Len(h) \in Nat /\ Len(g) = Len(h) + 1 /\ h \in Seq(Frame) /\ g \in Seq(Frame)
  BY DEF Longer
<1>2. ASSUME NEW j \in 1 .. Len(g), Gained(g, j), ~LostAfter(g, j)
      PROVE  FALSE
  <2>1. j \in 1 .. Len(h)
    BY <1>1, <1>2
  <2>2. Gained(h, j) /\ ~LostAfter(h, j)
    BY <1>2, <2>1, GainedSame, LostStays
  <2> QED BY <1>1, <2>1, <2>2, StaticMeans
<1> QED BY <1>1, <1>2, StaticMeans

-----------------------------------------------------------------------------
(* One more keyframe, for a voxel without an entry.                        *)
LEMMA LongerFacts ==
  ASSUME NEW h, NEW g, Longer(h, g)
  PROVE  /\ Len(h) \in Nat /\ Len(g) = Len(h) + 1 /\ Len(g) \in 1 .. Len(g)
         /\ \A k \in 1 .. Len(h) : g[k] = h[k] /\ k \in 1 .. Len(g)
         /\ \A k \in 1 .. Len(g) : g[k] \in Frame /\ g[k].at \in Nat
                                   /\ g[k].saw \in {"hit", "free", "nothing"}
         /\ h \in Seq(Frame) /\ g \in Seq(Frame)
<1>1. /\ h \in Seq(Frame) /\ g \in Seq(Frame) /\ Len(g) = Len(h) + 1
      /\ \A k \in 1 .. Len(h) : g[k] = h[k]
  BY DEF Longer
<1>2. Len(h) \in Nat /\ \A k \in 1 .. Len(g) : g[k] \in Frame
  BY <1>1
<1>3. \A f \in Frame : f.at \in Nat /\ f.saw \in {"hit", "free", "nothing"}
  BY DEF Frame
<1> QED BY <1>1, <1>2, <1>3

LEMMA AbsentStays ==
  ASSUME NEW h, NEW g, Longer(h, g), ~IsStatic(h), g[Len(g)].saw # "hit",
         \A i \in 1 .. Len(h) : ~Alive(g, i, Len(g))
  PROVE  Absent(g)
<1>1. ~Gained(g, Len(g))
  BY GainedMeans DEF Gained
<1>2. ~IsStatic(g)
  BY <1>1, NotStaticKept
<1>3. \A i \in 1 .. Len(g) : ~Alive(g, i, Len(g))
  BY AliveNew, LongerFacts
<1> QED BY <1>2, <1>3 DEF Absent

LEMMA UnseenStays ==
  ASSUME NEW h, NEW g, Longer(h, g), Absent(h), g[Len(g)].saw # "hit"
  PROVE  Absent(g)
<1>1. \A i \in 1 .. Len(h) : ~Alive(g, i, Len(g))
  BY AliveNext DEF Absent
<1> QED BY <1>1, AbsentStays DEF Absent

(* A gain in the last keyframe makes a voxel static.                       *)
LEMMA JustGained ==
  ASSUME NEW h, NEW g, Longer(h, g), g[Len(g)].saw = "hit", Gained(g, Len(g)),
         NEW s, s.lastFree < Len(h), s.lastFree \in Int
  PROVE  Lasting(g, s)
<1>1. ~LostAfter(g, Len(g))
  BY LongerFacts, FilterOptions DEF LostAfter
<1>2. RunOf(g, s, Len(g))
  BY LongerFacts DEF RunOf
<1> QED BY <1>1, <1>2, LongerFacts DEF Lasting

LEMMA VoxelFields ==
  ASSUME NEW s \in VoxelState
  PROVE  /\ s.hits \in Nat /\ s.first \in Nat /\ s.free \in Nat
         /\ s.lastFree \in Int /\ s.confirmed \in BOOLEAN
BY DEF VoxelState, Never

(* Neither a later first keyframe nor fewer hits confirm a candidate.      *)
LEMMA LaterNoSooner ==
  ASSUME NEW hits \in Nat, NEW fewer \in Nat, NEW needed \in Nat, NEW first \in Nat,
         NEW later \in Nat, NEW now \in Nat, NEW span \in Nat,
         fewer <= hits, fewer >= needed, first <= later, now - later >= span
  PROVE  hits >= needed /\ now - first >= span
OBVIOUS

(* A candidate that a keyframe hits is confirmed just if it is gained.     *)
LEMMA HitCounts ==
  ASSUME NEW h, NEW g, Longer(h, g), ~IsStatic(h), g[Len(g)].saw = "hit",
         NEW b \in 1 .. Len(g), NEW s \in VoxelState, CountsFrom(g, s, b),
         s.confirmed <=> s.hits >= MinHits /\ g[Len(g)].at - s.first >= MinSpan
  PROVE  IF s.confirmed THEN Gained(g, Len(g)) ELSE Candidate(g, s)
<1>1. Len(g) \in 1 .. Len(g) /\ b \in 1 .. Len(g)
  BY LongerFacts
<1>2. CASE s.confirmed
  <2>1. GainedIn(g, b, Len(g))
    BY <1>2, GainedMeans DEF CountsFrom
  <2> QED BY <1>1, <1>2, <2>1 DEF Gained
<1>3. CASE ~s.confirmed
  <2>1. ASSUME NEW i \in 1 .. Len(g), GainedIn(g, i, Len(g))
        PROVE  FALSE
    <3>1. /\ Alive(g, i, Len(g)) /\ Cardinality(HitsIn(g, i, Len(g))) >= MinHits
          /\ g[Len(g)].at - g[i].at >= MinSpan
      BY <2>1, GainedMeans
    <3>2. b <= i
      BY <3>1 DEF CountsFrom
    <3>3. g[b].at <= g[i].at
      BY <3>2 DEF Longer, InOrder
    <3>4. Cardinality(HitsIn(g, i, Len(g))) <= Cardinality(HitsIn(g, b, Len(g)))
      BY <1>1, <3>2, HitsFewer
    <3>5. /\ s.hits = Cardinality(HitsIn(g, b, Len(g))) /\ s.first = g[b].at
          /\ s.hits \in Nat /\ s.first \in Nat
      BY VoxelFields DEF CountsFrom
    <3>6. Cardinality(HitsIn(g, i, Len(g))) \in Nat
      BY <1>1, HitsType
    <3>7. g[b].at \in Nat /\ g[i].at \in Nat /\ g[Len(g)].at \in Nat /\ MinSpan \in Nat
          /\ MinHits \in Nat
      BY LongerFacts, FilterOptions
    <3> DEFINE hits == s.hits
               first == s.first
               fewer == Cardinality(HitsIn(g, i, Len(g)))
               later == g[i].at
               now == g[Len(g)].at
    <3>8. /\ hits \in Nat /\ first \in Nat /\ fewer \in Nat /\ later \in Nat /\ now \in Nat
          /\ MinHits \in Nat /\ MinSpan \in Nat
      BY <3>5, <3>6, <3>7
    <3>9. fewer <= hits /\ fewer >= MinHits /\ first <= later /\ now - later >= MinSpan
      BY <3>1, <3>3, <3>4, <3>5
    <3>10. s.confirmed <=> hits >= MinHits /\ now - first >= MinSpan
      OBVIOUS
    <3> HIDE DEF hits, first, fewer, later, now
    <3>11. hits >= MinHits /\ now - first >= MinSpan
      BY <3>8, <3>9, LaterNoSooner
    <3> QED BY <1>3, <3>10, <3>11, Zenon
  <2>2. ~IsStatic(g)
    BY <2>1, NotStaticKept DEF Gained
  <2> QED BY <1>3, <2>2 DEF Candidate
<1> QED BY <1>2, <1>3

(* What AfterHit makes of an entry.                                        *)
LEMMA HitKeepsFirst ==
  ASSUME NEW s \in VoxelState, NEW time \in Nat, NEW r, r = AfterHit(s, time), s.hits # 0
  PROVE  r.first = s.first
BY DEF AfterHit, VoxelState

LEMMA HitSetsFirst ==
  ASSUME NEW s \in VoxelState, NEW time \in Nat, NEW r, r = AfterHit(s, time), s.hits = 0
  PROVE  r.first = time
BY DEF AfterHit, VoxelState

LEMMA HitFields ==
  ASSUME NEW s \in VoxelState, NEW time \in Nat, NEW r, r = AfterHit(s, time)
  PROVE  /\ r \in VoxelState /\ r.hits = s.hits + 1 /\ r.last = time
         /\ r.lastFree = s.lastFree
<1>1. \E hits \in Nat, first \in Nat, sure \in BOOLEAN :
        /\ hits = s.hits + 1 /\ first = (IF s.hits = 0 THEN time ELSE s.first)
        /\ r = [s EXCEPT !.hits = hits, !.first = first, !.last = time,
                         !.free = 0, !.confirmed = sure]
  <2>1. s.hits + 1 \in Nat /\ (IF s.hits = 0 THEN time ELSE s.first) \in Nat
    BY DEF VoxelState
  <2> QED BY <2>1 DEF AfterHit
<1>2. PICK hits \in Nat, first \in Nat, sure \in BOOLEAN :
        /\ hits = s.hits + 1 /\ first = (IF s.hits = 0 THEN time ELSE s.first)
        /\ r = [s EXCEPT !.hits = hits, !.first = first, !.last = time,
                         !.free = 0, !.confirmed = sure]
  BY <1>1
<1>3. r \in VoxelState
  <2>1. r = [s EXCEPT !.hits = hits, !.first = first, !.last = time,
                      !.free = 0, !.confirmed = sure]
    BY <1>2, Zenon
  <2>2. [s EXCEPT !.hits = hits, !.first = first, !.last = time,
                  !.free = 0, !.confirmed = sure] \in VoxelState
    BY DEF VoxelState
  <2> QED BY <2>1, <2>2, Zenon
<1>4. r.hits = hits /\ r.first = first /\ r.last = time /\ r.lastFree = s.lastFree
  BY <1>2 DEF VoxelState
<1> QED BY <1>2, <1>3, <1>4

LEMMA HitConfirms ==
  ASSUME NEW s \in VoxelState, NEW time \in Nat, NEW r, r = AfterHit(s, time)
  PROVE  r.confirmed <=>
           s.confirmed \/ (s.hits + 1 >= MinHits /\ time - r.first >= MinSpan)
<1> DEFINE sure == s.confirmed \/ (s.hits + 1 >= MinHits /\ time - r.first >= MinSpan)
<1>1. r.first = (IF s.hits = 0 THEN time ELSE s.first)
  BY HitSetsFirst, HitKeepsFirst
<1>2. r.confirmed = (s.confirmed \/ (s.hits + 1 >= MinHits
         /\ time - (IF s.hits = 0 THEN time ELSE s.first) >= MinSpan))
  BY DEF AfterHit, VoxelState
<1>3. r.confirmed = sure
  BY <1>1, <1>2, Zenon
<1> HIDE DEF sure
<1>4. r.confirmed <=> sure
  BY <1>3, Zenon
<1> QED BY <1>4, Zenon DEF sure

IsNew(n) == n.hits = 0 /\ n.lastFree = -1 /\ n.confirmed = FALSE

LEMMA HitOfNew ==
  ASSUME NEW n \in VoxelState, IsNew(n), NEW time \in Nat, NEW r, r = AfterHit(n, time)
  PROVE  /\ r \in VoxelState
         /\ r.hits = 1 /\ r.first = time /\ r.last = time /\ r.lastFree = -1
         /\ r.confirmed <=> (1 >= MinHits /\ time - r.first >= MinSpan)
<1>1. r \in VoxelState
  BY HitFields
<1>2. r.hits = n.hits + 1 /\ r.last = time /\ r.lastFree = n.lastFree
  BY HitFields
<1>3. r.first = time
  BY HitSetsFirst DEF IsNew
<1>4. r.confirmed <=> n.confirmed \/ (n.hits + 1 >= MinHits /\ time - r.first >= MinSpan)
  BY HitConfirms
<1>5. n.hits + 1 = 1 /\ n.lastFree = -1 /\ ~n.confirmed
  BY DEF IsNew
<1> QED BY <1>1, <1>2, <1>3, <1>4, <1>5, Zenon

LEMMA NewHit ==
  ASSUME NEW time \in Nat, NEW r, r = AfterHit(NoHits, time)
  PROVE  /\ NoHits \in VoxelState /\ r \in VoxelState
         /\ r.hits = 1 /\ r.first = time /\ r.last = time /\ r.lastFree = -1
         /\ r.confirmed <=> (1 >= MinHits /\ time - r.first >= MinSpan)
<1>1. NoHits \in VoxelState
  BY DEF NoHits, VoxelState, Never
<1>2. IsNew(NoHits)
  BY DEF NoHits, IsNew, Never
<1> DEFINE n == NoHits
<1>3. n \in VoxelState /\ IsNew(n) /\ r = AfterHit(n, time)
  BY <1>1, <1>2
<1> HIDE DEF n
<1>4. r.hits = 1 /\ r.first = time /\ r.last = time /\ r.lastFree = -1 /\ r \in VoxelState
  BY <1>3, HitOfNew
<1>5. r.confirmed <=> (1 >= MinHits /\ time - r.first >= MinSpan)
  BY <1>3, HitOfNew
<1> QED BY <1>1, <1>4, <1>5, Zenon

LEMMA FirstHit ==
  ASSUME NEW h, NEW g, Longer(h, g), Absent(h), g[Len(g)].saw = "hit"
  PROVE  AsSeen(g, AfterHit(NoHits, g[Len(g)].at))
<1> DEFINE time == g[Len(g)].at
           s == AfterHit(NoHits, time)
<1>1. time \in Nat /\ s = AfterHit(NoHits, time)
  BY LongerFacts
<1> HIDE DEF s
<1>3. /\ s \in VoxelState /\ s.hits = 1 /\ s.last = time /\ s.first = time
      /\ s.lastFree = -1
      /\ s.confirmed <=> 1 >= MinHits /\ time - s.first >= MinSpan
  BY <1>1, NewHit, Zenon
<1>4. HitsIn(g, Len(g), Len(g)) = {Len(g)}
  BY LongerFacts DEF HitsIn
<1>5. CountsFrom(g, s, Len(g)) /\ s.hits = 1 /\ s.lastFree = -1
  <2>1. \A i \in 1 .. Len(g) : Alive(g, i, Len(g)) => Len(g) <= i
    BY AliveNext, LongerFacts DEF Absent
  <2>2. Alive(g, Len(g), Len(g))
    BY AliveNew
  <2>3. Cardinality(HitsIn(g, Len(g), Len(g))) = 1
    BY <1>4, FS_Singleton
  <2>4. IsLast(Len(g), HitsIn(g, Len(g), Len(g)))
    BY <1>4, LongerFacts DEF IsLast
  <2> QED BY <1>3, <2>1, <2>2, <2>3, <2>4, LongerFacts DEF CountsFrom
<1>6. IF s.confirmed THEN Gained(g, Len(g)) ELSE Candidate(g, s)
  <2>1. s.confirmed <=> s.hits >= MinHits /\ g[Len(g)].at - s.first >= MinSpan
    BY <1>3
  <2> QED BY <1>3, <1>5, <2>1, LongerFacts, HitCounts DEF Absent
<1>7. s.lastFree < Len(g) /\ s.lastFree < Len(h) /\ s.lastFree \in Int
  BY <1>5, LongerFacts
<1> QED BY <1>6, <1>7, JustGained DEF AsSeen, s

LEMMA CandidateHit ==
  ASSUME NEW h, NEW g, Longer(h, g), NEW s \in VoxelState, ~s.confirmed, AsSeen(h, s),
         g[Len(g)].saw = "hit"
  PROVE  AsSeen(g, AfterHit(s, g[Len(g)].at))
<1> DEFINE r == AfterHit(s, g[Len(g)].at)
<1>1. r = AfterHit(s, g[Len(g)].at) /\ g[Len(g)].at \in Nat
  BY LongerFacts
<1> HIDE DEF r
<1>2. /\ r \in VoxelState /\ r.hits = s.hits + 1 /\ r.last = g[Len(g)].at
      /\ (s.hits # 0 => r.first = s.first)
      /\ r.lastFree = s.lastFree
  <2> DEFINE time == g[Len(g)].at
  <2>1. time \in Nat /\ r = AfterHit(s, time)
    BY <1>1
  <2> HIDE DEF time
  <2>2. r \in VoxelState
    BY <2>1, HitFields
  <2>3. r.hits = s.hits + 1 /\ r.last = time /\ r.lastFree = s.lastFree
    BY <2>1, HitFields
  <2>4. s.hits # 0 => r.first = s.first
    BY <2>1, HitKeepsFirst, Zenon
  <2> QED BY <2>2, <2>3, <2>4, Zenon DEF time
<1>3. r.confirmed <=> s.hits + 1 >= MinHits /\ g[Len(g)].at - r.first >= MinSpan
  BY <1>1, HitConfirms
<1>4. s.lastFree < Len(h) /\ Candidate(h, s)
  BY DEF AsSeen
<1>5. PICK b \in 1 .. Len(h) : CountsFrom(h, s, b)
  BY <1>4 DEF Candidate
<1>6. b \in 1 .. Len(g) /\ Len(g) \in 1 .. Len(g) /\ g[b] = h[b] /\ Len(h) \in Nat
  BY LongerFacts
<1>7. s.hits # 0
  <2>1. b \in HitsIn(h, b, Len(h))
    BY <1>5, <1>6 DEF CountsFrom, Alive, HitsIn
  <2>2. IsFiniteSet(HitsIn(h, b, Len(h)))
    BY <1>6, HitsType
  <2>3. Cardinality(HitsIn(h, b, Len(h))) # 0
    BY <2>1, <2>2, FS_EmptySet
  <2> QED BY <1>5, <2>3 DEF CountsFrom
<1>8. CountsFrom(g, r, b)
  <2>1. Alive(g, b, Len(g))
    BY <1>5, AliveNext DEF CountsFrom
  <2>2. ASSUME NEW i \in 1 .. Len(g), Alive(g, i, Len(g))
        PROVE  b <= i
    <3>1. CASE i \in 1 .. Len(h)
      BY <1>5, <2>2, <3>1, AliveNext DEF CountsFrom
    <3>2. CASE i = Len(g)
      BY <1>6, <3>2
    <3> QED BY <3>1, <3>2, LongerFacts
  <2>3. r.hits = Cardinality(HitsIn(g, b, Len(g)))
    BY <1>2, <1>5, HitsNext DEF CountsFrom
  <2>4. r.first = g[b].at
    BY <1>2, <1>5, <1>6, <1>7 DEF CountsFrom
  <2>5. IsLast(Len(g), HitsIn(g, b, Len(g)))
    BY <1>6 DEF IsLast, HitsIn
  <2> QED BY <1>2, <1>6, <2>1, <2>2, <2>3, <2>4, <2>5 DEF CountsFrom
<1>9. IF r.confirmed THEN Gained(g, Len(g)) ELSE Candidate(g, r)
  <2>1. r.confirmed <=> r.hits >= MinHits /\ g[Len(g)].at - r.first >= MinSpan
    BY <1>2, <1>3
  <2>2. ~IsStatic(h)
    BY <1>4 DEF Candidate
  <2> QED BY <1>2, <1>6, <1>8, <2>1, <2>2, HitCounts
<1>10. r.lastFree < Len(h) /\ r.lastFree < Len(g) /\ r.lastFree \in Int
  BY <1>2, <1>4, LongerFacts, VoxelFields
<1>11. AsSeen(g, r)
  BY <1>9, <1>10, JustGained DEF AsSeen
<1> QED BY <1>1, <1>11, Zenon

(* A keyframe that sees nothing of a candidate keeps it until its timeout. *)
LEMMA CandidateKept ==
  ASSUME NEW h, NEW g, Longer(h, g), NEW s \in VoxelState, ~s.confirmed, AsSeen(h, s),
         g[Len(g)].saw = "nothing"
  PROVE  IF g[Len(g)].at - s.last <= CandidateTimeout THEN AsSeen(g, s) ELSE Absent(g)
<1>1. s.lastFree < Len(h) /\ Candidate(h, s) /\ ~IsStatic(h)
  BY DEF AsSeen, Candidate
<1>2. PICK b \in 1 .. Len(h) : CountsFrom(h, s, b)
  BY <1>1 DEF Candidate
<1>3. PICK l \in 1 .. Len(h) : IsLast(l, HitsIn(h, b, Len(h))) /\ s.last = h[l].at
  BY <1>2 DEF CountsFrom
<1>4. /\ b \in 1 .. Len(g) /\ l \in 1 .. Len(g) /\ g[b] = h[b] /\ g[l] = h[l]
      /\ Len(h) \in Nat /\ Len(g) = Len(h) + 1 /\ Len(g) \in 1 .. Len(g)
  BY LongerFacts
<1>5. HitsIn(g, b, Len(g)) = HitsIn(h, b, Len(h))
  BY HitsNext
<1>6. ~Gained(g, Len(g))
  BY GainedMeans DEF Gained
<1>7. CASE g[Len(g)].at - s.last <= CandidateTimeout
  <2>1. Alive(g, b, Len(g))
    BY <1>2, <1>3, <1>7, AliveNext DEF CountsFrom, IsLast
  <2>2. ASSUME NEW i \in 1 .. Len(g), Alive(g, i, Len(g))
        PROVE  b <= i
    <3>1. CASE i \in 1 .. Len(h)
      BY <1>2, <2>2, <3>1, AliveNext DEF CountsFrom
    <3>2. CASE i = Len(g)
      BY <1>4, <3>2
    <3> QED BY <3>1, <3>2, LongerFacts
  <2>3. CountsFrom(g, s, b)
    BY <1>2, <1>3, <1>4, <1>5, <2>1, <2>2 DEF CountsFrom
  <2>4. Candidate(g, s)
    BY <1>1, <1>4, <1>6, <2>3, NotStaticKept DEF Candidate
  <2>5. s.lastFree < Len(g)
    BY <1>1, <1>4 DEF VoxelState, Never
  <2> QED BY <1>7, <2>4, <2>5 DEF AsSeen
<1>8. CASE ~(g[Len(g)].at - s.last <= CandidateTimeout)
  <2>1. ASSUME NEW i \in 1 .. Len(h), Alive(g, i, Len(g))
        PROVE  FALSE
    <3>1. Alive(h, i, Len(h))
      BY <2>1, AliveNext
    <3>2. PICK n \in HitsIn(h, i, Len(h)) : g[Len(g)].at - h[n].at <= CandidateTimeout
      BY <2>1, AliveNext
    <3>3. b <= i
      BY <1>2, <3>1 DEF CountsFrom
    <3>4. n \in HitsIn(h, b, Len(h)) /\ n \in 1 .. Len(h)
      BY <3>3 DEF HitsIn
    <3>5. n <= l
      BY <1>3, <3>4 DEF IsLast
    <3>6. g[n].at <= g[l].at /\ g[n] = h[n] /\ n \in 1 .. Len(g)
      BY <1>4, <3>4, <3>5, LongerFacts DEF Longer, InOrder
    <3>7. g[n].at \in Nat /\ g[l].at \in Nat /\ g[Len(g)].at \in Nat
          /\ CandidateTimeout \in Nat
      BY <1>4, <3>6, LongerFacts, FilterOptions
    <3> DEFINE now == g[Len(g)].at
               last == g[l].at
               seen == g[n].at
    <3>8. now \in Nat /\ last \in Nat /\ seen \in Nat /\ CandidateTimeout \in Nat
      BY <3>7
    <3>9. now - seen <= CandidateTimeout /\ seen <= last
      BY <3>2, <3>6
    <3>10. ~(now - last <= CandidateTimeout)
      BY <1>3, <1>4, <1>8
    <3> HIDE DEF now, last, seen
    <3> QED BY <3>8, <3>9, <3>10
  <2>2. Absent(g)
    BY <1>1, <2>1, AbsentStays
  <2> QED BY <1>8, <2>2
<1> QED BY <1>7, <1>8

(* A ray through a voxel takes every candidate away.                       *)
LEMMA CandidateSeenThrough ==
  ASSUME NEW h, NEW g, Longer(h, g), ~IsStatic(h), g[Len(g)].saw = "free"
  PROVE  Absent(g)
<1>1. \A i \in 1 .. Len(h) : ~Alive(g, i, Len(g))
  BY AliveNext
<1> QED BY <1>1, AbsentStays

LEMMA LastingKept ==
  ASSUME NEW h, NEW g, Longer(h, g), NEW s, s.lastFree \in Int, s.lastFree < Len(h),
         Lasting(h, s), g[Len(g)].saw # "free", NEW r, r.lastFree = s.lastFree
  PROVE  Lasting(g, r)
<1>1. PICK j \in 1 .. Len(h) : Gained(h, j) /\ ~LostAfter(h, j)
  BY DEF Lasting
<1>2. /\ Len(h) \in Nat /\ Len(g) = Len(h) + 1 /\ j \in 1 .. Len(g)
      /\ Len(g) \in Len(g) - FreeToRemove + 1 .. Len(g)
  BY LongerFacts, FilterOptions
<1>3. Gained(g, j) /\ ~LostAfter(g, j)
  BY <1>1, <1>2, GainedSame, LostByFree
<1>4. RunOf(g, r, j)
  BY <1>2 DEF RunOf
<1> QED BY <1>2, <1>3, <1>4 DEF Lasting

LEMMA LastingHit ==
  ASSUME NEW h, NEW g, Longer(h, g), NEW s \in VoxelState, s.confirmed, AsSeen(h, s),
         g[Len(g)].saw = "hit"
  PROVE  AsSeen(g, AfterHit(s, g[Len(g)].at))
<1> DEFINE time == g[Len(g)].at
           r == AfterHit(s, time)
<1>1. r = AfterHit(s, time) /\ time \in Nat
  BY LongerFacts
<1>0. r = AfterHit(s, g[Len(g)].at)
  OBVIOUS
<1> HIDE DEF r, time
<1>2. r \in VoxelState
  BY <1>1, HitFields
<1>3. r.lastFree = s.lastFree
  BY <1>1, HitFields
<1>4. r.confirmed
  BY <1>1, HitConfirms
<1>5. s.lastFree \in Int /\ s.lastFree < Len(h) /\ Lasting(h, s)
  BY DEF AsSeen, VoxelState, Never
<1>6. Lasting(g, r)
  BY <1>3, <1>5, LastingKept
<1>7. r.lastFree < Len(g)
  BY <1>3, <1>5, LongerFacts
<1>8. AsSeen(g, r)
  BY <1>4, <1>6, <1>7 DEF AsSeen
<1> QED BY <1>0, <1>8, Zenon

LEMMA LastingUnseen ==
  ASSUME NEW h, NEW g, Longer(h, g), NEW s \in VoxelState, s.confirmed, AsSeen(h, s),
         g[Len(g)].saw = "nothing"
  PROVE  AsSeen(g, s)
<1>1. s.lastFree \in Int /\ s.lastFree < Len(h) /\ Lasting(h, s)
  BY DEF AsSeen, VoxelState, Never
<1>2. Lasting(g, s)
  BY <1>1, LastingKept
<1>3. s.lastFree < Len(g)
  BY <1>1, LongerFacts
<1> QED BY <1>2, <1>3 DEF AsSeen

(* What AfterFree makes of an entry in the keyframe after h.               *)
LEMMA FreeFields ==
  ASSUME NEW n \in Nat, keyframeId = n, NEW s \in VoxelState, NEW r, r = AfterFree(s)
  PROVE  /\ r \in VoxelState /\ r.lastFree = n /\ (r.confirmed <=> s.confirmed)
         /\ (s.lastFree # -1 /\ s.lastFree + 1 = n => r.free = s.free + 1)
         /\ (~(s.lastFree # -1 /\ s.lastFree + 1 = n) => r.free = 1)
<1>1. \E free \in Nat :
        /\ r = [s EXCEPT !.lastFree = n, !.free = free]
        /\ free = (IF s.lastFree # -1 /\ s.lastFree + 1 = n THEN s.free + 1 ELSE 1)
  <2>1. s.free \in Nat
    BY DEF VoxelState
  <2>2. (IF s.lastFree # -1 /\ s.lastFree + 1 = n THEN s.free + 1 ELSE 1) \in Nat
    BY <2>1
  <2> QED BY <2>2 DEF AfterFree, Never
<1>2. PICK free \in Nat :
        /\ r = [s EXCEPT !.lastFree = n, !.free = free]
        /\ free = (IF s.lastFree # -1 /\ s.lastFree + 1 = n THEN s.free + 1 ELSE 1)
  BY <1>1
<1>3. r \in VoxelState
  <2>1. [s EXCEPT !.lastFree = n, !.free = free] \in VoxelState
    BY DEF VoxelState
  <2> QED BY <1>2, <2>1, Zenon
<1>4. r.free = free /\ r.lastFree = n /\ r.confirmed = s.confirmed
  BY <1>2 DEF VoxelState
<1>5. r.confirmed <=> s.confirmed
  BY <1>4, Zenon
<1> QED BY <1>2, <1>3, <1>4, <1>5

LEMMA RunGrows ==
  ASSUME NEW f \in Nat, NEW n \in Nat, NEW j \in 1 .. n, NEW most \in Nat,
         f \in 1 .. most - 1, f <= n - j, NEW e \in Nat, e = f + 1, NEW m \in Nat, m = n + 1
  PROVE  /\ e \in 1 .. most /\ e <= m - j /\ m - e = n - f /\ n - f \in 1 .. n
         /\ \A k \in n - f + 1 .. m : k = m \/ (k \in n - f + 1 .. n /\ k \in 1 .. n)
OBVIOUS

(* The counter is then the length of the run of free keyframes.            *)
LEMMA FreeRun ==
  ASSUME NEW h, NEW g, Longer(h, g), NEW s \in VoxelState, NEW j \in 1 .. Len(h),
         RunOf(h, s, j), s.lastFree < Len(h), g[Len(g)].saw = "free",
         NEW r \in VoxelState, r.lastFree = Len(h),
         s.lastFree # -1 /\ s.lastFree + 1 = Len(h) => r.free = s.free + 1,
         ~(s.lastFree # -1 /\ s.lastFree + 1 = Len(h)) => r.free = 1
  PROVE  /\ r.free \in 1 .. FreeToRemove /\ r.free <= Len(g) - j
         /\ \A k \in Len(g) - r.free + 1 .. Len(g) : g[k].saw = "free"
         /\ g[Len(g) - r.free].saw # "free"
         /\ Len(g) - r.free \in 1 .. Len(h)
<1>1. /\ Len(h) \in Nat /\ Len(g) = Len(h) + 1 /\ \A k \in 1 .. Len(h) : g[k] = h[k]
      /\ s.lastFree \in Int /\ s.free \in Nat /\ FreeToRemove \in Nat \ {0} /\ j \in Nat
  BY LongerFacts, FilterOptions, VoxelFields
<1>2. CASE s.lastFree + 1 = Len(h)
  <2>1. /\ s.free \in 1 .. FreeToRemove - 1 /\ s.free <= Len(h) - j
        /\ \A k \in Len(h) - s.free + 1 .. Len(h) : h[k].saw = "free"
        /\ h[Len(h) - s.free].saw # "free"
    BY <1>2 DEF RunOf
  <2>2. r.free = s.free + 1
    BY <1>1, <1>2
  <2>3. /\ r.free \in 1 .. FreeToRemove /\ r.free <= Len(g) - j
        /\ Len(g) - r.free = Len(h) - s.free /\ Len(g) - r.free \in 1 .. Len(h)
        /\ \A k \in Len(g) - r.free + 1 .. Len(g) :
             k = Len(g) \/ (k \in Len(h) - s.free + 1 .. Len(h) /\ k \in 1 .. Len(h))
    <3> DEFINE f == s.free
               e == r.free
               n == Len(h)
               m == Len(g)
    <3>1. /\ f \in Nat /\ n \in Nat /\ m = n + 1 /\ e = f + 1 /\ e \in Nat /\ m \in Nat
          /\ FreeToRemove \in Nat /\ j \in 1 .. n /\ f \in 1 .. FreeToRemove - 1 /\ f <= n - j
      <4>1. f \in Nat /\ n \in Nat /\ m = n + 1 /\ e = f + 1 /\ FreeToRemove \in Nat
        BY <1>1, <2>2
      <4>2. e \in Nat /\ m \in Nat
        BY <4>1
      <4>3. j \in 1 .. n /\ f \in 1 .. FreeToRemove - 1 /\ f <= n - j
        BY <2>1
      <4> QED BY <4>1, <4>2, <4>3
    <3> HIDE DEF f, e, n, m
    <3>2. /\ e \in 1 .. FreeToRemove /\ e <= m - j /\ m - e = n - f /\ n - f \in 1 .. n
          /\ \A k \in n - f + 1 .. m : k = m \/ (k \in n - f + 1 .. n /\ k \in 1 .. n)
      BY <3>1, RunGrows
    <3>3. m - e + 1 = n - f + 1 /\ m - e \in 1 .. n
      BY <3>2
    <3>4. \A k \in m - e + 1 .. m : k = m \/ (k \in n - f + 1 .. n /\ k \in 1 .. n)
      BY <3>2, <3>3, Zenon
    <3> QED BY <3>2, <3>3, <3>4, Zenon DEF f, e, n, m
  <2>4. g[Len(g) - r.free].saw # "free"
    BY <1>1, <2>1, <2>3
  <2>5. ASSUME NEW k \in Len(g) - r.free + 1 .. Len(g)
        PROVE  g[k].saw = "free"
    <3>1. k = Len(g) \/ (k \in Len(h) - s.free + 1 .. Len(h) /\ k \in 1 .. Len(h))
      BY <2>3
    <3> QED BY <1>1, <2>1, <3>1
  <2> QED BY <2>3, <2>4, <2>5
<1>3. CASE s.lastFree + 1 # Len(h)
  <2>1. h[Len(h)].saw # "free" /\ r.free = 1
    BY <1>3 DEF RunOf
  <2>2. Len(g) - r.free = Len(h) /\ Len(h) \in 1 .. Len(h)
    BY <1>1, <2>1
  <2>3. \A k \in Len(g) - r.free + 1 .. Len(g) : k = Len(g)
    BY <1>1, <2>2
  <2> QED BY <1>1, <2>1, <2>2, <2>3
<1> QED BY <1>2, <1>3

(* Rays that go through a confirmed voxel take it away just if its history *)
(* says that it is lost.                                                   *)
LEMMA LastingFree ==
  ASSUME NEW h, NEW g, Longer(h, g), keyframeId = Len(h), NEW s \in VoxelState, s.confirmed,
         AsSeen(h, s), g[Len(g)].saw = "free", NEW r, r = AfterFree(s)
  PROVE  IF r.free >= FreeToRemove THEN Absent(g) ELSE AsSeen(g, r)
<1>1. /\ Len(h) \in Nat /\ Len(g) = Len(h) + 1 /\ \A k \in 1 .. Len(h) : g[k] = h[k]
      /\ FreeToRemove \in Nat \ {0} /\ g \in Seq(Frame)
  BY LongerFacts, FilterOptions
<1>2. r \in VoxelState /\ r.lastFree = Len(h) /\ r.confirmed
  BY <1>1, FreeFields
<1>3. /\ (s.lastFree # -1 /\ s.lastFree + 1 = Len(h) => r.free = s.free + 1)
      /\ (~(s.lastFree # -1 /\ s.lastFree + 1 = Len(h)) => r.free = 1)
  BY <1>1, FreeFields
<1>4. s.lastFree < Len(h) /\ Lasting(h, s)
  BY DEF AsSeen
<1>5. PICK j \in 1 .. Len(h) : Gained(h, j) /\ ~LostAfter(h, j) /\ RunOf(h, s, j)
  BY <1>4 DEF Lasting
<1>6. /\ r.free \in 1 .. FreeToRemove /\ r.free <= Len(g) - j
      /\ \A k \in Len(g) - r.free + 1 .. Len(g) : g[k].saw = "free"
      /\ g[Len(g) - r.free].saw # "free"
      /\ Len(g) - r.free \in 1 .. Len(h)
  BY <1>2, <1>3, <1>4, <1>5, FreeRun
<1>7. CASE r.free < FreeToRemove
  <2>1. j \in 1 .. Len(g) /\ Len(g) - r.free \in Len(g) - FreeToRemove + 1 .. Len(g)
    BY <1>1, <1>6, <1>7
  <2>2. Gained(g, j) /\ ~LostAfter(g, j)
    BY <1>5, <1>6, <2>1, GainedSame, LostByFree
  <2>3. RunOf(g, r, j)
    BY <1>1, <1>2, <1>6, <1>7 DEF RunOf
  <2>4. Lasting(g, r) /\ r.lastFree < Len(g)
    BY <1>1, <1>2, <2>1, <2>2, <2>3 DEF Lasting
  <2>5. ~(r.free >= FreeToRemove)
    BY <1>1, <1>6, <1>7
  <2> QED BY <1>2, <2>4, <2>5 DEF AsSeen
<1>8. CASE r.free = FreeToRemove
  <2>1. ASSUME NEW i \in 1 .. Len(g), Gained(g, i), ~LostAfter(g, i)
        PROVE  FALSE
    <3>1. g[i].saw = "hit"
      BY <2>1 DEF Gained, GainedIn
    <3>2. ~(i \in Len(g) - r.free + 1 .. Len(g))
      BY <1>6, <3>1
    <3>3. Len(g) - FreeToRemove + 1 \in i + 1 .. Len(g) - FreeToRemove + 1
      BY <1>1, <1>6, <1>8, <3>2
    <3>4. \A n \in Len(g) - FreeToRemove + 1 .. Len(g) - FreeToRemove + 1 + FreeToRemove - 1 :
            g[n].saw = "free"
      BY <1>1, <1>6, <1>8
    <3> QED BY <2>1, <3>3, <3>4 DEF LostAfter
  <2>2. ~IsStatic(g)
    BY <1>1, <2>1, StaticMeans
  <2>3. \A i \in 1 .. Len(g) : ~Alive(g, i, Len(g))
    BY AliveNext, AliveNew, LongerFacts
  <2> QED BY <1>8, <1>6, <2>2, <2>3 DEF Absent
<1> QED BY <1>1, <1>6, <1>7, <1>8

-----------------------------------------------------------------------------
(* One frame of one voxel.                                                 *)
StateOf(v) == IF v \in DOMAIN states THEN states[v] ELSE NoHits
Counted(v, hit, time) == IF v \in hit THEN AfterHit(StateOf(v), time) ELSE states[v]
Saw(v, hit, through) == IF v \in hit THEN "hit" ELSE IF v \in through THEN "free" ELSE "nothing"

LEMMA FrameStates ==
  ASSUME NEW hit \in SUBSET Voxels, NEW through \in SUBSET Voxels, NEW time \in Nat,
         IsKeyframe(time), ProcessFrame(hit, through, time)
  PROVE  /\ DOMAIN states' \subseteq Known(hit)
         /\ \A v \in Known(hit) :
              /\ v \in DOMAIN states' <=>
                   ~Erased(Counted(v, hit, time), v \in FreeKeys(hit, through), time)
              /\ v \in DOMAIN states' =>
                   states'[v] = IF v \in FreeKeys(hit, through)
                                THEN AfterFree(Counted(v, hit, time)) ELSE Counted(v, hit, time)
<1> DEFINE counted == [v \in Known(hit) |->
             IF v \in hit
             THEN AfterHit(IF v \in DOMAIN states THEN states[v] ELSE NoHits, time)
             ELSE states[v]]
           free == FreeKeys(hit, through)
           kept == {v \in Known(hit) : ~Erased(counted[v], v \in free, time)}
<1>1. states' = [v \in kept |-> IF v \in free THEN AfterFree(counted[v]) ELSE counted[v]]
  BY Zenon DEF ProcessFrame
<1>2. \A v \in Known(hit) : counted[v] = Counted(v, hit, time)
  BY Zenon DEF Counted, StateOf
<1> HIDE DEF counted, free
<1>3. DOMAIN states' = kept
  BY <1>1, Zenon
<1>4. kept \subseteq Known(hit)
  OBVIOUS
<1>5. ASSUME NEW v \in Known(hit)
      PROVE  v \in kept <=> ~Erased(Counted(v, hit, time), v \in free, time)
  BY <1>2, Zenon
<1>6. ASSUME NEW v \in Known(hit), v \in kept
      PROVE  states'[v] = IF v \in free THEN AfterFree(Counted(v, hit, time))
                          ELSE Counted(v, hit, time)
  <2>1. states'[v] = IF v \in free THEN AfterFree(counted[v]) ELSE counted[v]
    BY <1>1, <1>6, Zenon
  <2> QED BY <1>2, <2>1, Zenon
<1> HIDE DEF kept
<1> QED BY <1>3, <1>4, <1>5, <1>6, Zenon DEF free

LEMMA FrameRest ==
  ASSUME NEW hit \in SUBSET Voxels, NEW through \in SUBSET Voxels, NEW time \in Nat,
         IsKeyframe(time), ProcessFrame(hit, through, time)
  PROVE  /\ lastKeyframe' = time /\ keyframeId' = keyframeId + 1
         /\ observed' = [v \in Voxels |->
                            Append(observed[v], [saw |-> Saw(v, hit, through), at |-> time])]
BY Zenon DEF ProcessFrame, Saw

LEMMA FrameAdds ==
  ASSUME FilterInv, NEW hit \in SUBSET Voxels, NEW through \in SUBSET Voxels, NEW time \in Nat,
         IsKeyframe(time), ProcessFrame(hit, through, time), NEW v \in Voxels
  PROVE  /\ Longer(observed[v], observed'[v]) /\ Len(observed'[v]) = keyframeId'
         /\ Len(observed[v]) = keyframeId
         /\ observed'[v][Len(observed'[v])].saw = Saw(v, hit, through)
         /\ observed'[v][Len(observed'[v])].at = time
<1> DEFINE h == observed[v]
           g == observed'[v]
           f == [saw |-> Saw(v, hit, through), at |-> time]
<1>1. /\ h \in Seq(Frame) /\ Len(h) = keyframeId /\ InOrder(h)
      /\ (keyframeId > 0 => h[keyframeId].at = lastKeyframe)
      /\ keyframeId \in Nat /\ (keyframeId = 0 <=> lastKeyframe = Never)
      /\ lastKeyframe \in Nat \cup {Never}
  BY DEF FilterInv, FilterOK, Frame
<1>2. f \in Frame /\ f.saw = Saw(v, hit, through) /\ f.at = time
  BY DEF Frame, Saw
<1>3. g = Append(h, f) /\ keyframeId' = keyframeId + 1
  <2>1. observed' = [w \in Voxels |->
                       Append(observed[w], [saw |-> Saw(w, hit, through), at |-> time])]
        /\ keyframeId' = keyframeId + 1
    BY FrameRest
  <2> QED BY <2>1, Zenon
<1>4. lastKeyframe # Never => time >= lastKeyframe
  BY <1>1, FilterOptions DEF IsKeyframe, Never
<1> HIDE DEF h, g, f
<1>5. /\ g \in Seq(Frame) /\ Len(g) = Len(h) + 1 /\ g[Len(g)] = f
      /\ \A i \in 1 .. Len(h) : g[i] = h[i]
  BY <1>1, <1>2, <1>3
<1>6. InOrder(g)
  <2>1. SUFFICES ASSUME NEW i \in 1 .. Len(g), NEW j \in 1 .. Len(g), i <= j
                 PROVE  g[i].at <= g[j].at
    BY DEF InOrder
  <2>2. CASE j \in 1 .. Len(h)
    BY <1>1, <1>5, <2>1, <2>2 DEF InOrder
  <2>3. CASE j = Len(g) /\ i = Len(g)
    BY <1>2, <1>5, <2>3
  <2>4. CASE j = Len(g) /\ i \in 1 .. Len(h)
    <3>1. Len(h) \in 1 .. Len(h) /\ i <= Len(h) /\ keyframeId > 0
      BY <1>1, <2>4
    <3>2. h[i].at <= h[Len(h)].at /\ h[Len(h)].at = lastKeyframe /\ lastKeyframe # Never
      BY <1>1, <2>4, <3>1 DEF InOrder
    <3>3. h[i] \in Frame
      BY <1>1, <2>4
    <3>4. h[i].at \in Nat
      BY <3>3 DEF Frame
    <3>5. lastKeyframe \in Nat
      BY <1>1, <3>2
    <3>6. g[i].at = h[i].at /\ g[j].at = time
      BY <1>2, <1>5, <2>4
    <3> QED BY <1>4, <3>2, <3>4, <3>5, <3>6
  <2> QED BY <1>1, <1>5, <2>1, <2>2, <2>3, <2>4
<1>7. Longer(h, g)
  BY <1>1, <1>5, <1>6 DEF Longer
<1>8. Len(g) = keyframeId + 1 /\ g[Len(g)].saw = Saw(v, hit, through) /\ g[Len(g)].at = time
  BY <1>1, <1>2, <1>5
<1> QED BY <1>1, <1>3, <1>7, <1>8, Zenon DEF h, g

(* What FilterInv says of one voxel.                                       *)
Fits(v) ==
  IF v \in DOMAIN states THEN states[v] \in VoxelState /\ AsSeen(observed[v], states[v])
  ELSE Absent(observed[v])

LEMMA FitsInv == FilterInv => \A v \in Voxels : Fits(v)
BY DEF FilterInv, FilterOK, Fits

LEMMA VoxelHit ==
  ASSUME FilterInv, NEW hit \in SUBSET Voxels, NEW through \in SUBSET Voxels, NEW time \in Nat,
         IsKeyframe(time), ProcessFrame(hit, through, time), NEW v \in hit
  PROVE  Fits(v)'
<1> DEFINE h == observed[v]
           g == observed'[v]
           s == StateOf(v)
           r == AfterHit(s, time)
<1>1. /\ Longer(h, g) /\ g[Len(g)].saw = "hit" /\ g[Len(g)].at = time
  BY FrameAdds DEF Saw
<1>2. Fits(v) /\ v \in Known(hit) /\ v \notin FreeKeys(hit, through)
  BY FitsInv DEF Known, FreeKeys
<1>3. r = Counted(v, hit, time)
  BY DEF Counted
<1>4. s = IF v \in DOMAIN states THEN states[v] ELSE NoHits
  BY DEF StateOf
<1> HIDE DEF s
<1>5. r = AfterHit(s, time)
  OBVIOUS
<1>6. s \in VoxelState
  BY <1>2, <1>4, NewHit DEF Fits
<1>7. AsSeen(g, r)
  <2>1. CASE v \notin DOMAIN states
    <3>1. Absent(h) /\ s = NoHits
      BY <1>2, <1>4, <2>1 DEF Fits
    <3>2. AsSeen(g, AfterHit(NoHits, g[Len(g)].at))
      BY <1>1, <3>1, FirstHit
    <3> QED BY <1>1, <3>1, <3>2, Zenon
  <2>2. CASE v \in DOMAIN states
    <3>1. AsSeen(h, s)
      BY <1>2, <1>4, <2>2 DEF Fits
    <3>2. AsSeen(g, AfterHit(s, g[Len(g)].at))
      BY <1>1, <1>6, <3>1, CandidateHit, LastingHit, Zenon
    <3> QED BY <1>1, <3>2, Zenon
  <2> QED BY <2>1, <2>2
<1> HIDE DEF r
<1>8. r \in VoxelState
  BY <1>5, <1>6, HitFields
<1>9. r.last = time
  BY <1>5, <1>6, HitFields
<1>10. ~Erased(r, v \in FreeKeys(hit, through), time)
  BY <1>2, <1>9, FilterOptions DEF Erased
<1>11. v \in DOMAIN states' /\ states'[v] = r
  BY <1>2, <1>3, <1>10, FrameStates, Zenon
<1> QED BY <1>7, <1>8, <1>11, Zenon DEF Fits

LEMMA VoxelThrough ==
  ASSUME FilterInv, NEW hit \in SUBSET Voxels, NEW through \in SUBSET Voxels, NEW time \in Nat,
         IsKeyframe(time), ProcessFrame(hit, through, time), NEW v \in through, v \notin hit,
         v \in DOMAIN states
  PROVE  Fits(v)'
<1> DEFINE h == observed[v]
           g == observed'[v]
           s == states[v]
           r == AfterFree(s)
<1>1. /\ Longer(h, g) /\ g[Len(g)].saw = "free" /\ g[Len(g)].at = time
      /\ keyframeId = Len(h)
  BY FrameAdds DEF Saw
<1>2. Fits(v) /\ v \in Known(hit) /\ v \in FreeKeys(hit, through)
  BY FitsInv DEF Known, FreeKeys
<1>3. s \in VoxelState /\ AsSeen(h, s)
  BY <1>2 DEF Fits
<1>4. s = Counted(v, hit, time)
  BY DEF Counted
<1> DEFINE free == v \in FreeKeys(hit, through)
           c == Counted(v, hit, time)
<1>5. /\ v \in DOMAIN states' <=> ~Erased(s, v \in FreeKeys(hit, through), time)
      /\ v \in DOMAIN states' => states'[v] = r
  <2>1. /\ v \in DOMAIN states' <=> ~Erased(c, free, time)
        /\ v \in DOMAIN states' => states'[v] = IF free THEN AfterFree(c) ELSE c
    BY <1>2, FrameStates, Zenon
  <2>2. free
    BY <1>2
  <2>3. c = s
    BY <1>4
  <2> HIDE DEF c, free
  <2>4. v \in DOMAIN states' => states'[v] = AfterFree(c)
    BY <2>1, <2>2
  <2>5. free = (v \in FreeKeys(hit, through))
    BY DEF free
  <2> QED BY <2>1, <2>3, <2>4, <2>5, Zenon
<1>6. r = AfterFree(s)
  OBVIOUS
<1>7. Erased(s, v \in FreeKeys(hit, through), time) <=>
        \/ ~s.confirmed \/ r.free >= FreeToRemove
        \/ ~s.confirmed /\ time - s.last > CandidateTimeout
  BY <1>2, Zenon DEF Erased
<1> HIDE DEF s, r
<1>8. CASE ~s.confirmed
  <2>1. v \notin DOMAIN states'
    BY <1>5, <1>7, <1>8
  <2>2. ~IsStatic(h)
    BY <1>3, <1>8 DEF AsSeen, Candidate
  <2>3. Absent(g)
    BY <1>1, <2>2, CandidateSeenThrough
  <2> QED BY <2>1, <2>3, Zenon DEF Fits
<1>9. CASE s.confirmed
  <2>1. IF r.free >= FreeToRemove THEN Absent(g) ELSE AsSeen(g, r)
    BY <1>1, <1>3, <1>6, <1>9, LastingFree
  <2>2. r \in VoxelState
    BY <1>1, <1>3, <1>6, LongerFacts, FreeFields
  <2> QED BY <1>5, <1>7, <1>9, <2>1, <2>2, Zenon DEF Fits
<1> QED BY <1>8, <1>9

LEMMA VoxelUnseen ==
  ASSUME FilterInv, NEW hit \in SUBSET Voxels, NEW through \in SUBSET Voxels, NEW time \in Nat,
         IsKeyframe(time), ProcessFrame(hit, through, time), NEW v \in Voxels, v \notin hit,
         v \notin through, v \in DOMAIN states
  PROVE  Fits(v)'
<1> DEFINE h == observed[v]
           g == observed'[v]
           s == states[v]
<1>1. /\ Longer(h, g) /\ g[Len(g)].saw = "nothing" /\ g[Len(g)].at = time
  BY FrameAdds DEF Saw
<1>2. Fits(v) /\ v \in Known(hit) /\ v \notin FreeKeys(hit, through)
  BY FitsInv DEF Known, FreeKeys
<1>3. s \in VoxelState /\ AsSeen(h, s)
  BY <1>2 DEF Fits
<1>4. s = Counted(v, hit, time)
  BY DEF Counted
<1>5. /\ v \in DOMAIN states' <=> ~Erased(s, v \in FreeKeys(hit, through), time)
      /\ v \in DOMAIN states' => states'[v] = s
  <2> DEFINE c == Counted(v, hit, time)
  <2>1. /\ v \in DOMAIN states' <=> ~Erased(c, v \in FreeKeys(hit, through), time)
        /\ v \in DOMAIN states' =>
             states'[v] = IF v \in FreeKeys(hit, through) THEN AfterFree(c) ELSE c
    BY <1>2, FrameStates, Zenon
  <2>2. s = c
    BY <1>4
  <2> HIDE DEF c, s
  <2> QED BY <1>2, <2>1, <2>2, Zenon
<1>6. Erased(s, v \in FreeKeys(hit, through), time) <=>
        ~s.confirmed /\ time - s.last > CandidateTimeout
  BY <1>2, Zenon DEF Erased
<1> HIDE DEF s
<1>7. CASE ~s.confirmed
  <2>1. IF time - s.last <= CandidateTimeout THEN AsSeen(g, s) ELSE Absent(g)
    BY <1>1, <1>3, <1>7, CandidateKept, Zenon
  <2>2. time - s.last > CandidateTimeout <=> ~(time - s.last <= CandidateTimeout)
    BY <1>3, FilterOptions DEF VoxelState
  <2> QED BY <1>3, <1>5, <1>6, <1>7, <2>1, <2>2, Zenon DEF Fits
<1>8. CASE s.confirmed
  <2>1. AsSeen(g, s)
    BY <1>1, <1>3, <1>8, LastingUnseen
  <2> QED BY <1>3, <1>5, <1>6, <1>8, <2>1, Zenon DEF Fits
<1> QED BY <1>7, <1>8

LEMMA VoxelStep ==
  ASSUME FilterInv, NEW hit \in SUBSET Voxels, NEW through \in SUBSET Voxels, NEW time \in Nat,
         IsKeyframe(time), ProcessFrame(hit, through, time), NEW v \in Voxels
  PROVE  Fits(v)'
<1>1. CASE v \in hit
  BY <1>1, VoxelHit
<1>2. CASE v \notin hit /\ v \in DOMAIN states /\ v \in through
  BY <1>2, VoxelThrough
<1>3. CASE v \notin hit /\ v \in DOMAIN states /\ v \notin through
  BY <1>3, VoxelUnseen
<1>4. CASE v \notin hit /\ v \notin DOMAIN states
  <2>1. v \notin DOMAIN states'
    BY <1>4, FrameStates DEF Known
  <2>2. Longer(observed[v], observed'[v])
        /\ observed'[v][Len(observed'[v])].saw = Saw(v, hit, through)
    BY FrameAdds
  <2>3. Absent(observed[v]) /\ Saw(v, hit, through) # "hit"
    BY <1>4 DEF FilterInv, Saw
  <2>4. Absent(observed'[v])
    BY <2>2, <2>3, UnseenStays
  <2> QED BY <2>1, <2>4, Zenon DEF Fits
<1> QED BY <1>1, <1>2, <1>3, <1>4

(* ProcessFrame keeps every entry to what the keyframes have seen.         *)
LEMMA FilterStep ==
  ASSUME FilterInv, NEW hit \in SUBSET Voxels, NEW through \in SUBSET Voxels, NEW time \in Nat,
         ProcessFrame(hit, through, time)
  PROVE  FilterInv'
<1>1. CASE UNCHANGED filterVars
  BY <1>1 DEF FilterInv, FilterOK, filterVars
<1>2. CASE IsKeyframe(time)
  <2>1. \A v \in Voxels : Fits(v)'
    BY <1>2, VoxelStep
  <2>2. DOMAIN states' \subseteq Voxels
    BY <1>2, FrameStates DEF Known, FilterInv, FilterOK
  <2>3. \A v \in DOMAIN states' : states'[v] \in VoxelState
    BY <2>1, <2>2 DEF Fits
  <2>4. lastKeyframe' = time /\ keyframeId' = keyframeId + 1 /\ keyframeId \in Nat
    BY <1>2, FrameRest DEF FilterInv, FilterOK
  <2>5. observed' \in [Voxels -> Seq([saw : {"hit", "free", "nothing"}, at : Nat])]
    <3>1. observed' = [v \in Voxels |->
                         Append(observed[v], [saw |-> Saw(v, hit, through), at |-> time])]
      BY <1>2, FrameRest
    <3>2. ASSUME NEW v \in Voxels
          PROVE  Append(observed[v], [saw |-> Saw(v, hit, through), at |-> time])
                   \in Seq([saw : {"hit", "free", "nothing"}, at : Nat])
      <4>1. observed[v] \in Seq([saw : {"hit", "free", "nothing"}, at : Nat])
        BY DEF FilterInv, FilterOK
      <4>2. [saw |-> Saw(v, hit, through), at |-> time]
              \in [saw : {"hit", "free", "nothing"}, at : Nat]
        BY DEF Saw
      <4> QED BY <4>1, <4>2
    <3> QED BY <3>1, <3>2
  <2>6. FilterOK'
    BY <2>2, <2>3, <2>4, <2>5 DEF FilterOK
  <2>7. ASSUME NEW v \in Voxels
        PROVE  /\ Len(observed'[v]) = keyframeId' /\ InOrder(observed'[v])
               /\ keyframeId' > 0 => observed'[v][keyframeId'].at = lastKeyframe'
    <3>1. /\ Longer(observed[v], observed'[v]) /\ Len(observed'[v]) = keyframeId'
          /\ observed'[v][Len(observed'[v])].at = time
      BY <1>2, FrameAdds
    <3> QED BY <2>4, <3>1, Zenon DEF Longer
  <2>8. keyframeId' # 0 /\ lastKeyframe' # Never
    BY <2>4 DEF Never
  <2>9. \A v \in Voxels : /\ v \notin DOMAIN states' => Absent(observed'[v])
                          /\ v \in DOMAIN states' => AsSeen(observed'[v], states'[v])
    BY <2>1, Zenon DEF Fits
  <2> QED BY <2>6, <2>7, <2>8, <2>9 DEF FilterInv
<1>3. CASE ~IsKeyframe(time)
  BY <1>1, <1>3 DEF ProcessFrame
<1> QED BY <1>2, <1>3

LEMMA FilterBegins == FilterInit => FilterInv
<1>1. SUFFICES ASSUME FilterInit  PROVE FilterInv
  OBVIOUS
<1>2. states = <<>> /\ lastKeyframe = Never /\ keyframeId = 0
      /\ observed = [v \in Voxels |-> <<>>]
  BY <1>1 DEF FilterInit
<1>3. DOMAIN states = {}
  BY <1>2
<1>4. FilterOK
  BY <1>2, <1>3 DEF FilterOK, Never
<1>5. \A v \in Voxels : observed[v] = <<>> /\ Len(observed[v]) = 0
  BY <1>2
<1>6. ASSUME NEW v \in Voxels  PROVE InOrder(observed[v]) /\ Absent(observed[v])
  <2>1. <<>> \in Seq(Frame) /\ \A i \in 1 .. 0 : FALSE
    OBVIOUS
  <2>2. observed[v] \in Seq(Frame) /\ \A i \in 1 .. Len(observed[v]) : FALSE
    BY <1>5, <2>1, Zenon
  <2>3. ~IsStatic(observed[v])
    BY <2>2, StaticMeans
  <2>4. InOrder(observed[v])
    BY <2>2 DEF InOrder
  <2> QED BY <2>2, <2>3, <2>4, Zenon DEF Absent
<1> QED BY <1>2, <1>3, <1>4, <1>5, <1>6 DEF FilterInv

(* The scan in measures_ ends at a time.                                   *)
EndsInTime == measures.end \in Nat /\ meanScan \in Nat

LEMMA PushedEnds ==
  ASSUME InStep, EndsInTime, BothWait
  PROVE  Pushed.end \in Nat /\ MeanScan \in Nat
<1>1. CASE measures.pushed
  BY <1>1, ScanAssumption DEF Pushed, MeanScan, EndsInTime
<1>2. CASE ~measures.pushed
  <2>1. Len(timeBuffer) > 0 /\ timeBuffer \in Seq(Nat)
    BY DEF BothWait, InStep, BufferTypes
  <2>2. Head(timeBuffer) \in Nat
    BY <2>1
  <2>3. Pushed.end = EndOf(Head(lidarBuffer), Head(timeBuffer))
    BY <1>2 DEF Pushed
  <2> QED BY <2>2, <2>3, ScanAssumption DEF EndOf, MeanScan, EndsInTime
<1> QED BY <1>1, <1>2

(* Only a scan that is put in the map touches the filter.                  *)
LEMMA FilterInvStep ==
  ASSUME InStep, EndsInTime, FilterInv, [Next]_vars
  PROVE  EndsInTime' /\ FilterInv'
<1>1. ASSUME UNCHANGED <<measures, meanScan>>  PROVE EndsInTime'
  BY <1>1 DEF EndsInTime
<1>2. ASSUME UNCHANGED filterVars  PROVE FilterInv'
  BY <1>2 DEF FilterInv, FilterOK, filterVars
<1>3. ASSUME TakeAndProcess  PROVE EndsInTime' /\ Pushed.end \in Nat
  <2>1. BothWait /\ measures' = NoMeasures /\ meanScan' = MeanScan
    BY <1>3 DEF TakeAndProcess, TakeScan
  <2> QED BY <2>1, PushedEnds DEF EndsInTime, NoMeasures
<1>4. CASE UNCHANGED vars
  BY <1>1, <1>2, <1>4 DEF vars, mapVars
<1>5. ASSUME NEW t \in 1 .. MaxTime, NEW pts \in {"none", "few", "full"}, LidarArrives(t, pts)
      PROVE  EndsInTime' /\ FilterInv'
  BY <1>1, <1>2, <1>5 DEF LidarArrives, mapVars
<1>6. ASSUME NEW t \in 1 .. MaxTime, ImuArrives(t)
      PROVE  EndsInTime' /\ FilterInv'
  BY <1>1, <1>2, <1>6 DEF ImuArrives, mapVars
<1>7. CASE PoseArrives
  BY <1>1, <1>2, <1>7 DEF PoseArrives, mapVars
<1>8. CASE ScanWaits
  <2>1. BothWait /\ measures' = Pushed /\ meanScan' = MeanScan /\ UNCHANGED filterVars
    BY <1>8 DEF ScanWaits, mapVars
  <2> QED BY <1>2, <2>1, PushedEnds DEF EndsInTime
<1>9. CASE SkipScan
  BY <1>2, <1>3, <1>9 DEF SkipScan, mapVars
<1>10. CASE FirstScan
  BY <1>2, <1>3, <1>10 DEF FirstScan, mapVars
<1>11. CASE Matches
  <2>1. CASE LocateScan
    BY <1>2, <1>3, <2>1 DEF LocateScan
  <2>2. ASSUME NEW hit \in SUBSET Voxels, NEW through \in SUBSET (Voxels \ hit),
               MapScan(hit, through)
        PROVE  EndsInTime' /\ FilterInv'
    <3>1. TakeAndProcess /\ ProcessFrame(hit, through, Pushed.end)
      BY <2>2 DEF MapScan, PublishFrameWorld
    <3>2. through \in SUBSET Voxels
      OBVIOUS
    <3> QED BY <1>3, <3>1, <3>2, FilterStep
  <2> QED BY <1>11, <2>1, <2>2 DEF Matches
<1>12. ASSUME NEW fits \in BOOLEAN, AlignScan(fits)
       PROVE  EndsInTime' /\ FilterInv'
  BY <1>2, <1>3, <1>12 DEF AlignScan, mapVars
<1>13. ASSUME NEW features \in BOOLEAN, Finish(features)
       PROVE  EndsInTime' /\ FilterInv'
  BY <1>1, <1>2, <1>13 DEF Finish
<1> QED BY <1>4, <1>5, <1>6, <1>7, <1>8, <1>9, <1>10, <1>11, <1>12, <1>13 DEF Next

LEMMA FilterInvShows ==
  ASSUME FilterInv
  PROVE  StaticIsAsObserved
<1>1. SUFFICES ASSUME NEW v \in Voxels
               PROVE  v \in Confirmed <=> IsStatic(observed[v])
  BY DEF StaticIsAsObserved
<1>2. observed[v] \in Seq(Frame)
  BY DEF FilterInv, FilterOK, Frame
<1>3. CASE v \notin DOMAIN states
  BY <1>3 DEF FilterInv, Absent, Confirmed
<1>4. CASE v \in DOMAIN states /\ ~states[v].confirmed
  BY <1>4 DEF FilterInv, AsSeen, Candidate, Confirmed
<1>5. CASE v \in DOMAIN states /\ states[v].confirmed
  <2>1. Lasting(observed[v], states[v])
    BY <1>5 DEF FilterInv, AsSeen
  <2>2. IsStatic(observed[v])
    BY <1>2, <2>1, StaticMeans DEF Lasting
  <2> QED BY <1>5, <2>2 DEF Confirmed
<1> QED BY <1>3, <1>4, <1>5

(* The voxels that are kept for the static map are exactly those that the
   keyframes have seen to be part of the building: whatever the options of
   the filter, the number of voxels and the order of what is hit, seen
   through and not seen, ProcessFrame's counters, which are reset, dropped
   with the entry and begun anew, never say anything else than the history. *)
THEOREM StaticAsObserved == Spec => []StaticIsAsObserved
<1>1. Init => InStep /\ EndsInTime /\ FilterInv
  <2>1. SUFFICES ASSUME Init  PROVE InStep /\ EndsInTime /\ FilterInv
    OBVIOUS
  <2>2. InStep
    BY <2>1, BeginsInStep
  <2>3. EndsInTime
    BY <2>1 DEF Init, EndsInTime, NoMeasures
  <2>4. FilterInv
    BY <2>1, FilterBegins DEF Init
  <2> QED BY <2>2, <2>3, <2>4
<1>2. InStep /\ EndsInTime /\ FilterInv /\ [Next]_vars => (InStep /\ EndsInTime /\ FilterInv)'
  BY InStepStep, FilterInvStep
<1>3. InStep /\ EndsInTime /\ FilterInv => StaticIsAsObserved
  BY FilterInvShows
<1> QED BY <1>1, <1>2, <1>3, PTL DEF Spec
-----------------------------------------------------------------------------
(* The time of the state.  While the stamps of the IMU have not gone back, *)
(* the samples that wait are in order and none is earlier than what the    *)
(* state has been carried to: the last sample used, or the end of the last *)
(* scan that came with samples if that is later.                           *)
Later(t) == IF t < imu.scanEnd THEN imu.scanEnd ELSE t
CarriedTo == Later(imu.used)
ClockTypes ==
  /\ lastImu \in Int /\ meanScan \in Nat /\ measures.end \in Nat
  /\ imu.used \in Nat /\ imu.scanEnd \in Nat
SamplesLate ==
  /\ \A i, j \in 1 .. Len(imuBuffer) : i <= j => imuBuffer[i] <= imuBuffer[j]
  /\ \A i \in 1 .. Len(imuBuffer) : CarriedTo <= imuBuffer[i] /\ imuBuffer[i] <= lastImu
  /\ CarriedTo = 0 \/ CarriedTo <= lastImu
StateInTime == imu.init \/ imu.time = CarriedTo
InTime == ClockTypes /\ ("imu" \notin jumped => SamplesLate /\ StateInTime)

(* The least of some numbers. *)
LEMMA LeastNumber ==
  ASSUME NEW T, T \subseteq Nat, T # {}
  PROVE  \E k \in T : \A m \in T : k <= m
<1> DEFINE below == {0 .. k : k \in T}
<1>1. below \subseteq FiniteSubsetsOf(Nat) /\ below # {}
  <2>1. \A k \in T : IsFiniteSet(0 .. k) /\ 0 .. k \in SUBSET Nat
    BY FS_Interval
  <2> QED BY <2>1 DEF FiniteSubsetsOf
<1> HIDE DEF below
<1>2. PICK x \in below : \A y \in below : <<y, x>> \notin StrictSubsetOrdering(Nat)
  BY <1>1, FS_StrictSubsetOrderingWellFounded, WFMin
<1>3. PICK k \in T : x = 0 .. k
  BY DEF below
<1>4. ASSUME NEW m \in T, ~(k <= m)
      PROVE  FALSE
  <2>1. 0 .. m \subseteq 0 .. k /\ 0 .. m # 0 .. k
    <3>1. k \in 0 .. k /\ k \notin 0 .. m
      BY <1>4
    <3> QED BY <1>4, <3>1
  <2>2. 0 .. m \in below /\ 0 .. m \in SUBSET Nat /\ 0 .. k \in SUBSET Nat
    BY DEF below
  <2> QED BY <1>2, <1>3, <2>1, <2>2 DEF StrictSubsetOrdering
<1> QED BY <1>4

(* Samples in order carry the state from the first to the last of them, or *)
(* from and to the end of the scan before where that is later.             *)
LEMMA PredictedIs ==
  ASSUME imu.scanEnd \in Nat, NEW s, NEW i \in Nat, s[i] \in Nat, s[i - 1] \in Nat,
         s[i - 1] <= s[i]
  PROVE  Predicted(s, i) = Later(s[i]) - Later(s[i - 1])
<1> DEFINE a == s[i - 1]
           b == s[i]
           e == imu.scanEnd
<1>1. Predicted(s, i) = IF b < e THEN 0 ELSE b - (IF a < e THEN e ELSE a)
  BY DEF Predicted
<1>2. Later(b) = (IF b < e THEN e ELSE b) /\ Later(a) = (IF a < e THEN e ELSE a)
  BY DEF Later
<1>3. a \in Nat /\ b \in Nat /\ e \in Nat /\ a <= b
  OBVIOUS
<1> HIDE DEF a, b, e
<1>4. Predicted(s, i) = Later(b) - Later(a)
  BY <1>1, <1>2, <1>3
<1> QED BY <1>4 DEF a, b

LEMMA CarriedIs ==
  ASSUME imu.scanEnd \in Nat, NEW s \in Seq(Nat), Len(s) >= 1,
         \A i \in 2 .. Len(s) : s[i - 1] <= s[i]
  PROVE  Carried(s) = Later(s[Len(s)]) - Later(s[1])
<1> DEFINE n == Len(s)
           To(g) == [i \in 1 .. n |-> IF i = 1 THEN 0 ELSE g[i - 1] + Predicted(s, i)]
           to == CHOOSE g : g = To(g)
           c == [i \in 1 .. n |-> Later(s[i]) - Later(s[1])]
<1>1. n \in Nat /\ n >= 1 /\ \A i \in 1 .. n : s[i] \in Nat /\ Later(s[i]) \in Nat
  BY DEF Later
<1>2. \A i \in 2 .. n : Predicted(s, i) = Later(s[i]) - Later(s[i - 1])
  <2>1. ASSUME NEW i \in 2 .. n
        PROVE  Predicted(s, i) = Later(s[i]) - Later(s[i - 1])
    <3>1. i \in Nat /\ s[i] \in Nat /\ s[i - 1] \in Nat /\ s[i - 1] <= s[i]
      BY <1>1
    <3> QED BY <3>1, PredictedIs
  <2> QED BY <2>1
<1>3. ASSUME NEW i \in 1 .. n
      PROVE  c[i] = IF i = 1 THEN 0 ELSE c[i - 1] + Predicted(s, i)
  <2>1. CASE i = 1
    <3>1. c[1] = Later(s[1]) - Later(s[1])
      BY <1>1
    <3> QED BY <1>1, <2>1, <3>1
  <2>2. CASE i # 1
    <3>1. i \in 2 .. n /\ i - 1 \in 1 .. n
      BY <1>1, <2>2
    <3>2. c[i] = Later(s[i]) - Later(s[1]) /\ c[i - 1] = Later(s[i - 1]) - Later(s[1])
      BY <3>1
    <3>3. Predicted(s, i) = Later(s[i]) - Later(s[i - 1])
      BY <1>2, <3>1
    <3>4. Later(s[i]) \in Nat /\ Later(s[i - 1]) \in Nat /\ Later(s[1]) \in Nat
      BY <1>1, <3>1
    <3> QED BY <2>2, <3>2, <3>3, <3>4
  <2> QED BY <2>1, <2>2
<1>4. c = To(c)
  BY <1>3, Zenon
<1>5. to = To(to)
  BY <1>4, Zenon
<1>6. to[n] = c[n]
  <2> HIDE DEF to, c
  <2> DEFINE bad == {m \in 1 .. n : to[m] # c[m]}
  <2>1. \A i \in 1 .. n : to[i] = IF i = 1 THEN 0 ELSE to[i - 1] + Predicted(s, i)
    BY <1>5, Zenon
  <2>2. ASSUME bad # {}
        PROVE  FALSE
    <3>1. bad \subseteq Nat
      OBVIOUS
    <3>2. PICK m \in bad : \A x \in bad : m <= x
      <4> HIDE DEF bad
      <4> QED BY <2>2, <3>1, LeastNumber
    <3>3. m \in 1 .. n /\ to[m] # c[m]
      BY <3>2
    <3>4. m # 1
      BY <1>3, <2>1, <3>3
    <3>5. m - 1 \in 1 .. n /\ ~(m <= m - 1)
      BY <1>1, <3>3, <3>4
    <3>6. to[m - 1] = c[m - 1]
      BY <3>2, <3>5
    <3>7. to[m] = to[m - 1] + Predicted(s, m) /\ c[m] = c[m - 1] + Predicted(s, m)
      BY <1>3, <2>1, <3>3, <3>4
    <3> QED BY <3>3, <3>6, <3>7, Zenon
  <2> QED BY <1>1, <2>2
<1>7. Carried(s) = to[n]
  BY DEF Carried
<1> QED BY <1>1, <1>6, <1>7

(* The samples that go with a scan are the first ones, and those that stay *)
(* are not earlier than its end.                                           *)
LEMMA SamplesCut ==
  ASSUME BufferTypes, NEW end \in Nat,
         \A i, j \in 1 .. Len(imuBuffer) : i <= j => imuBuffer[i] <= imuBuffer[j]
  PROVE  /\ SamplesFor(end) \in 0 .. Len(imuBuffer)
         /\ \A i \in 1 .. SamplesFor(end) : imuBuffer[i] <= end
         /\ SamplesFor(end) > 0 =>
              \A i \in SamplesFor(end) + 1 .. Len(imuBuffer) : end <= imuBuffer[i]
<1> DEFINE L == Len(imuBuffer)
           S == {i \in DOMAIN imuBuffer :
                   imuBuffer[1] < end /\ imuBuffer[i] <= end /\ \A k \in 1 .. i - 1 : imuBuffer[k] < end}
           rest == {i \in 1 .. L + 1 : i \notin S}
<1>1. /\ L \in Nat /\ DOMAIN imuBuffer = 1 .. L
      /\ \A i \in 1 .. L : imuBuffer[i] \in Nat
  BY DEF BufferTypes
<1>2. PICK m \in rest : \A i \in rest : m <= i
  <2>1. L + 1 \in rest /\ rest \subseteq Nat
    BY <1>1
  <2> HIDE DEF rest
  <2> QED BY <2>1, LeastNumber
<1>3. m \in 1 .. L + 1 /\ m \notin S
  BY <1>2
<1>4. S = 1 .. m - 1
  <2>1. ASSUME NEW i \in 1 .. m - 1
        PROVE  i \in S
    <3>1. i \in 1 .. L + 1 /\ ~(m <= i)
      BY <1>1, <1>3
    <3> QED BY <1>2, <3>1
  <2>2. ASSUME NEW i \in S, i \notin 1 .. m - 1
        PROVE  FALSE
    <3>1. i \in 1 .. L /\ m <= i /\ m # i
      BY <1>1, <1>3, <2>2
    <3>2. m \in 1 .. i - 1 /\ m \in 1 .. L
      BY <1>1, <1>3, <3>1
    <3>3. imuBuffer[1] < end /\ imuBuffer[m] < end
      BY <2>2, <3>2
    <3>4. \A k \in 1 .. m - 1 : k \in 1 .. i - 1
      BY <3>1, <3>2
    <3>5. \A k \in 1 .. m - 1 : imuBuffer[k] < end
      BY <2>2, <3>4
    <3>6. imuBuffer[m] <= end
      BY <1>1, <3>2, <3>3
    <3> QED BY <1>1, <1>3, <3>2, <3>3, <3>5, <3>6
  <2> QED BY <2>1, <2>2
<1>5. SamplesFor(end) = m - 1
  <2>1. SamplesFor(end) = Cardinality(S)
    BY DEF SamplesFor
  <2>2. Cardinality(1 .. m - 1) = m - 1
    <3>1. m - 1 \in Int /\ m - 1 >= 0
      BY <1>1, <1>3
    <3> QED BY <3>1, FS_Interval
  <2> HIDE DEF S
  <2> QED BY <1>4, <2>1, <2>2
<1>6. \A i \in 1 .. m - 1 : imuBuffer[i] <= end
  BY <1>4
<1>7. ASSUME m - 1 > 0, NEW i \in m .. L
      PROVE  end <= imuBuffer[i]
  <2>1. 1 \in S /\ m \in 1 .. L
    <3>1. 1 \in 1 .. m - 1 /\ m \in 1 .. L
      BY <1>1, <1>3, <1>7
    <3> QED BY <1>4, <3>1, Zenon
  <2>2. imuBuffer[1] < end
    BY <2>1
  <2>3. PICK k \in 1 .. m : end <= imuBuffer[k]
    <3>1. \/ ~(imuBuffer[m] <= end)
          \/ \E k \in 1 .. m - 1 : ~(imuBuffer[k] < end)
      BY <1>1, <1>3, <2>1, <2>2
    <3>2. m \in 1 .. m /\ \A k \in 1 .. m - 1 : k \in 1 .. m
      BY <2>1
    <3>3. \A k \in 1 .. m : imuBuffer[k] \in Nat
      BY <1>1, <2>1
    <3> QED BY <3>1, <3>2, <3>3
  <2>4. k \in 1 .. L /\ i \in 1 .. L /\ k <= i
    BY <1>1, <1>7, <2>1
  <2>5. imuBuffer[k] <= imuBuffer[i] /\ imuBuffer[k] \in Nat /\ imuBuffer[i] \in Nat
    BY <1>1, <2>4
  <2> QED BY <2>3, <2>5
<1> HIDE DEF S, rest
<1> QED BY <1>1, <1>3, <1>5, <1>6, <1>7

(* What the end of a scan does to the clocks.                              *)
LEMMA EndIsTime ==
  ASSUME InStep, ClockTypes, BothWait
  PROVE  Pushed.end \in Nat /\ MeanScan \in Nat
<1>1. Len(timeBuffer) > 0
  BY DEF InStep, BufferTypes, BothWait
<1>2. Head(timeBuffer) \in Nat
  BY <1>1 DEF InStep, BufferTypes
<1>3. EndOf(Head(lidarBuffer), Head(timeBuffer)) \in Nat
  BY <1>2, ScanAssumption DEF EndOf, ClockTypes
<1>4. Pushed.end \in Nat
  BY <1>3 DEF Pushed, ClockTypes
<1>5. MeanScan \in Nat
  BY ScanAssumption DEF MeanScan, ClockTypes
<1> QED BY <1>4, <1>5

LEMMA Prepended ==
  ASSUME NEW x \in Nat, NEW p \in Seq(Nat)
  PROVE  /\ <<x>> \o p \in Seq(Nat) /\ Len(<<x>> \o p) = Len(p) + 1
         /\ (<<x>> \o p)[1] = x
         /\ \A i \in 2 .. Len(p) + 1 : (<<x>> \o p)[i] = p[i - 1]
<1>1. <<x>> \in Seq(Nat) /\ Len(<<x>>) = 1 /\ <<x>>[1] = x
  OBVIOUS
<1>2. <<x>> \o p \in Seq(Nat) /\ Len(<<x>> \o p) = Len(p) + 1
  OBVIOUS
<1>3. (<<x>> \o p)[1] = x
  OBVIOUS
<1>4. ASSUME NEW i \in 2 .. Len(p) + 1
      PROVE  (<<x>> \o p)[i] = p[i - 1]
  BY <1>4
<1> QED BY <1>2, <1>3, <1>4

(* A scan that came with samples carries the state to its end, or to the   *)
(* last sample while the filter is being initialised.                      *)
LEMMA StateIsCarried ==
  ASSUME InStep, ClockTypes, SamplesLate, StateInTime, NEW end \in Nat,
         NEW n, n = SamplesFor(end), n > 0, NEW scan,
         Process(SubSeq(imuBuffer, 1, n), end, scan)
  PROVE  /\ imu'.used = imuBuffer[n]
         /\ imu'.scanEnd = (IF imu.init THEN imu.scanEnd ELSE end)
         /\ imu'.time = (IF imu.init THEN imuBuffer[n] ELSE end)
<1> DEFINE samples == SubSeq(imuBuffer, 1, n)
           s == <<imu.used>> \o samples
<1>1. /\ n \in 1 .. Len(imuBuffer) /\ imuBuffer \in Seq(Nat) /\ Len(imuBuffer) \in Nat
      /\ \A i \in 1 .. n : imuBuffer[i] <= end
  <2>1. BufferTypes /\ \A i, j \in 1 .. Len(imuBuffer) : i <= j => imuBuffer[i] <= imuBuffer[j]
    BY DEF InStep, SamplesLate
  <2>2. n \in 0 .. Len(imuBuffer) /\ \A i \in 1 .. n : imuBuffer[i] <= end
    BY <2>1, SamplesCut
  <2>3. imuBuffer \in Seq(Nat) /\ Len(imuBuffer) \in Nat
    BY <2>1 DEF BufferTypes
  <2> QED BY <2>2, <2>3
<1>2. /\ samples \in Seq(Nat) /\ Len(samples) = n
      /\ \A i \in 1 .. n : samples[i] = imuBuffer[i]
  BY <1>1
<1>3. samples # <<>> /\ Last(samples) = imuBuffer[n]
  BY <1>1, <1>2 DEF Last
<1>4. DOMAIN imu = {"iter", "init", "used", "scanEnd", "time"}
  BY DEF InStep, ImuFields
<1> HIDE DEF samples
<1>5. CASE imu.init
  <2>1. imu' = [imu EXCEPT !.iter = @ + Len(samples), !.used = Last(samples),
                           !.init = imu.iter + Len(samples) <= MaxIniCount,
                           !.time = Last(samples)]
    BY <1>3, <1>5 DEF Process, IMUInit, samples
  <2> QED BY <1>3, <1>4, <1>5, <2>1
<1>6. CASE ~imu.init
  <2> DEFINE total == Propagated(samples, end)
  <2>1. imu' = [imu EXCEPT !.used = Last(samples), !.scanEnd = end, !.time = @ + total]
    BY <1>3, <1>6 DEF Process, UndistortPcl, samples
  <2>2. imu'.used = imuBuffer[n] /\ imu'.scanEnd = end /\ imu'.time = imu.time + total
    <3> HIDE DEF total
    <3> QED BY <1>3, <1>4, <2>1
  <2>3. imu.used \in Nat /\ imu.scanEnd \in Nat /\ imu.used <= CarriedTo /\ imu.scanEnd <= CarriedTo
    BY DEF ClockTypes, CarriedTo, Later
  <2>4. /\ s \in Seq(Nat) /\ Len(s) = n + 1 /\ s[1] = imu.used
        /\ \A i \in 2 .. n + 1 : s[i] = imuBuffer[i - 1]
    <3>1. \A i \in 2 .. n + 1 : i - 1 \in 1 .. n
      BY <1>1
    <3>2. /\ s \in Seq(Nat) /\ Len(s) = n + 1 /\ s[1] = imu.used
          /\ \A i \in 2 .. n + 1 : s[i] = samples[i - 1]
      BY <1>2, <2>3, Prepended
    <3> HIDE DEF s
    <3> QED BY <1>2, <3>1, <3>2
  <2>5. ASSUME NEW i \in 2 .. n + 1
        PROVE  s[i - 1] <= s[i]
    <3>1. CASE i = 2
      <4>1. CarriedTo <= imuBuffer[1] /\ imuBuffer[1] \in Nat /\ CarriedTo \in Nat
        BY <1>1, <2>3 DEF SamplesLate, CarriedTo, Later
      <4> QED BY <1>1, <2>3, <2>4, <3>1, <4>1
    <3>2. CASE i # 2
      <4>1. i - 1 \in 2 .. n + 1 /\ i - 2 \in 1 .. Len(imuBuffer) /\ i - 1 \in 1 .. Len(imuBuffer)
            /\ i - 2 <= i - 1 /\ (i - 1) - 1 = i - 2
        BY <1>1, <3>2
      <4>2. imuBuffer[i - 2] <= imuBuffer[i - 1]
        BY <4>1 DEF SamplesLate
      <4>3. s[i - 1] = imuBuffer[i - 2] /\ s[i] = imuBuffer[i - 1]
        BY <2>4, <4>1
      <4> QED BY <4>2, <4>3
    <3> QED BY <3>1, <3>2
  <2>6. s[n + 1] = imuBuffer[n] /\ Last(s) = imuBuffer[n]
    <3> HIDE DEF s
    <3>1. n + 1 \in 2 .. n + 1 /\ (n + 1) - 1 = n
      BY <1>1
    <3>2. s[n + 1] = imuBuffer[n]
      BY <2>4, <3>1
    <3> QED BY <2>4, <3>2 DEF Last
  <2>7. Carried(s) = Later(s[Len(s)]) - Later(s[1])
    <3> HIDE DEF s
    <3>1. \A i \in 2 .. Len(s) : s[i - 1] <= s[i]
      BY <2>4, <2>5
    <3>2. Len(s) >= 1
      BY <1>1, <2>4
    <3> QED BY <2>3, <2>4, <3>1, <3>2, CarriedIs
  <2>8. total = Carried(s) + (end - imuBuffer[n])
    <3>1. total = Carried(s) + (IF end - Last(s) > 0 THEN end - Last(s) ELSE -(end - Last(s)))
      BY DEF Propagated
    <3>2. imuBuffer[n] <= end /\ imuBuffer[n] \in Nat
      BY <1>1
    <3> HIDE DEF s, total
    <3>3. (IF end - Last(s) > 0 THEN end - Last(s) ELSE -(end - Last(s))) = end - imuBuffer[n]
      BY <2>6, <3>2
    <3> QED BY <3>1, <3>3
  <2>9. Later(s[1]) = CarriedTo /\ CarriedTo \in Nat
    BY <2>3, <2>4 DEF CarriedTo, Later
  <2>10. Later(s[Len(s)]) = imuBuffer[n] /\ imuBuffer[n] \in Nat
    <3>1. CarriedTo <= imuBuffer[n] /\ imuBuffer[n] \in Nat
      BY <1>1 DEF SamplesLate
    <3> QED BY <2>3, <2>4, <2>6, <2>9, <3>1 DEF Later
  <2>11. imu.time = CarriedTo
    BY <1>6 DEF StateInTime
  <2>12. imu'.time = end
    <3> HIDE DEF total, s
    <3> QED BY <2>2, <2>7, <2>8, <2>9, <2>10, <2>11
  <2> QED BY <1>6, <2>2, <2>12
<1> QED BY <1>5, <1>6

(* The step common to all that take a scan keeps the clocks in order: what *)
(* stays in the buffer is not earlier than the end of the scan.            *)
LEMMA TakeInTime ==
  ASSUME InStep, InTime, TakeAndProcess
  PROVE  InTime'
<1> DEFINE end == Pushed.end
           n == SamplesFor(end)
           samples == SubSeq(imuBuffer, 1, n)
<1>1. /\ BothWait /\ lastImu >= end /\ measures' = NoMeasures /\ meanScan' = MeanScan
      /\ imuBuffer' = SubSeq(imuBuffer, n + 1, Len(imuBuffer))
      /\ lastImu' = lastImu /\ jumped' = jumped
  BY DEF TakeAndProcess, TakeScan
<1>2. end \in Nat /\ MeanScan \in Nat
  BY <1>1, EndIsTime DEF InTime
<1>3. Process(samples, end, Pushed.scan)
  BY DEF TakeAndProcess
<1>4. n \in Nat /\ n <= Len(imuBuffer) /\ imuBuffer \in Seq(Nat) /\ Len(imuBuffer) \in Nat
  BY SamplesType DEF InStep, BufferTypes
<1>5. ClockTypes'
  <2>1. imu'.used \in Nat /\ imu'.scanEnd \in Nat
    <3>1. imu.used \in Nat /\ imu.scanEnd \in Nat
          /\ DOMAIN imu = {"iter", "init", "used", "scanEnd", "time"}
      BY DEF InTime, ClockTypes, InStep, ImuFields
    <3> HIDE DEF end, n
    <3>2. samples \in Seq(Nat)
      BY <1>4
    <3> HIDE DEF samples
    <3>3. CASE samples = <<>>
      BY <1>3, <3>1, <3>3 DEF Process
    <3>4. CASE samples # <<>>
      <4>1. Last(samples) \in Nat
        BY <3>2, <3>4 DEF Last
      <4>2. CASE imu.init
        BY <1>3, <3>1, <3>4, <4>1, <4>2 DEF Process, IMUInit
      <4>3. CASE ~imu.init
        BY <1>2, <1>3, <3>1, <3>4, <4>1, <4>3 DEF Process, UndistortPcl
      <4> QED BY <4>2, <4>3
    <3> QED BY <3>3, <3>4
  <2> QED BY <1>1, <1>2, <2>1 DEF InTime, ClockTypes, NoMeasures
<1>6. ASSUME "imu" \notin jumped
      PROVE  SamplesLate' /\ StateInTime'
  <2>1. ClockTypes /\ SamplesLate /\ StateInTime
    BY <1>6 DEF InTime
  <2>2. CASE n = 0
    <3>1. samples = <<>>
      BY <1>4, <2>2
    <3>2. imu' = imu
      BY <1>3, <3>1 DEF Process
    <3>3. imuBuffer' = imuBuffer
      BY <1>1, <1>4, <2>2
    <3> QED BY <1>1, <2>1, <3>2, <3>3 DEF SamplesLate, StateInTime, CarriedTo, Later
  <2>3. CASE n > 0
    <3>1. /\ imu'.used = imuBuffer[n]
          /\ imu'.scanEnd = (IF imu.init THEN imu.scanEnd ELSE end)
          /\ imu'.time = (IF imu.init THEN imuBuffer[n] ELSE end)
      BY <1>2, <1>3, <2>1, <2>3, StateIsCarried
    <3>2. \A i, j \in 1 .. Len(imuBuffer) : i <= j => imuBuffer[i] <= imuBuffer[j]
      BY <2>1 DEF SamplesLate
    <3>3. /\ n \in 1 .. Len(imuBuffer) /\ imuBuffer[n] <= end
          /\ \A i \in n + 1 .. Len(imuBuffer) : end <= imuBuffer[i]
      <4>1. BufferTypes
        BY DEF InStep
      <4>2. /\ n \in 0 .. Len(imuBuffer) /\ \A i \in 1 .. n : imuBuffer[i] <= end
            /\ n > 0 => \A i \in n + 1 .. Len(imuBuffer) : end <= imuBuffer[i]
        BY <1>2, <3>2, <4>1, SamplesCut
      <4> HIDE DEF n, end
      <4> QED BY <1>4, <2>3, <4>2
    <3> HIDE DEF n, end, samples
    <3>4. imuBuffer[n] \in Nat /\ imu.scanEnd \in Nat /\ imu.used \in Nat
      BY <1>4, <2>1, <3>3 DEF ClockTypes
    <3>5. imu.scanEnd <= imuBuffer[n] /\ imuBuffer[n] <= lastImu /\ lastImu \in Int
      BY <2>1, <3>3, <3>4 DEF SamplesLate, CarriedTo, Later, ClockTypes
    <3>6. CarriedTo' = imu'.time /\ CarriedTo' \in Nat /\ CarriedTo' <= end
      BY <1>2, <3>1, <3>3, <3>4, <3>5 DEF CarriedTo, Later
    <3>7. CarriedTo' <= lastImu
      BY <1>1, <1>2, <3>5, <3>6
    <3>8. /\ Len(imuBuffer') = Len(imuBuffer) - n
          /\ \A i \in 1 .. Len(imuBuffer) - n : imuBuffer'[i] = imuBuffer[n + i]
      BY <1>1, <1>4, <3>3
    <3>9. \A i \in 1 .. Len(imuBuffer') :
            /\ n + i \in n + 1 .. Len(imuBuffer) /\ n + i \in 1 .. Len(imuBuffer)
            /\ imuBuffer'[i] = imuBuffer[n + i]
      BY <1>4, <3>3, <3>8
    <3>10. ASSUME NEW i \in 1 .. Len(imuBuffer'), NEW j \in 1 .. Len(imuBuffer'), i <= j
           PROVE  imuBuffer'[i] <= imuBuffer'[j]
      <4>1. n + i <= n + j
        BY <1>4, <3>8, <3>10
      <4> QED BY <3>2, <3>9, <4>1
    <3>11. ASSUME NEW i \in 1 .. Len(imuBuffer')
           PROVE  CarriedTo' <= imuBuffer'[i] /\ imuBuffer'[i] <= lastImu
      <4>1. end <= imuBuffer[n + i] /\ imuBuffer[n + i] \in Nat
        BY <1>4, <3>3, <3>9
      <4>2. imuBuffer[n + i] <= lastImu
        BY <2>1, <3>9 DEF SamplesLate
      <4> QED BY <1>2, <3>6, <3>9, <4>1, <4>2
    <3> QED BY <1>1, <3>6, <3>7, <3>10, <3>11 DEF SamplesLate, StateInTime
  <2> QED BY <1>4, <2>2, <2>3
<1> QED BY <1>1, <1>5, <1>6 DEF InTime

LEMMA ImuInTime ==
  ASSUME InStep, InTime, NEW t \in 1 .. MaxTime, ImuArrives(t)
  PROVE  InTime'
<1>1. /\ UNCHANGED <<measures, meanScan, imu>> /\ lastImu' = t /\ t \in Nat /\ t >= 1
      /\ imuBuffer' = Append(IF t < lastImu THEN <<>> ELSE imuBuffer, t)
      /\ jumped' = IF t < lastImu THEN jumped \cup {"imu"} ELSE jumped
  BY DEF ImuArrives, Jump
<1>2. ClockTypes'
  BY <1>1 DEF InTime, ClockTypes
<1>3. ASSUME "imu" \notin jumped'
      PROVE  SamplesLate' /\ StateInTime'
  <2>1. /\ ~(t < lastImu) /\ "imu" \notin jumped /\ imuBuffer' = Append(imuBuffer, t)
        /\ ClockTypes /\ SamplesLate /\ StateInTime
    BY <1>1, <1>3 DEF InTime
  <2>2. /\ imuBuffer \in Seq(Nat) /\ Len(imuBuffer) \in Nat /\ lastImu \in Int /\ lastImu <= t
        /\ CarriedTo \in Nat /\ CarriedTo' = CarriedTo
    BY <1>1, <2>1 DEF InStep, BufferTypes, ClockTypes, CarriedTo, Later
  <2>3. /\ Len(imuBuffer') = Len(imuBuffer) + 1 /\ imuBuffer'[Len(imuBuffer) + 1] = t
        /\ \A i \in 1 .. Len(imuBuffer) : imuBuffer'[i] = imuBuffer[i] /\ imuBuffer[i] \in Nat
    BY <1>1, <2>1, <2>2
  <2>4. CarriedTo <= t
    BY <1>1, <2>1, <2>2 DEF SamplesLate
  <2>5. ASSUME NEW i \in 1 .. Len(imuBuffer')
        PROVE  CarriedTo <= imuBuffer'[i] /\ imuBuffer'[i] <= t
    <3>1. CASE i = Len(imuBuffer) + 1
      BY <1>1, <2>3, <2>4, <3>1
    <3>2. CASE i \in 1 .. Len(imuBuffer)
      <4>1. CarriedTo <= imuBuffer[i] /\ imuBuffer[i] <= lastImu
        BY <2>1, <3>2 DEF SamplesLate
      <4> QED BY <1>1, <2>2, <2>3, <3>2, <4>1
    <3> QED BY <2>2, <2>3, <3>1, <3>2
  <2>6. ASSUME NEW i \in 1 .. Len(imuBuffer'), NEW j \in 1 .. Len(imuBuffer'), i <= j
        PROVE  imuBuffer'[i] <= imuBuffer'[j]
    <3>1. CASE j = Len(imuBuffer) + 1
      BY <2>3, <2>5, <3>1
    <3>2. CASE j \in 1 .. Len(imuBuffer)
      <4>1. i \in 1 .. Len(imuBuffer)
        BY <2>2, <2>6, <3>2
      <4> QED BY <2>1, <2>3, <2>6, <3>2, <4>1 DEF SamplesLate
    <3> QED BY <2>2, <2>3, <3>1, <3>2
  <2> QED BY <1>1, <2>1, <2>2, <2>4, <2>5, <2>6 DEF SamplesLate, StateInTime
<1> QED BY <1>2, <1>3 DEF InTime

LEMMA InTimeStep ==
  ASSUME InStep, InTime, [Next]_vars
  PROVE  InTime'
<1>1. ASSUME UNCHANGED <<imuBuffer, lastImu, measures, meanScan, imu>>,
             "imu" \notin jumped' => "imu" \notin jumped
      PROVE  InTime'
  BY <1>1 DEF InTime, ClockTypes, SamplesLate, StateInTime, CarriedTo, Later
<1>2. CASE UNCHANGED vars
  BY <1>1, <1>2 DEF vars, sensorVars
<1>3. ASSUME NEW t \in 1 .. MaxTime, NEW pts \in {"none", "few", "full"}, LidarArrives(t, pts)
      PROVE  InTime'
  BY <1>1, <1>3 DEF LidarArrives, Jump
<1>4. CASE ScanWaits
  <2>1. /\ BothWait /\ measures' = Pushed /\ meanScan' = MeanScan
        /\ UNCHANGED <<imuBuffer, lastImu, jumped, imu>>
    BY <1>4 DEF ScanWaits, sensorVars
  <2>2. ClockTypes'
    BY <2>1, EndIsTime DEF InTime, ClockTypes
  <2> QED BY <2>1, <2>2 DEF InTime, SamplesLate, StateInTime, CarriedTo, Later
<1>5. CASE TakeAndProcess
  BY <1>5, TakeInTime
<1>6. CASE Next
  <2>1. CASE PoseArrives
    BY <1>1, <2>1 DEF PoseArrives, sensorVars
  <2>2. CASE SkipScan \/ FirstScan
    BY <1>5, <2>2 DEF SkipScan, FirstScan
  <2>3. CASE Matches
    BY <1>5, <2>3 DEF Matches, MapScan, LocateScan
  <2>4. ASSUME NEW fits \in BOOLEAN, AlignScan(fits)  PROVE InTime'
    BY <1>5, <2>4 DEF AlignScan
  <2>5. ASSUME NEW features \in BOOLEAN, Finish(features)  PROVE InTime'
    BY <1>1, <2>5 DEF Finish, sensorVars
  <2> QED BY <1>3, <1>4, <1>6, <2>1, <2>2, <2>3, <2>4, <2>5, ImuInTime DEF Next
<1> QED BY <1>2, <1>6

(* What is matched is placed at the end of its scan.                       *)
LEMMA StateStep ==
  ASSUME InStep, InTime
  PROVE  StateIsOfScanEnd
<1>1. SUFFICES ASSUME Matches, SamplesFor(Pushed.end) > 0, "imu" \notin jumped
               PROVE  imu'.time = Pushed.end
  BY DEF StateIsOfScanEnd
<1> DEFINE end == Pushed.end
           n == SamplesFor(end)
           samples == SubSeq(imuBuffer, 1, n)
<1>2. TakeAndProcess /\ undistorted'.pts = "full"
  BY <1>1 DEF Matches, MapScan, LocateScan
<1>3. BothWait /\ Process(samples, end, Pushed.scan)
  BY <1>2 DEF TakeAndProcess, TakeScan
<1>4. ClockTypes /\ SamplesLate /\ StateInTime /\ end \in Nat
  BY <1>1, <1>3, EndIsTime DEF InTime
<1>5. ~imu.init
  <2>1. n \in Nat /\ n > 0
    BY <1>1, SamplesType DEF InStep
  <2>2. 1 \in DOMAIN samples
    BY <2>1
  <2>3. samples # <<>>
    <3>1. 1 \notin DOMAIN <<>>
      OBVIOUS
    <3> QED BY <2>2, <3>1, Zenon
  <2>4. imu.init => undistorted' = NoScan
    BY <1>3, <2>3 DEF Process, IMUInit, InStep, NoCloudYet
  <2> QED BY <1>2, <2>4 DEF NoScan
<1>6. imu'.time = (IF imu.init THEN imuBuffer[n] ELSE end)
  BY <1>1, <1>3, <1>4, StateIsCarried
<1> QED BY <1>5, <1>6

(* What is matched and put in the map is the cloud of its time, and the    *)
(* state it is placed at has been predicted to the end of the scan, over   *)
(* any number of samples, and whatever the scans and samples that were     *)
(* lost, came late or were skipped (SyncPackages, UndistortPcl).           *)
THEOREM FramesAreOfOneScan == Spec => FrameIsOfOneScan
<1>1. Init => InStep /\ InTime
  <2>1. ASSUME Init
        PROVE  InTime
    <3>1. /\ imuBuffer = <<>> /\ lastImu = -1 /\ measures = NoMeasures /\ meanScan = 0
          /\ imu = [iter |-> 1, init |-> TRUE, used |-> 0, scanEnd |-> 0, time |-> 0]
      BY <2>1 DEF Init
    <3>2. ClockTypes /\ StateInTime /\ CarriedTo = 0
      BY <3>1 DEF ClockTypes, StateInTime, NoMeasures, CarriedTo, Later
    <3>3. SamplesLate
      BY <3>1, <3>2 DEF SamplesLate
    <3> QED BY <3>2, <3>3 DEF InTime
  <2> QED BY <2>1, BeginsInStep
<1>2. InStep /\ InTime /\ [Next]_vars => InStep' /\ InTime'
  BY InStepStep, InTimeStep
<1>3. InStep /\ InTime /\ [Next]_vars => [CloudIsOfScan /\ StateIsOfScanEnd]_vars
  BY CloudStep, StateStep
<1> QED BY <1>1, <1>2, <1>3, PTL DEF Spec, FrameIsOfOneScan
=============================================================================
