-------------------------- MODULE StaticMapFilter --------------------------
(***************************************************************************)
(* static_map_filter.cc of LIO-Lite: which voxels of a map under           *)
(* construction are part of the building, and which were a person or a     *)
(* trolley that passed.  A voxel is confirmed when enough keyframes hit it *)
(* over a long enough time, and forgotten when rays go through it: at once *)
(* while it is a candidate, after several keyframes in a row later on.     *)
(*                                                                         *)
(* Geometry is left out: the voxels that a scan hits (the nearest state    *)
(* within match_radius, or a new one) and those its rays go through are    *)
(* arguments.  The samples of points a voxel keeps are left out too.       *)
(***************************************************************************)
EXTENDS Integers, Sequences, FiniteSets

CONSTANTS
  Voxels,             \* the voxels looked at
  KeyframeInterval,   \* keyframe_interval
  MinHits,            \* min_hits
  MinSpan,            \* min_observation_span
  FreeToRemove,       \* free_keyframes_to_remove
  CandidateTimeout    \* candidate_timeout

\* The constructor raises options that are smaller than these.
ASSUME FilterOptions ==
  /\ MinHits \in Nat \ {0} /\ FreeToRemove \in Nat \ {0}
  /\ KeyframeInterval \in Nat /\ MinSpan \in Nat /\ CandidateTimeout \in Nat

VARIABLES
  states,         \* states_, a function on the voxels that have a state
  lastKeyframe,   \* last_keyframe_time_, Never before the first one
  keyframeId,     \* keyframe_id_
  observed        \* for the property: what each keyframe saw of each voxel

filterVars == <<states, lastKeyframe, keyframeId, observed>>

Never == -1       \* the infinite past, and kInvalidKeyframe

VoxelState ==
  [hits : Nat, first : Nat, last : Nat, confirmed : BOOLEAN,
   free : Nat, lastFree : Nat \cup {Never}]
NoHits == [hits |-> 0, first |-> 0, last |-> 0, confirmed |-> FALSE,
           free |-> 0, lastFree |-> Never]

FilterOK ==
  /\ DOMAIN states \subseteq Voxels
  /\ \A v \in DOMAIN states : states[v] \in VoxelState
  /\ lastKeyframe \in Nat \cup {Never} /\ keyframeId \in Nat
  /\ observed \in [Voxels -> Seq([saw : {"hit", "free", "nothing"}, at : Nat])]

FilterInit ==
  /\ states = <<>> /\ lastKeyframe = Never /\ keyframeId = 0
  /\ observed = [v \in Voxels |-> <<>>]

IsKeyframe(time) ==
  lastKeyframe = Never \/ time - lastKeyframe >= KeyframeInterval

\* The voxels with a state once the points of a scan have found or created
\* theirs, and those of them that only its rays go through.
Known(hit) == DOMAIN states \cup hit
FreeKeys(hit, through) == (through \ hit) \cap Known(hit)

\* mutant: the time between the first and the last hit is not asked for
AfterHitNoSpan(s, time) ==
  [s EXCEPT !.hits = @ + 1, !.first = IF s.hits = 0 THEN time ELSE @, !.last = time,
            !.free = 0, !.confirmed = @ \/ s.hits + 1 >= MinHits]
\* One more keyframe hits a voxel; the points of one scan count once.
AfterHit(s, time) ==
  LET first == IF s.hits = 0 THEN time ELSE s.first
  IN [s EXCEPT !.hits = @ + 1, !.first = first, !.last = time, !.free = 0,
               !.confirmed = @ \/ (s.hits + 1 >= MinHits /\ time - first >= MinSpan)]

\* mutant: keyframes need not follow each other
AfterFreeAnyTime(s) == [s EXCEPT !.lastFree = keyframeId, !.free = @ + 1]
\* Rays of the current keyframe go through a confirmed voxel.
AfterFree(s) ==
  [s EXCEPT !.lastFree = keyframeId,
            !.free = IF s.lastFree # Never /\ s.lastFree + 1 = keyframeId THEN @ + 1 ELSE 1]

\* What happens to a voxel with a state after the hits have been counted.
Erased(s, isFree, time) ==
  \/ isFree /\ ~s.confirmed
  \/ isFree /\ AfterFree(s).free >= FreeToRemove
  \/ ~s.confirmed /\ time - s.last > CandidateTimeout

\* ProcessFrame: a scan of that time that hits these voxels, and whose rays go
\* through those.
ProcessFrame(hit, through, time) ==
  LET stateOf(v) == IF v \in DOMAIN states THEN states[v] ELSE NoHits
      counted == [v \in Known(hit) |-> IF v \in hit THEN AfterHit(stateOf(v), time) ELSE states[v]]
      free == FreeKeys(hit, through)
      kept == {v \in Known(hit) : ~Erased(counted[v], v \in free, time)}
      saw(v) == IF v \in hit THEN "hit" ELSE IF v \in through THEN "free" ELSE "nothing"
  IN IF ~IsKeyframe(time) THEN UNCHANGED filterVars
     ELSE /\ states' = [v \in kept |-> IF v \in free THEN AfterFree(counted[v]) ELSE counted[v]]
          /\ lastKeyframe' = time
          /\ keyframeId' = keyframeId + 1
          /\ observed' = [v \in Voxels |-> Append(observed[v], [saw |-> saw(v), at |-> time])]

Confirmed == {v \in DOMAIN states : states[v].confirmed}

\* BuildStaticCloudFromRaw: the points of the raw map in confirmed voxels.
StaticPart(rawMap) == rawMap \cap Confirmed

-----------------------------------------------------------------------------
(* What the counters stand for, read off the keyframes as they were.       *)

HitsIn(h, i, j) == {k \in i .. j : h[k].saw = "hit"}

\* From keyframe i to keyframe j the voxel was a candidate that nothing took
\* away, and at j it has been hit often and long enough.
GainedIn(h, i, j) ==
  /\ h[i].saw = "hit" /\ h[j].saw = "hit"
  /\ \A k \in i .. j :
       \/ h[k].saw = "hit"
       \/ /\ h[k].saw = "nothing"
          /\ \E n \in HitsIn(h, i, k) : h[k].at - h[n].at <= CandidateTimeout
  /\ Cardinality(HitsIn(h, i, j)) >= MinHits
  /\ h[j].at - h[i].at >= MinSpan

\* After keyframe j rays went through the voxel in so many keyframes in a row.
LostAfter(h, j) ==
  \E k \in j + 1 .. Len(h) - FreeToRemove + 1 :
    \A n \in k .. k + FreeToRemove - 1 : h[n].saw = "free"

IsStatic(h) ==
  \E j \in DOMAIN h : (\E i \in 1 .. j : GainedIn(h, i, j)) /\ ~LostAfter(h, j)
=============================================================================
