---------------------------- MODULE SampleQueues ----------------------------
(***************************************************************************)
(* What agi::Ekf and agi::EkfImu have in common                            *)
(* (src/agilib/src/estimator/ekf, src/agilib/src/estimator/ekf_imu): two   *)
(* queues of measurements that wait to be fused, the time of the last      *)
(* fusion (posterior) and the time the state was predicted to (prior).     *)
(*                                                                         *)
(* Times are stamps, None is NaN.  Poses are numbered in the order they    *)
(* arrive, so that the history can tell them apart.  What a state is       *)
(* numerically does not matter here.                                       *)
(*                                                                         *)
(* Every public operation holds mutex_, so process() runs undisturbed; it  *)
(* is one action per iteration of its loop.  at > 0 means that process()   *)
(* runs and its iterator points to poses[at].                              *)
(***************************************************************************)
EXTENDS Integers, Sequences

CONSTANTS
  MaxTime,    \* bound: stamps are 1..MaxTime
  MaxPoses,   \* bound: poses that are queued
  MaxDelay,   \* bound: how far behind the clock a stamp may be
  MaxQueue    \* MAX_QUEUE_SIZE

ASSUME BoundsAssumption ==
  /\ MaxTime \in Nat \ {0}
  /\ MaxPoses \in Nat
  /\ MaxDelay \in Nat
  /\ MaxQueue \in Nat \ {0}

VARIABLES
  now,        \* the clock sensors stamp with
  arrived,    \* number of poses that were put into the queue
  poses,      \* poses_, in the order of arrival
  imus,       \* stamps of imus_, in the order of arrival
  posterior,  \* t_posterior_, or posterior_.t
  prior,      \* t_prior_, or prior_.t
  at,         \* the iterator of process() in poses_, 0 while it does not run
  asked,      \* the time a getAt() in progress asks for
  fused,      \* history: the poses that have been fused
  refused,    \* history: the poses that have been fused twice
  dangled     \* history: an iterator of process() was used although a reset had
              \* erased the element it pointed to

queues  == <<poses, imus>>
times   == <<posterior, prior>>
input   == <<now, arrived>>
history == <<fused, refused, dangled>>

Stamps == 1..MaxTime
None   == 0      \* NaN, or nothing asked for
Recent == -1     \* the time getRecent() asks for

Pose == [n : 1..MaxPoses, t : Stamps]

TypeOK ==
  /\ now \in Stamps
  /\ arrived \in 0..MaxPoses
  /\ poses \in Seq(Pose) /\ Len(poses) <= MaxQueue
  /\ imus \in Seq(Stamps) /\ Len(imus) <= MaxQueue
  /\ posterior \in Stamps \cup {None}
  /\ prior \in Stamps \cup {None}
  /\ at \in 0..Len(poses) + 1
  /\ asked \in Stamps \cup {None, Recent}
  /\ fused \subseteq 1..MaxPoses
  /\ refused \subseteq 1..MaxPoses
  /\ dangled \in BOOLEAN

Init ==
  /\ now = 1
  /\ arrived = 0
  /\ poses = <<>>
  /\ imus = <<>>
  /\ posterior = None
  /\ prior = None
  /\ at = 0
  /\ asked = None
  /\ fused = {}
  /\ refused = {}
  /\ dangled = FALSE

-----------------------------------------------------------------------------
\* mutex_ is free.
Free == at = 0 /\ asked = None

Latest(q) == q[Len(q)]

\* Stamps a measurement that arrives now may have.
Fresh == {t \in Stamps : t <= now /\ now - t <= MaxDelay}

\* std::lower_bound, as the number of elements in front of its result: the one
\* before it is older than t, the one behind it is not.  If the order of arrival
\* is not the order of stamps there can be several such places, and the search
\* may end at any of them.
ImuCuts(t) ==
  {k \in 0..Len(imus) : /\ k > 0 => imus[k] < t
                        /\ k < Len(imus) => imus[k + 1] >= t}

PoseCuts(t) ==
  {k \in 0..Len(poses) : /\ k > 0 => poses[k].t < t
                         /\ k < Len(poses) => poses[k + 1].t >= t}

\* erase(begin(), begin() + k)
Drop(q, k) == SubSeq(q, k + 1, Len(q))

\* Mutated form of Push: the size is checked before the element is added.
PushTooMany(q, x) ==
  LET full == Append(q, x) IN IF Len(q) > MaxQueue THEN Drop(full, 1) ELSE full

\* push_back(x), then pop_front() while there are more than MAX_QUEUE_SIZE.
Push(q, x) ==
  LET full == Append(q, x) IN IF Len(full) > MaxQueue THEN Drop(full, 1) ELSE full

\* Where an iterator to element i points after k elements were erased in front;
\* if its own element was among them it dangles, and may end up anywhere.
Moved(i, k, q) == IF k < i THEN {i - k} ELSE 1..Len(q) + 1

\* Pose p has changed the posterior.
Fuses(p) ==
  /\ fused' = fused \cup {p.n}
  /\ refused' = IF p.n \in fused THEN refused \cup {p.n} ELSE refused

=============================================================================
