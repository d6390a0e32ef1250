-------------------------------- MODULE Ekf ---------------------------------
(***************************************************************************)
(* agi::Ekf (src/agilib/src/estimator/ekf/ekf.cpp): corrects with IMU      *)
(* samples and with poses, each in a step of its own, and predicts with    *)
(* the vehicle's dynamics.  A pose waits for a newer sample, but not       *)
(* longer than max_update_wait_time.                                       *)
(*                                                                         *)
(* All configurations set update_on_get, so getAt() processes first.       *)
(***************************************************************************)
EXTENDS SampleQueues

CONSTANT MaxWait    \* max_update_wait_time

VARIABLES
  useImu,   \* params_->use_imu
  imuAt,    \* the other iterator of process(), in imus_
  lastImu,  \* t_last_imu_
  starved   \* history: the poses process() had been over when it found a queue
            \* empty and left

ekfVars == <<useImu, imuAt, lastImu, starved>>
vars == <<now, arrived, queues, times, at, asked, history, ekfVars>>

EkfTypeOK ==
  /\ useImu \in BOOLEAN
  /\ imuAt \in 1..Len(imus) + 1
  /\ lastImu \in Stamps \cup {None}
  /\ starved \subseteq 1..MaxPoses

EkfInit ==
  /\ useImu \in BOOLEAN
  /\ imuAt = 1
  /\ lastImu = None
  /\ starved = {}

-----------------------------------------------------------------------------
\* process() starts with both iterators in front.
Begins == at' = 1 /\ imuAt' = 1

FirstPose(t) ==
  /\ Free
  /\ posterior = None
  /\ posterior' = t
  /\ prior' = t
  /\ \E k \in ImuCuts(t) : imus' = Drop(imus, k)
  /\ UNCHANGED <<input, poses, at, asked, history, ekfVars>>

AddPose(t) ==
  /\ Free
  /\ posterior # None /\ t > posterior
  /\ arrived < MaxPoses
  /\ arrived' = arrived + 1
  /\ poses' = Push(poses, [n |-> arrived', t |-> t])
  /\ Begins
  /\ UNCHANGED <<now, imus, times, asked, history, useImu, lastImu, starved>>

AddImu(t) ==
  /\ Free
  /\ useImu
  /\ posterior # None => t >= posterior
  /\ imus' = Push(imus, t)
  /\ lastImu' = t
  /\ Begins
  /\ UNCHANGED <<input, poses, times, asked, history, useImu, starved>>

\* Before the first pose getAt() fails without changing anything.
GetAt(t) ==
  /\ Free
  /\ posterior # None
  /\ asked' = t
  /\ Begins
  /\ UNCHANGED <<input, queues, times, history, useImu, lastImu, starved>>

-----------------------------------------------------------------------------
InLoop == at > 0 /\ at <= Len(poses)

\* A sample that is not newer than the pose goes first.
ImuIsNext == InLoop /\ imuAt <= Len(imus) /\ imus[imuAt] <= poses[at].t

PoseIsNext == InLoop /\ ~ImuIsNext

\* updateImu(), for a sample that is not older than the posterior; the gain may
\* not be computable.
FusesImu ==
  /\ ImuIsNext
  /\ imuAt' = imuAt + 1
  /\ IF imus[imuAt] >= posterior
     THEN prior' = imus[imuAt] /\ posterior' \in {posterior, imus[imuAt]}
     ELSE UNCHANGED times
  /\ UNCHANGED <<input, queues, at, asked, history, useImu, lastImu, starved>>

\* Mutated form of Waits: the comparison without the test for NaN.
WaitsForNaN == lastImu = None \/ poses[at].t >= lastImu

\* The pose has to wait: for a sample after it, ...
Waits == lastImu # None /\ poses[at].t >= lastImu

\* ... which will not come any more.
TooLate == lastImu # None /\ poses[at].t > lastImu + MaxWait

ForgetsImu ==
  /\ PoseIsNext
  /\ Waits
  /\ TooLate
  /\ imus' = <<>>
  /\ imuAt' = 1
  /\ lastImu' = None
  /\ UNCHANGED <<input, poses, times, at, asked, history, useImu, starved>>

\* After a pose: if there are no samples process() returns, with the pose and
\* those before it still in the queue.  The test is meant for init().
Advances(next) ==
  IF poses' = <<>> \/ (useImu /\ imus' = <<>>)
  THEN at' = 0 /\ starved' = starved \cup {poses[i].n : i \in 1..at}
  ELSE at' \in next /\ UNCHANGED starved

\* updatePose() of a pose that is older than the posterior changes nothing.
IsLate ==
  /\ PoseIsNext
  /\ ~Waits
  /\ poses[at].t < posterior
  /\ UNCHANGED <<input, queues, times, asked, history, useImu, imuAt, lastImu>>
  /\ Advances({at + 1})

\* Mutated form of FusesPose: the age of the pose is not checked.
FusesAnyPose ==
  /\ PoseIsNext
  /\ ~Waits
  /\ prior' = poses[at].t
  /\ \/ posterior' = poses[at].t /\ Fuses(poses[at])
     \/ UNCHANGED <<posterior, fused, refused>>
  /\ UNCHANGED <<input, queues, dangled, asked, useImu, imuAt, lastImu>>
  /\ Advances({at + 1})

FusesPose ==
  /\ PoseIsNext
  /\ ~Waits
  /\ poses[at].t >= posterior
  /\ prior' = poses[at].t
  /\ \/ posterior' = poses[at].t /\ Fuses(poses[at])
     \/ UNCHANGED <<posterior, fused, refused>>
  /\ UNCHANGED <<input, queues, dangled, asked, useImu, imuAt, lastImu>>
  /\ Advances({at + 1})

\* The pose is far from the prior: init() takes it for the state and drops what
\* is older from the queues that are being iterated.
Jumps ==
  /\ PoseIsNext
  /\ ~Waits
  /\ poses[at].t >= posterior
  /\ prior' = poses[at].t
  /\ posterior' = poses[at].t
  /\ Fuses(poses[at])
  /\ \E i \in ImuCuts(poses[at].t), k \in PoseCuts(poses[at].t) :
       /\ imus' = Drop(imus, i)
       /\ imuAt' \in Moved(imuAt, i, imus')
       /\ poses' = Drop(poses, k)
       /\ Advances(Moved(at + 1, k, poses'))
       /\ dangled' = (dangled \/ (at' > 0 /\ (k >= at \/ i >= imuAt)))
  /\ UNCHANGED <<input, asked, useImu, lastImu>>

Finishes ==
  /\ at > 0
  /\ InLoop => PoseIsNext /\ Waits /\ ~TooLate
  /\ imus' = Drop(imus, imuAt - 1)
  /\ poses' = Drop(poses, at - 1)
  /\ imuAt' = 1
  /\ at' = 0
  /\ UNCHANGED <<input, times, asked, history, useImu, lastImu, starved>>

\* The rest of getAt(): up to the prior it answers with the prior.
Answers ==
  /\ at = 0
  /\ asked # None
  /\ prior' = IF asked <= prior THEN prior ELSE asked
  /\ asked' = None
  /\ UNCHANGED <<input, queues, posterior, at, history, ekfVars>>

Process == FusesImu \/ ForgetsImu \/ IsLate \/ FusesPose \/ Jumps \/ Finishes
=============================================================================
