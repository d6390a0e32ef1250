------------------------------- MODULE EkfImu -------------------------------
(***************************************************************************)
(* agi::EkfImu (src/agilib/src/estimator/ekf_imu/ekf_imu.cpp): predicts    *)
(* with IMU samples, corrects with poses that are not newer than the last  *)
(* sample.  A getAt() moves the prior ahead of the posterior without the   *)
(* covariance; a later pose is fused from there.                           *)
(*                                                                         *)
(* All configurations set update_on_get, so getAt() processes first.       *)
(***************************************************************************)
EXTENDS SampleQueues

CONSTANT MaxJumps   \* a pose that jumps this often resets the filter: 10

VARIABLES
  did,      \* this process() has processed a pose: t_last_processed_pose is set
  jumps,    \* n_jumps, a static local: one counter for all filters
  ordered,  \* history: no sample was older than the last one in the queue
  twice,    \* history: a prediction went over some stretch of time twice
  peeked,   \* history: the units of time a getAt() has predicted over
  blind     \* history: those the covariance was not propagated over

imuHistory == <<ordered, twice, peeked, blind>>
imuVars == <<did, jumps, imuHistory>>
vars == <<now, arrived, queues, times, at, asked, history, imuVars>>

ImuTypeOK ==
  /\ did \in BOOLEAN
  /\ jumps \in 0..MaxJumps - 1
  /\ ordered \in BOOLEAN
  /\ twice \in BOOLEAN
  /\ peeked \subseteq Stamps
  /\ blind \subseteq Stamps

ImuInit ==
  /\ did = FALSE
  /\ jumps = 0
  /\ ordered = TRUE
  /\ twice = FALSE
  /\ peeked = {}
  /\ blind = {}

-----------------------------------------------------------------------------
\* process() returns at once if there are no samples.
Begins == at' = (IF imus' = <<>> THEN 0 ELSE 1) /\ did' = FALSE

\* The first pose initialises the filter and drops older samples.
FirstPose(t) ==
  /\ Free
  /\ posterior = None
  /\ posterior' = t
  /\ prior' = t
  /\ \E k \in ImuCuts(t) : imus' = Drop(imus, k)
  /\ UNCHANGED <<input, poses, at, asked, history, imuVars>>

AddPose(t) ==
  /\ Free
  /\ posterior # None /\ t > posterior
  /\ arrived < MaxPoses
  /\ arrived' = arrived + 1
  /\ poses' = Push(poses, [n |-> arrived', t |-> t])
  /\ imus' = imus
  /\ Begins
  /\ UNCHANGED <<now, times, asked, history, jumps, imuHistory>>

\* Mutated form of AddImu: push_front() and pop_back().
AddImuInFront(t) ==
  /\ Free
  /\ posterior # None => t >= posterior
  /\ imus' = <<t>> \o (IF Len(imus) < MaxQueue THEN imus ELSE SubSeq(imus, 1, MaxQueue - 1))
  /\ ordered' = (ordered /\ (imus # <<>> => t >= Head(imus)))
  /\ Begins
  /\ UNCHANGED <<input, poses, times, asked, history, jumps, twice, peeked, blind>>

AddImu(t) ==
  /\ Free
  /\ posterior # None => t >= posterior
  /\ imus' = Push(imus, t)
  /\ ordered' = (ordered /\ (imus # <<>> => t >= Latest(imus)))
  /\ Begins
  /\ UNCHANGED <<input, poses, times, asked, history, jumps, twice, peeked, blind>>

\* Before the first pose getAt() fails without changing anything.
GetAt(t) ==
  /\ Free
  /\ posterior # None
  /\ asked' = t
  /\ imus' = imus
  /\ Begins
  /\ UNCHANGED <<input, poses, times, history, jumps, imuHistory>>

(***************************************************************************)
(* Prediction to time t: from the prior, or from the posterior if the      *)
(* prior is ahead of t.  The loop takes the samples in the order of        *)
(* arrival from the first one behind the start (k are in front of it) up   *)
(* to the first that is not before t.  It sets t_prior_ to each sample's   *)
(* stamp, so that a sample older than the one before it sets t_prior_ back *)
(* and the stretch between the two is integrated twice.                    *)
(***************************************************************************)
Start(t) == IF t < prior THEN posterior ELSE prior

Samples(k, t) == {i \in k + 1..Len(imus) : \A j \in k + 1..i - 1 : imus[j] < t}

Repeats(k, t) == \E i, j \in Samples(k, t) : i < j /\ imus[j] < imus[i]

\* Mutated form of Predicts: the last step is not cut short at t.
PredictsToSample(t) ==
  /\ \E k \in ImuCuts(Start(t) + 1) :
       /\ twice' = (twice \/ Repeats(k, t))
       /\ prior' = IF \E i \in Samples(k, t) : imus[i] > t
                   THEN CHOOSE s \in {imus[i] : i \in Samples(k, t)} : s > t ELSE t

Predicts(t) ==
  /\ \E k \in ImuCuts(Start(t) + 1) : twice' = (twice \/ Repeats(k, t))
  /\ prior' = t

(***************************************************************************)
(* The loop of process().  Poses older than the posterior are skipped; one *)
(* that is newer than the last sample ends the loop.                       *)
(***************************************************************************)
InLoop == at > 0 /\ at <= Len(poses)

Processable == InLoop /\ poses[at].t >= posterior /\ poses[at].t <= Latest(imus)

Skips ==
  /\ InLoop
  /\ poses[at].t < posterior
  /\ at' = at + 1
  /\ UNCHANGED <<input, queues, times, asked, history, imuVars>>

\* propagatePriorAndCovariance(), and the posterior becomes the prior.
Propagates ==
  /\ Predicts(poses[at].t)
  /\ posterior' = poses[at].t
  /\ blind' = blind \cup (posterior + 1..Start(poses[at].t))
  /\ did' = TRUE
  /\ UNCHANGED <<input, asked, ordered, peeked>>

\* The correction, unless the gain cannot be computed.
Corrects ==
  /\ Processable
  /\ Propagates
  /\ at' = at + 1
  /\ Fuses(poses[at]) \/ UNCHANGED <<fused, refused>>
  /\ UNCHANGED <<queues, jumps, dangled>>

\* The pose is far from the prior: it is ignored, ...
Ignores ==
  /\ Processable
  /\ Propagates
  /\ jumps + 1 < MaxJumps
  /\ jumps' = jumps + 1
  /\ at' = at + 1
  /\ UNCHANGED <<queues, history>>

\* ... or, too often now, init() takes it for the state and drops what is older.
Resets ==
  /\ Processable
  /\ Propagates
  /\ jumps + 1 >= MaxJumps
  /\ jumps' = 0
  /\ Fuses(poses[at])
  /\ \E k \in ImuCuts(poses[at].t) : imus' = Drop(imus, k)
  /\ \E k \in PoseCuts(poses[at].t) :
       /\ poses' = Drop(poses, k)
       /\ at' \in Moved(at + 1, k, poses')
       /\ dangled' = (dangled \/ (k >= at /\ poses' # <<>>))

Finished ==
  /\ at > 0
  /\ InLoop => poses[at].t >= posterior /\ poses[at].t > Latest(imus)

\* Mutated form of Erases: <= in the comparisons, but < is what erases.
ErasesOlder ==
  /\ \E k \in ImuCuts(posterior) : imus' = Drop(imus, k)
  /\ \E k \in PoseCuts(posterior) : poses' = Drop(poses, k)

\* The last pose processed has the stamp of the posterior.
Erases ==
  /\ \E k \in ImuCuts(posterior + 1) : imus' = Drop(imus, k)
  /\ \E k \in PoseCuts(posterior + 1) : poses' = Drop(poses, k)

Finishes ==
  /\ Finished
  /\ IF did THEN Erases ELSE UNCHANGED queues
  /\ at' = 0
  /\ UNCHANGED <<input, times, asked, history, imuVars>>

\* The rest of getAt(): a time up to the posterior is answered with it.
Answers ==
  /\ at = 0
  /\ asked # None
  /\ IF asked <= posterior
     THEN UNCHANGED <<prior, twice, peeked>>
     ELSE Predicts(asked) /\ peeked' = peeked \cup (Start(asked) + 1..asked)
  /\ asked' = None
  /\ UNCHANGED <<input, queues, posterior, at, history, did, jumps, ordered, blind>>

\* Another EkfImu in the process, that of the other pipeline, counts a jump.
OtherJumps ==
  /\ jumps' = (jumps + 1) % MaxJumps
  /\ UNCHANGED <<input, queues, times, at, asked, history, did, imuHistory>>

Process == Skips \/ Corrects \/ Ignores \/ Resets \/ Finishes
=============================================================================
