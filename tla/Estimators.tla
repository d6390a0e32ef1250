----------------------------- MODULE Estimators -----------------------------
(***************************************************************************)
(* The estimator of one of Pilot's two pipelines, of either type and with  *)
(* any parameters (createEstimator, src/agilib/src/pilot/pilot_params.cpp),*)
(* as Pilot feeds it (src/agilib/src/pilot/pilot.cpp): each pipeline's     *)
(* estimator gets the poses of a callback of its own, but the callbacks    *)
(* for IMU samples know only the user's.  Sensors stamp what they send     *)
(* with a common clock; transport delays it, and changes its order, by up  *)
(* to MaxDelay.                                                            *)
(***************************************************************************)
EXTENDS SampleQueues

CONSTANTS MaxWait, MaxJumps

ASSUME LimitsAssumption == MaxWait \in Nat /\ MaxJumps \in Nat \ {0}

VARIABLES
  kind,      \* config.type
  pipeline,  \* "user" or "safety"
  useImu, imuAt, lastImu, starved,
  did, jumps, ordered, twice, peeked, blind

E == INSTANCE Ekf
I == INSTANCE EkfImu

config == <<kind, pipeline>>
ofEkf == <<useImu, imuAt, lastImu, starved>>
ofEkfImu == <<did, jumps, ordered, twice, peeked, blind>>
vars == <<now, arrived, queues, times, at, asked, history, config, ofEkf,
          ofEkfImu>>

TypesOK ==
  /\ TypeOK
  /\ E!EkfTypeOK
  /\ I!ImuTypeOK
  /\ kind \in {"EKF", "EKFIMU"}
  /\ pipeline \in {"user", "safety"}

EstimatorsInit ==
  /\ Init
  /\ E!EkfInit
  /\ I!ImuInit
  /\ kind \in {"EKF", "EKFIMU"}
  /\ pipeline \in {"user", "safety"}

-----------------------------------------------------------------------------
IsEkf == kind = "EKF" /\ UNCHANGED <<config, ofEkfImu>>
IsEkfImu == kind = "EKFIMU" /\ UNCHANGED <<config, ofEkf>>

Tick ==
  /\ Free
  /\ now < MaxTime
  /\ now' = now + 1
  /\ UNCHANGED <<arrived, queues, times, at, asked, history, config, ofEkf,
                 ofEkfImu>>

\* odometryCallback() and guardOdometryCallback().  The clock goes on after the
\* last pose.
PoseArrives(t) ==
  /\ t < MaxTime
  /\ \/ IsEkf /\ (E!FirstPose(t) \/ E!AddPose(t))
     \/ IsEkfImu /\ (I!FirstPose(t) \/ I!AddPose(t))

\* imuCallback() and the feedback callback of a bridge.
ImuArrives(t) ==
  /\ pipeline = "user"
  /\ \/ IsEkf /\ E!AddImu(t)
     \/ IsEkfImu /\ I!AddImu(t)

\* Pipeline::run() asks for the time of the cycle, getRecent() for -1.
Asks(t) ==
  \/ IsEkf /\ E!GetAt(t)
  \/ IsEkfImu /\ I!GetAt(t)

Works ==
  \/ IsEkf /\ (E!Process \/ E!Answers)
  \/ IsEkfImu /\ (I!Process \/ I!Answers)

OtherJumps == IsEkfImu /\ I!OtherJumps

Next ==
  \/ Tick
  \/ \E t \in Fresh : PoseArrives(t) \/ ImuArrives(t)
  \/ \E t \in {Recent, now} : Asks(t)
  \/ Works
  \/ OtherJumps

Spec == EstimatorsInit /\ [][Next]_vars

(***************************************************************************)
(* Fairness: time goes on, a call that holds the lock returns, and an IMU  *)
(* that is connected sends samples with the current time.                  *)
(***************************************************************************)
FairSpec ==
  /\ Spec
  /\ SF_vars(Tick)
  /\ WF_vars(Works)
  /\ SF_vars(ImuArrives(now))

-----------------------------------------------------------------------------
\* A pose is fused twice only by an Ekf that uses the IMU, if process() had no
\* samples when it had been over that pose (ekf.cpp:175 returns before the
\* erasing), and however out of order poses and samples come; unless a reset has
\* pulled a pose from under an iterator, when nothing can be said.
OnlyStarvedFusesTwice ==
  refused # {} /\ ~dangled => kind = "EKF" /\ useImu /\ refused \subseteq starved

\* Whatever the order in which measurements arrive, and however many jumps, the
\* filters never go back in time.
ForwardOnly == [][posterior # None => posterior' >= posterior]_vars

\* If samples arrive in order, EkfImu integrates every moment once.
InOrderOnce == ordered => ~twice

\* EkfImu propagates the covariance over all time up to the posterior, except
\* over what a getAt() had predicted before the pose for it came.
OnlyQueriesHideTime == blind \subseteq peeked

\* As long as the IMU sends, or is not waited for, no pose stays in the queue.
QueueDrains ==
  \A n \in 1..MaxPoses :
    (/\ pipeline = "user" \/ (kind = "EKF" /\ ~useImu)
     /\ \E i \in 1..Len(poses) : poses[i].n = n)
    ~> ~\E i \in 1..Len(poses) : poses[i].n = n

\* README.md:85, "can use a secondary estimate (e.g. motion capture)": a pose
\* that waits in the queue of the guard's estimator moves its estimate on.
GuardFollowsPoses ==
  \A t \in Stamps :
    (/\ pipeline = "safety"
     /\ kind = "EKFIMU"
     /\ \E i \in 1..Len(poses) : poses[i].t = t) ~> posterior >= t
=============================================================================
