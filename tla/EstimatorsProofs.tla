-------------------------- MODULE EstimatorsProofs --------------------------
(***************************************************************************)
(* Safety of both filters, for every number of poses, every queue size and *)
(* every delay of the sensors.                                             *)
(***************************************************************************)
EXTENDS Estimators, TLAPS

-----------------------------------------------------------------------------
(***************************************************************************)
(* The queues                                                              *)
(***************************************************************************)
\* Both filters use the helpers of SampleQueues under names of their own.
LEMMA Shared ==
  /\ \A q, x : E!Push(q, x) = Push(q, x) /\ I!Push(q, x) = Push(q, x)
  /\ \A q, k : E!Drop(q, k) = Drop(q, k) /\ I!Drop(q, k) = Drop(q, k)
  /\ \A t : E!ImuCuts(t) = ImuCuts(t) /\ I!ImuCuts(t) = ImuCuts(t)
  /\ \A t : E!PoseCuts(t) = PoseCuts(t) /\ I!PoseCuts(t) = PoseCuts(t)
  /\ \A i, k, q : E!Moved(i, k, q) = Moved(i, k, q)
                  /\ I!Moved(i, k, q) = Moved(i, k, q)
  /\ \A q : I!Latest(q) = Latest(q)
<1>1. \A q, k : E!Drop(q, k) = Drop(q, k) /\ I!Drop(q, k) = Drop(q, k)
  BY DEF E!Drop, I!Drop, Drop
<1>2. \A q, x : E!Push(q, x) = Push(q, x) /\ I!Push(q, x) = Push(q, x)
  BY <1>1 DEF E!Push, I!Push, Push
<1>3. QED
  BY <1>1, <1>2 DEF E!ImuCuts, I!ImuCuts, ImuCuts, E!PoseCuts, I!PoseCuts,
     PoseCuts, E!Moved, I!Moved, Moved, I!Latest, Latest

\* What erasing the first k elements leaves.
LEMMA Drops ==
  ASSUME NEW S, NEW q \in Seq(S), NEW k \in 0..Len(q)
  PROVE  /\ Drop(q, k) \in Seq(S)
         /\ Len(Drop(q, k)) = Len(q) - k
         /\ \A i \in 1..Len(q) - k : Drop(q, k)[i] = q[i + k] /\ i + k \in 1..Len(q)
<1>1. Len(SubSeq(q, k + 1, Len(q))) = Len(q) - k
  OBVIOUS
<1>2. \A i \in 1..Len(q) - k : SubSeq(q, k + 1, Len(q))[i] = q[i + k] /\ i + k \in 1..Len(q)
  OBVIOUS
<1>3. SubSeq(q, k + 1, Len(q)) \in Seq(S)
  OBVIOUS
<1>4. QED
  BY <1>1, <1>2, <1>3 DEF Drop

\* A queue that takes x gives up d elements in front, if it has to.
LEMMA Pushes ==
  ASSUME NEW S, NEW q \in Seq(S), Len(q) <= MaxQueue, NEW x \in S
  PROVE  /\ Push(q, x) \in Seq(S)
         /\ Len(Push(q, x)) \in 1..MaxQueue
         /\ \E d \in 0..1 :
              /\ Len(Push(q, x)) = Len(q) + 1 - d
              /\ \A i \in 1..Len(q) + 1 - d :
                   /\ i + d \in 1..Len(q) => Push(q, x)[i] = q[i + d]
                   /\ i + d = Len(q) + 1 => Push(q, x)[i] = x
<1> DEFINE full == Append(q, x)
<1>1. /\ full \in Seq(S) /\ Len(full) = Len(q) + 1
      /\ \A i \in 1..Len(q) : full[i] = q[i]
      /\ full[Len(q) + 1] = x
  OBVIOUS
<1>2. MaxQueue \in Nat \ {0} /\ Len(q) \in Nat
  BY BoundsAssumption
<1> HIDE DEF full
<1>3. CASE Len(full) > MaxQueue
  <2>1. Push(q, x) = Drop(full, 1)
    BY <1>3 DEF Push, full
  <2>2. /\ Drop(full, 1) \in Seq(S) /\ Len(Drop(full, 1)) = Len(q)
        /\ \A i \in 1..Len(q) : Drop(full, 1)[i] = full[i + 1]
    <3>1. 1 \in 0..Len(full) /\ Len(full) - 1 = Len(q)
      BY <1>1, <1>2
    <3>2. /\ Drop(full, 1) \in Seq(S) /\ Len(Drop(full, 1)) = Len(full) - 1
          /\ \A i \in 1..Len(full) - 1 : Drop(full, 1)[i] = full[i + 1]
      BY <1>1, <3>1, Drops
    <3>3. QED
      BY <3>1, <3>2
  <2>3. Len(q) = MaxQueue
    BY <1>1, <1>2, <1>3
  <2>4. ASSUME NEW i \in 1..Len(q) + 1 - 1
        PROVE  /\ i + 1 \in 1..Len(q) => Push(q, x)[i] = q[i + 1]
               /\ i + 1 = Len(q) + 1 => Push(q, x)[i] = x
    <3>1. i \in 1..Len(q) /\ Push(q, x)[i] = full[i + 1]
      BY <1>2, <2>1, <2>2
    <3>2. QED
      BY <1>1, <3>1
  <2>5. QED
    BY <1>2, <2>1, <2>2, <2>3, <2>4
<1>4. CASE ~(Len(full) > MaxQueue)
  <2>1. Push(q, x) = full
    BY <1>4 DEF Push, full
  <2>2. \A i \in 1..Len(q) + 1 - 0 :
          /\ i + 0 \in 1..Len(q) => Push(q, x)[i] = q[i + 0]
          /\ i + 0 = Len(q) + 1 => Push(q, x)[i] = x
    BY <1>1, <1>2, <2>1
  <2>3. QED
    BY <1>1, <1>2, <1>4, <2>1, <2>2
<1>5. QED
  BY <1>3, <1>4

\* lower_bound ends somewhere in the queue or behind it.
LEMMA CutsInRange ==
  /\ \A t : ImuCuts(t) \subseteq 0..Len(imus)
  /\ \A t : PoseCuts(t) \subseteq 0..Len(poses)
BY DEF ImuCuts, PoseCuts

-----------------------------------------------------------------------------
(***************************************************************************)
(* Types                                                                   *)
(***************************************************************************)
\* Nothing is queued for an Ekf, and no iterator moves, before its first pose.
Sane ==
  /\ TypesOK
  /\ poses # <<>> => posterior # None
  /\ imuAt > 1 => kind = "EKF" /\ posterior # None

\* The initial states of both filters.
LEMMA EkfInitialised ==
  ASSUME EstimatorsInit
  PROVE  Sane
<1>1. <<>> \in Seq(Pose) /\ <<>> \in Seq(Stamps) /\ Len(<<>>) = 0
  OBVIOUS
<1>2. TypeOK
  <2>1. now \in Stamps /\ arrived \in 0..MaxPoses
    BY BoundsAssumption DEF EstimatorsInit, Init, Stamps
  <2>2. poses \in Seq(Pose) /\ Len(poses) <= MaxQueue /\ at \in 0..Len(poses) + 1
    BY <1>1, BoundsAssumption DEF EstimatorsInit, Init
  <2>3. imus \in Seq(Stamps) /\ Len(imus) <= MaxQueue
    BY <1>1, BoundsAssumption DEF EstimatorsInit, Init
  <2>4. QED
    BY <2>1, <2>2, <2>3 DEF EstimatorsInit, Init, TypeOK
<1>3. E!EkfTypeOK /\ imuAt = 1
  <2>1. imuAt = 1 /\ useImu \in BOOLEAN /\ lastImu = None /\ starved = {}
    BY DEF EstimatorsInit, E!EkfInit, E!None, None
  <2>2. imus = <<>>
    BY DEF EstimatorsInit, Init
  <2>3. QED
    BY <1>1, <2>1, <2>2 DEF E!EkfTypeOK, E!None, None
<1>4. I!ImuTypeOK
  <2>1. did \in BOOLEAN /\ ordered \in BOOLEAN /\ twice \in BOOLEAN
    BY Zenon DEF EstimatorsInit, I!ImuInit
  <2>2. jumps \in 0..MaxJumps - 1
    BY LimitsAssumption DEF EstimatorsInit, I!ImuInit
  <2>3. peeked = {} /\ blind = {}
    BY DEF EstimatorsInit, I!ImuInit
  <2>4. QED
    BY <2>1, <2>2, <2>3 DEF I!ImuTypeOK
<1>5. poses = <<>> /\ kind \in {"EKF", "EKFIMU"} /\ pipeline \in {"user", "safety"}
  BY DEF EstimatorsInit, Init
<1>6. QED
  BY <1>2, <1>3, <1>4, <1>5 DEF Sane, TypesOK

\* A prediction ends at the time asked for.
LEMMA Predicted ==
  ASSUME NEW t, I!Predicts(t)
  PROVE  prior' = t /\ \E k \in ImuCuts(I!Start(t) + 1) : twice' = (twice \/ I!Repeats(k, t))
BY Shared DEF I!Predicts

\* The instances call the same things by other names.
LEMMA Names ==
  /\ E!Stamps = Stamps /\ I!Stamps = Stamps
  /\ E!None = None /\ I!None = None
  /\ E!Recent = Recent /\ I!Recent = Recent
  /\ None \notin Stamps /\ Stamps \subseteq Nat
BY DEF E!Stamps, I!Stamps, Stamps, E!None, I!None, None, E!Recent, I!Recent, Recent

LEMMA EkfKeepsTypes ==
  ASSUME Sane, kind = "EKF", UNCHANGED <<config, ofEkfImu>>,
         \/ \E t \in Fresh : E!FirstPose(t) \/ E!AddPose(t) \/ E!AddImu(t)
         \/ \E t \in {Recent, now} : E!GetAt(t)
         \/ E!Process \/ E!Answers
  PROVE  Sane'
<1> USE Names
<1>1. /\ now \in Stamps /\ arrived \in 0..MaxPoses
      /\ poses \in Seq(Pose) /\ Len(poses) \in 0..MaxQueue
      /\ imus \in Seq(Stamps) /\ Len(imus) \in 0..MaxQueue
      /\ posterior \in Stamps \cup {None} /\ prior \in Stamps \cup {None}
      /\ at \in 0..Len(poses) + 1 /\ asked \in Stamps \cup {None, Recent}
      /\ fused \subseteq 1..MaxPoses /\ refused \subseteq 1..MaxPoses
      /\ dangled \in BOOLEAN /\ useImu \in BOOLEAN /\ imuAt \in 1..Len(imus) + 1
      /\ lastImu \in Stamps \cup {None} /\ starved \subseteq 1..MaxPoses
  BY BoundsAssumption DEF Sane, TypesOK, TypeOK, E!EkfTypeOK
<1>2. poses # <<>> \/ imuAt > 1 => posterior \in Stamps
  BY <1>1 DEF Sane
<1>3. ASSUME TypeOK', E!EkfTypeOK', poses' # <<>> \/ imuAt' > 1 => posterior' # None
      PROVE  Sane'
  <2>1. kind' = kind /\ pipeline' = pipeline /\ UNCHANGED ofEkfImu
    BY DEF config
  <2>2. I!ImuTypeOK'
    BY <2>1 DEF Sane, TypesOK, I!ImuTypeOK, ofEkfImu
  <2>3. QED
    BY <1>3, <2>1, <2>2 DEF Sane, TypesOK
<1>4. ASSUME NEW t \in Fresh, E!FirstPose(t) PROVE Sane'
  <2>1. t \in Stamps
    BY DEF Fresh
  <2>2. PICK k \in ImuCuts(t) : imus' = Drop(imus, k)
    BY <1>4, Shared DEF E!FirstPose
  <2>3. imus' \in Seq(Stamps) /\ Len(imus') \in 0..MaxQueue
    <3>1. /\ Drop(imus, k) \in Seq(Stamps)
          /\ Len(Drop(imus, k)) = Len(imus) - k /\ k \in 0..Len(imus)
      BY <1>1, CutsInRange, Drops
    <3>2. QED
      BY <1>1, <2>2, <3>1, BoundsAssumption
  <2>4. /\ UNCHANGED <<now, arrived, poses, at, asked, fused, refused, dangled>>
        /\ UNCHANGED <<useImu, imuAt, lastImu, starved>>
        /\ posterior' = t /\ prior' = t /\ posterior = None
    BY <1>4 DEF E!FirstPose, E!input, E!history, E!ekfVars
  <2>5. TypeOK'
    BY SMTT(30), <1>1, <2>1, <2>3, <2>4 DEF TypeOK
  <2>6. imuAt = 1
    BY <1>2, <1>1, <2>4
  <2>7. E!EkfTypeOK'
    BY SMTT(30), <1>1, <2>3, <2>4, <2>6 DEF E!EkfTypeOK
  <2>8. QED
    BY <1>3, <2>1, <2>4, <2>5, <2>7
<1>5. ASSUME NEW t \in Fresh, E!AddPose(t) PROVE Sane'
  <2>1. [n |-> arrived + 1, t |-> t] \in Pose /\ arrived' \in 0..MaxPoses
    BY <1>5, <1>1, BoundsAssumption DEF Fresh, E!AddPose, Pose
  <2>2. poses' = Push(poses, [n |-> arrived + 1, t |-> t])
    BY <1>5, Shared DEF E!AddPose
  <2>3. poses' \in Seq(Pose) /\ Len(poses') \in 1..MaxQueue
    BY <1>1, <2>1, <2>2, Pushes
  <2>4. /\ at' = 1 /\ imuAt' = 1 /\ posterior # None
        /\ UNCHANGED <<now, imus, posterior, prior, asked, fused, refused, dangled>>
        /\ UNCHANGED <<useImu, lastImu, starved>>
    BY <1>5 DEF E!AddPose, E!Begins, E!times, E!history
  <2>5. at' \in 0..Len(poses') + 1 /\ imuAt' \in 1..Len(imus') + 1
    BY <1>1, <2>3, <2>4
  <2>6. TypeOK'
    BY SMTT(30), <1>1, <2>1, <2>3, <2>4, <2>5 DEF TypeOK
  <2>7. E!EkfTypeOK'
    BY <1>1, <2>4, <2>5 DEF E!EkfTypeOK
  <2>8. QED
    BY <1>3, <2>4, <2>6, <2>7
<1>6. ASSUME NEW t \in Fresh, E!AddImu(t) PROVE Sane'
  <2>1. imus' = Push(imus, t) /\ t \in Stamps
    BY <1>6, Shared DEF E!AddImu, Fresh
  <2>2. imus' \in Seq(Stamps) /\ Len(imus') \in 1..MaxQueue
    BY <1>1, <2>1, Pushes
  <2>3. /\ at' = 1 /\ imuAt' = 1 /\ lastImu' = t
        /\ UNCHANGED <<now, arrived, poses, posterior, prior, asked>>
        /\ UNCHANGED <<fused, refused, dangled, useImu, starved>>
    BY <1>6 DEF E!AddImu, E!Begins, E!input, E!times, E!history
  <2>4. at' \in 0..Len(poses') + 1 /\ imuAt' \in 1..Len(imus') + 1
    BY SMTT(30), <1>1, <2>2, <2>3
  <2>5. TypeOK'
    BY SMTT(30), <1>1, <2>2, <2>3, <2>4 DEF TypeOK
  <2>6. E!EkfTypeOK'
    BY <1>1, <2>1, <2>3, <2>4 DEF E!EkfTypeOK
  <2>7. QED
    BY <1>2, <1>3, <2>3, <2>5, <2>6
<1>7. ASSUME NEW t \in {Recent, now}, E!GetAt(t) PROVE Sane'
  <2>1. /\ at' = 1 /\ imuAt' = 1 /\ asked' = t
        /\ UNCHANGED <<now, arrived, poses, imus, posterior, prior>>
        /\ UNCHANGED <<fused, refused, dangled, useImu, lastImu, starved>>
    BY <1>7 DEF E!GetAt, E!Begins, E!input, E!queues, E!times, E!history
  <2>2. /\ at' \in 0..Len(poses') + 1 /\ imuAt' \in 1..Len(imus') + 1
        /\ asked' \in Stamps \cup {None, Recent}
    BY <1>1, <2>1
  <2>3. TypeOK'
    BY SMTT(30), <1>1, <2>1, <2>2 DEF TypeOK
  <2>4. E!EkfTypeOK'
    BY <1>1, <2>1, <2>2 DEF E!EkfTypeOK
  <2>5. QED
    BY <1>2, <1>3, <2>1, <2>3, <2>4
<1>8. CASE E!FusesImu
  <2>1. imuAt \in 1..Len(imus) /\ at \in 1..Len(poses)
    BY <1>8, <1>1 DEF E!FusesImu, E!ImuIsNext, E!InLoop
  <2>2. imus[imuAt] \in Stamps /\ posterior \in Stamps
    <3>1. poses # <<>>
      BY <1>1, <2>1
    <3>2. QED
      BY <1>2, <1>1, <2>1, <3>1
  <2>3. posterior' \in Stamps /\ prior' \in Stamps \cup {None}
    BY <1>8, <1>1, <2>2 DEF E!FusesImu, E!times
  <2>4. imuAt' \in 1..Len(imus) + 1
    BY <1>8, <1>1, <2>1 DEF E!FusesImu
  <2>5. /\ UNCHANGED <<now, arrived, poses, imus, at, asked, fused, refused>>
        /\ UNCHANGED <<dangled, useImu, lastImu, starved>>
    BY <1>8 DEF E!FusesImu, E!input, E!queues, E!history
  <2>6. TypeOK'
    BY SMTT(30), <1>1, <2>3, <2>5 DEF TypeOK
  <2>7. E!EkfTypeOK'
    BY <1>1, <2>4, <2>5 DEF E!EkfTypeOK
  <2>8. QED
    BY <1>3, <2>3, <2>6, <2>7
<1>9. CASE E!ForgetsImu
  <2>1. /\ imus' = <<>> /\ imuAt' = 1 /\ lastImu' = None
        /\ UNCHANGED <<now, arrived, poses, posterior, prior, at, asked>>
        /\ UNCHANGED <<fused, refused, dangled, useImu, starved>>
    BY <1>9 DEF E!ForgetsImu, E!input, E!times, E!history
  <2>2. imus' \in Seq(Stamps) /\ Len(imus') = 0 /\ imuAt' \in 1..Len(imus') + 1
    BY <2>1
  <2>3. TypeOK'
    BY <1>1, <2>1, <2>2, BoundsAssumption DEF TypeOK
  <2>4. E!EkfTypeOK'
    BY <1>1, <2>1, <2>2 DEF E!EkfTypeOK
  <2>5. QED
    BY <1>2, <1>3, <2>1, <2>3, <2>4
<1> DEFINE Passed == {poses[i].n : i \in 1..at}
<1>10. ASSUME E!PoseIsNext
      PROVE  /\ at \in 1..Len(poses) /\ poses[at].t \in Stamps
             /\ poses[at].n \in 1..MaxPoses /\ Passed \subseteq 1..MaxPoses
             /\ posterior \in Stamps
  <2>1. at \in 1..Len(poses)
    BY <1>10, <1>1 DEF E!PoseIsNext, E!InLoop
  <2>2. \A i \in 1..at : poses[i] \in Pose
    BY SMTT(30), <1>1, <2>1
  <2>3. \A p \in Pose : p.n \in 1..MaxPoses /\ p.t \in Stamps
    BY DEF Pose
  <2>4. at \in 1..at /\ poses # <<>>
    BY <1>1, <2>1
  <2>5. QED
    BY <1>2, <2>1, <2>2, <2>3, <2>4
<1>11. ASSUME NEW next \in SUBSET (1..Len(poses') + 1), E!Advances(next), E!PoseIsNext,
             Len(poses') \in Nat
      PROVE  at' \in 0..Len(poses') + 1 /\ starved' \subseteq 1..MaxPoses
  <2>1. CASE poses' = <<>> \/ (useImu /\ imus' = <<>>)
    <3>1. at' = 0 /\ starved' = starved \cup Passed
      BY <1>11, <2>1 DEF E!Advances
    <3>2. 0 \in 0..Len(poses') + 1
      BY <1>11
    <3>3. QED
      BY <1>10, <1>11, <1>1, <3>1, <3>2
  <2>2. CASE ~(poses' = <<>> \/ (useImu /\ imus' = <<>>))
    <3>1. at' \in next /\ starved' = starved
      BY <1>11, <2>2 DEF E!Advances
    <3>2. QED
      BY SMTT(30), <1>11, <1>1, <3>1
  <2>3. QED
    BY <2>1, <2>2
<1>12. CASE E!IsLate
  <2>1. /\ E!PoseIsNext /\ E!Advances({at + 1})
        /\ UNCHANGED <<now, arrived, poses, imus, posterior, prior, asked>>
        /\ UNCHANGED <<fused, refused, dangled, useImu, imuAt, lastImu>>
    BY <1>12 DEF E!IsLate, E!input, E!queues, E!times, E!history
  <2>2. {at + 1} \in SUBSET (1..Len(poses') + 1) /\ Len(poses') \in Nat
    BY <1>10, <1>1, <2>1
  <2>3. at' \in 0..Len(poses') + 1 /\ starved' \subseteq 1..MaxPoses
    BY <1>11, <2>1, <2>2
  <2>4. TypeOK'
    BY SMTT(30), <1>1, <2>1, <2>3 DEF TypeOK
  <2>5. E!EkfTypeOK'
    BY <1>1, <2>1, <2>3 DEF E!EkfTypeOK
  <2>6. QED
    BY <1>10, <1>3, <2>1, <2>4, <2>5
<1>13. CASE E!FusesPose
  <2>1. /\ E!PoseIsNext /\ E!Advances({at + 1})
        /\ UNCHANGED <<now, arrived, poses, imus, asked>>
        /\ UNCHANGED <<dangled, useImu, imuAt, lastImu>>
    BY <1>13 DEF E!FusesPose, E!input, E!queues
  <2>2. {at + 1} \in SUBSET (1..Len(poses') + 1) /\ Len(poses') \in Nat
    BY <1>10, <1>1, <2>1
  <2>3. at' \in 0..Len(poses') + 1 /\ starved' \subseteq 1..MaxPoses
    BY <1>11, <2>1, <2>2
  <2>4. fused' \subseteq 1..MaxPoses /\ refused' \subseteq 1..MaxPoses
    BY <1>10, <1>13, <1>1, <2>1 DEF E!FusesPose, E!Fuses
  <2>5. posterior' \in Stamps /\ prior' \in Stamps
    BY <1>10, <1>13, <2>1 DEF E!FusesPose
  <2>6. TypeOK'
    BY SMTT(30), <1>1, <2>1, <2>3, <2>4, <2>5 DEF TypeOK
  <2>7. E!EkfTypeOK'
    BY <1>1, <2>1, <2>3 DEF E!EkfTypeOK
  <2>8. QED
    BY <1>3, <2>5, <2>6, <2>7
<1>14. CASE E!Jumps
  <2>1. PICK i \in ImuCuts(poses[at].t), k \in PoseCuts(poses[at].t) :
          /\ imus' = Drop(imus, i)
          /\ imuAt' \in Moved(imuAt, i, imus')
          /\ poses' = Drop(poses, k)
          /\ E!Advances(Moved(at + 1, k, poses'))
          /\ dangled' = (dangled \/ (at' > 0 /\ (k >= at \/ i >= imuAt)))
    BY <1>14, Shared DEF E!Jumps
  <2>2. /\ E!PoseIsNext /\ UNCHANGED <<now, arrived, asked, useImu, lastImu>>
        /\ posterior' = poses[at].t /\ prior' = poses[at].t
    BY <1>14 DEF E!Jumps, E!input
  <2>3. /\ imus' \in Seq(Stamps) /\ Len(imus') = Len(imus) - i /\ i \in 0..Len(imus)
        /\ poses' \in Seq(Pose) /\ Len(poses') = Len(poses) - k /\ k \in 0..Len(poses)
    BY <1>1, <2>1, CutsInRange, Drops
  <2>4. Len(imus') \in 0..MaxQueue /\ Len(poses') \in 0..MaxQueue
    BY SMTT(30), <1>1, <2>3, BoundsAssumption
  <2>5. imuAt' \in 1..Len(imus') + 1
    <3>1. i < imuAt => imuAt - i \in 1..Len(imus') + 1
      BY <1>1, <2>3
    <3>2. QED
      BY <2>1, <3>1 DEF Moved
  <2>6. Moved(at + 1, k, poses') \in SUBSET (1..Len(poses') + 1)
    <3>1. at \in Nat /\ Len(poses) \in Nat /\ at <= Len(poses)
      BY <1>10, <1>1, <2>2
    <3>2. k \in Nat /\ Len(poses') = Len(poses) - k
      BY <2>3, <3>1
    <3>3. k < at + 1 => (at + 1) - k \in 1..Len(poses') + 1
      BY <3>1, <3>2
    <3>4. QED
      BY <3>3 DEF Moved
  <2>7. at' \in 0..Len(poses') + 1 /\ starved' \subseteq 1..MaxPoses
    <3>1. Len(poses') \in Nat
      BY <2>4
    <3>2. QED
      BY <1>11, <2>1, <2>2, <2>6, <3>1
  <2>8. fused' \subseteq 1..MaxPoses /\ refused' \subseteq 1..MaxPoses
    BY <1>10, <1>14, <1>1, <2>2 DEF E!Jumps, E!Fuses
  <2>9. posterior' \in Stamps /\ prior' \in Stamps
    BY <1>10, <2>2
  <2>10. dangled' \in BOOLEAN
    BY <2>1
  <2>11. TypeOK'
    <3>1. /\ now' \in Stamps /\ arrived' \in 0..MaxPoses
          /\ asked' \in Stamps \cup {None, Recent}
      BY <1>1, <2>2
    <3>2. Len(poses') <= MaxQueue /\ Len(imus') <= MaxQueue
      BY <2>4, BoundsAssumption
    <3>3. QED
      BY ZenonT(60), <2>3, <2>7, <2>8, <2>9, <2>10, <3>1, <3>2 DEF TypeOK
  <2>12. E!EkfTypeOK'
    BY <1>1, <2>2, <2>5, <2>7 DEF E!EkfTypeOK
  <2>13. QED
    BY <1>3, <2>9, <2>11, <2>12
<1>15. CASE E!Finishes
  <2>1. /\ at > 0 /\ imuAt' = 1 /\ at' = 0
        /\ UNCHANGED <<now, arrived, posterior, prior, asked, fused, refused>>
        /\ UNCHANGED <<dangled, useImu, lastImu, starved>>
    BY <1>15 DEF E!Finishes, E!input, E!times, E!history
  <2>2. imuAt - 1 \in 0..Len(imus) /\ at - 1 \in 0..Len(poses)
    BY <1>1, <2>1
  <2>3. imus' = Drop(imus, imuAt - 1) /\ poses' = Drop(poses, at - 1)
    BY <1>15, Shared DEF E!Finishes
  <2>4. imus' \in Seq(Stamps) /\ Len(imus') = Len(imus) - (imuAt - 1)
    BY <1>1, <2>2, <2>3, Drops
  <2>5. poses' \in Seq(Pose) /\ Len(poses') = Len(poses) - (at - 1)
    <3>1. poses \in Seq(Pose)
      BY <1>1
    <3> DEFINE gone == at - 1
    <3>2. gone \in 0..Len(poses) /\ poses' = Drop(poses, gone)
      BY <2>2, <2>3
    <3> HIDE DEF gone
    <3>3. poses' \in Seq(Pose) /\ Len(poses') = Len(poses) - gone
      BY <3>1, <3>2, Drops
    <3>4. QED
      BY <3>3 DEF gone
  <2>6. Len(imus') \in 0..MaxQueue /\ Len(poses') \in 0..MaxQueue
    BY SMTT(30), <1>1, <2>2, <2>4, <2>5, BoundsAssumption
  <2>7. poses' # <<>> => poses # <<>>
    BY <1>1, <2>2, <2>5
  <2>8. at' \in 0..Len(poses') + 1 /\ imuAt' \in 1..Len(imus') + 1
    BY <2>1, <2>6
  <2>9. TypeOK'
    <3>1. /\ now' \in Stamps /\ arrived' \in 0..MaxPoses
          /\ posterior' \in Stamps \cup {None} /\ prior' \in Stamps \cup {None}
          /\ asked' \in Stamps \cup {None, Recent} /\ dangled' \in BOOLEAN
          /\ fused' \subseteq 1..MaxPoses /\ refused' \subseteq 1..MaxPoses
      BY <1>1, <2>1
    <3>2. Len(poses') <= MaxQueue /\ Len(imus') <= MaxQueue
      BY <2>6, BoundsAssumption
    <3>3. QED
      BY ZenonT(60), <2>4, <2>5, <2>8, <3>1, <3>2 DEF TypeOK
  <2>10. E!EkfTypeOK'
    BY <1>1, <2>1, <2>8 DEF E!EkfTypeOK
  <2>11. QED
    BY <1>2, <1>3, <2>1, <2>7, <2>9, <2>10
<1>16. CASE E!Answers
  <2>1. /\ asked \in Stamps \cup {Recent} /\ asked' = None
        /\ prior' = (IF asked <= prior THEN prior ELSE asked)
        /\ UNCHANGED <<now, arrived, poses, imus, posterior, at, fused, refused>>
        /\ UNCHANGED <<dangled, useImu, imuAt, lastImu, starved>>
    BY <1>16, <1>1 DEF E!Answers, E!input, E!queues, E!history, E!ekfVars
  <2>2. prior' \in Stamps \cup {None}
    <3>1. asked = Recent => asked <= prior
      BY <1>1 DEF Recent, None
    <3>2. QED
      BY <1>1, <2>1, <3>1
  <2>3. TypeOK'
    BY SMTT(30), <1>1, <2>1, <2>2 DEF TypeOK
  <2>4. E!EkfTypeOK'
    BY <1>1, <2>1 DEF E!EkfTypeOK
  <2>5. QED
    BY <1>2, <1>3, <2>1, <2>3, <2>4
<1>17. QED
  BY <1>4, <1>5, <1>6, <1>7, <1>8, <1>9, <1>12, <1>13, <1>14, <1>15, <1>16
     DEF E!Process

LEMMA EkfImuKeepsTypes ==
  ASSUME Sane, kind = "EKFIMU", UNCHANGED <<config, ofEkf>>,
         \/ \E t \in Fresh : I!FirstPose(t) \/ I!AddPose(t) \/ I!AddImu(t)
         \/ \E t \in {Recent, now} : I!GetAt(t)
         \/ I!Process \/ I!Answers \/ I!OtherJumps
  PROVE  Sane'
<1> USE DEF Sane, TypesOK, TypeOK, E!EkfTypeOK, I!ImuTypeOK, E!None, None,
            E!Stamps, Stamps, I!queues, I!times, I!input, I!history,
            I!imuVars, I!imuHistory, config, ofEkf, I!Stamps, I!None
<1>1. UNCHANGED <<kind, pipeline, useImu, imuAt, lastImu, starved>> /\ imuAt = 1
  BY SMT
<1>2. ASSUME TypeOK', I!ImuTypeOK', posterior' # None \/ poses' = <<>>
       PROVE  Sane'
  <2>1. Len(imus') \in Nat
    BY <1>2
  <2>2. imuAt' \in 1..Len(imus') + 1 /\ imuAt' = 1
    BY <1>1, <2>1
  <2>3. E!EkfTypeOK'
    BY <1>1, <2>2
  <2>4. QED
    BY <1>1, <1>2, <2>2, <2>3
<1>3. ASSUME NEW t \in Fresh, I!FirstPose(t) PROVE Sane'
  <2>1. t \in Stamps
    BY DEF Fresh
  <2>2. PICK k \in ImuCuts(t) : imus' = Drop(imus, k)
    BY <1>3, Shared DEF I!FirstPose
  <2>3. imus' \in Seq(Stamps) /\ Len(imus') <= MaxQueue
    <3>1. /\ Drop(imus, k) \in Seq(Stamps)
          /\ Len(Drop(imus, k)) = Len(imus) - k /\ k \in 0..Len(imus)
      BY CutsInRange, Drops
    <3>2. QED
      BY <2>2, <3>1, BoundsAssumption
  <2>4. QED
    BY <1>1, <1>3, <2>1, <2>3 DEF I!FirstPose
<1>4. ASSUME NEW t \in Fresh, I!AddPose(t) PROVE Sane'
  <2>1. [n |-> arrived + 1, t |-> t] \in Pose /\ arrived' \in 0..MaxPoses
    BY <1>4, BoundsAssumption DEF Fresh, I!AddPose, Pose
  <2>2. poses' = Push(poses, [n |-> arrived + 1, t |-> t])
    BY <1>4, Shared DEF I!AddPose
  <2>3. poses' \in Seq(Pose) /\ Len(poses') \in 1..MaxQueue
    BY <2>1, <2>2, Pushes
  <2>4. at' \in 0..Len(poses') + 1 /\ did' = FALSE
    BY <1>4, <2>3 DEF I!AddPose, I!Begins
  <2>5. UNCHANGED <<now, imus, posterior, prior, asked, fused, refused, dangled,
                    jumps, ordered, twice, peeked, blind>> /\ posterior # None
    BY <1>4 DEF I!AddPose
  <2>6. TypeOK'
    BY <2>1, <2>3, <2>4, <2>5, BoundsAssumption
  <2>7. I!ImuTypeOK'
    BY <2>4, <2>5
  <2>8. QED
    BY <1>2, <2>5, <2>6, <2>7
<1>5. ASSUME NEW t \in Fresh, I!AddImu(t) PROVE Sane'
  <2>1. imus' = Push(imus, t) /\ t \in Stamps
    BY <1>5, Shared DEF I!AddImu, Fresh
  <2>2. imus' \in Seq(Stamps) /\ Len(imus') \in 1..MaxQueue
    BY <2>1, Pushes
  <2>3. at' \in 0..Len(poses) + 1 /\ did' = FALSE /\ ordered' \in BOOLEAN
    BY <1>5 DEF I!AddImu, I!Begins
  <2>4. UNCHANGED <<now, arrived, poses, posterior, prior, asked, fused, refused,
                    dangled, jumps, twice, peeked, blind>>
    BY <1>5 DEF I!AddImu
  <2>5. TypeOK'
    BY <2>2, <2>3, <2>4, BoundsAssumption
  <2>6. I!ImuTypeOK'
    BY <2>3, <2>4
  <2>7. QED
    BY <1>2, <2>4, <2>5, <2>6
<1>6. ASSUME NEW t \in {Recent, now}, I!GetAt(t) PROVE Sane'
  <2>1. at' \in 0..Len(poses) + 1 /\ did' = FALSE
    BY <1>6 DEF I!GetAt, I!Begins
  <2>2. QED
    BY <1>1, <1>6, <2>1 DEF I!GetAt
<1>7. CASE I!Skips
  BY <1>1, <1>7 DEF I!Skips, I!InLoop
<1>8. ASSUME I!Processable, I!Propagates
      PROVE  /\ at \in 1..Len(poses) /\ poses[at].t \in Stamps
             /\ poses[at].n \in 1..MaxPoses
             /\ posterior' \in Stamps /\ prior' \in Stamps /\ posterior' = poses[at].t
             /\ twice' \in BOOLEAN /\ blind' \subseteq Stamps /\ did' = TRUE
             /\ UNCHANGED <<now, arrived, asked, ordered, peeked>>
  <2>1. at \in 1..Len(poses)
    BY <1>8 DEF I!Processable, I!InLoop
  <2>2. poses[at] \in Pose
    BY <2>1
  <2>3. poses[at].n \in 1..MaxPoses /\ poses[at].t \in Stamps
    BY <2>2 DEF Pose
  <2>4. prior' = poses[at].t /\ twice' \in BOOLEAN
    BY <1>8, Predicted DEF I!Propagates
  <2>5. posterior + 1..I!Start(poses[at].t) \subseteq Stamps
    BY <2>3, BoundsAssumption DEF I!Start
  <2>6. QED
    BY <1>8, <2>1, <2>3, <2>4, <2>5 DEF I!Propagates
<1>9. CASE I!Corrects
  <2>1. I!Processable /\ I!Propagates
    BY <1>9 DEF I!Corrects
  <2>2. fused' \subseteq 1..MaxPoses /\ refused' \subseteq 1..MaxPoses
    BY <1>8, <1>9, <2>1 DEF I!Corrects, I!Fuses
  <2>3. at' \in 0..Len(poses) + 1
    BY SMTT(30), <1>8, <1>9, <2>1 DEF I!Corrects
  <2>4. UNCHANGED <<poses, imus, jumps, dangled>>
    BY <1>9 DEF I!Corrects
  <2>5. TypeOK' /\ posterior' # None
    BY SMTT(30), <1>8, <2>1, <2>2, <2>3, <2>4
  <2>6. I!ImuTypeOK'
    BY <1>8, <2>1, <2>4
  <2>7. QED
    BY <1>2, <2>5, <2>6
<1>10. CASE I!Ignores
  <2>1. I!Processable /\ I!Propagates
    BY <1>10 DEF I!Ignores
  <2>2. at' \in 0..Len(poses) + 1 /\ jumps' \in 0..MaxJumps - 1
    BY <1>8, <1>10, <2>1, LimitsAssumption DEF I!Ignores
  <2>3. UNCHANGED <<poses, imus, fused, refused, dangled>>
    BY <1>10 DEF I!Ignores
  <2>4. TypeOK' /\ posterior' # None
    BY SMTT(30), <1>8, <2>1, <2>2, <2>3
  <2>5. I!ImuTypeOK'
    BY <1>8, <2>1, <2>2
  <2>6. QED
    BY <1>2, <2>4, <2>5
<1>11. CASE I!Resets
  <2>1. I!Processable /\ I!Propagates
    BY <1>11 DEF I!Resets
  <2>2. PICK i \in ImuCuts(poses[at].t) : imus' = Drop(imus, i)
    BY <1>11, Shared DEF I!Resets
  <2>3. PICK k \in PoseCuts(poses[at].t) :
          /\ poses' = Drop(poses, k)
          /\ at' \in Moved(at + 1, k, poses')
          /\ dangled' = (dangled \/ (k >= at /\ poses' # <<>>))
    BY <1>11, Shared DEF I!Resets
  <2>4. imus' \in Seq(Stamps) /\ Len(imus') = Len(imus) - i /\ i \in 0..Len(imus)
    BY <2>2, CutsInRange, Drops
  <2>5. poses' \in Seq(Pose) /\ Len(poses') = Len(poses) - k /\ k \in 0..Len(poses)
    BY <2>3, CutsInRange, Drops
  <2>6. at' \in 0..Len(poses') + 1
    BY SMTT(30), <1>8, <2>1, <2>3, <2>5 DEF Moved
  <2>7. fused' \subseteq 1..MaxPoses /\ refused' \subseteq 1..MaxPoses
    BY <1>8, <1>11, <2>1 DEF I!Resets, I!Fuses
  <2>8. jumps' \in 0..MaxJumps - 1 /\ dangled' \in BOOLEAN
    BY <1>11, <2>3, LimitsAssumption DEF I!Resets
  <2>9. Len(imus') <= MaxQueue /\ Len(poses') <= MaxQueue
    BY <2>4, <2>5, BoundsAssumption
  <2>10. now' = now /\ arrived' = arrived /\ asked' = asked
         /\ posterior' \in Stamps /\ prior' \in Stamps
    BY <1>8, <2>1
  <2>11. imus' \in Seq(Stamps) /\ Len(imus') <= MaxQueue
         /\ poses' \in Seq(Pose) /\ Len(poses') <= MaxQueue
    BY <2>4, <2>5, <2>9
  <2>12. posterior' # None /\ posterior' \in Stamps \cup {None}
         /\ prior' \in Stamps \cup {None}
    BY <2>10
  <2>13. TypeOK' /\ posterior' # None
    BY <2>6, <2>7, <2>8, <2>10, <2>11, <2>12
  <2>14. I!ImuTypeOK'
    BY <1>8, <2>1, <2>8
  <2>15. QED
    BY <1>2, <2>13, <2>14
<1>12. CASE I!Finishes
  <2>1. CASE did
    <3>1. PICK i \in ImuCuts(posterior + 1), k \in PoseCuts(posterior + 1) :
            imus' = Drop(imus, i) /\ poses' = Drop(poses, k)
      BY <1>12, <2>1, Shared DEF I!Finishes, I!Erases
    <3>2. imus' \in Seq(Stamps) /\ Len(imus') = Len(imus) - i /\ i \in 0..Len(imus)
      BY <3>1, CutsInRange, Drops
    <3>3. poses' \in Seq(Pose) /\ Len(poses') = Len(poses) - k /\ k \in 0..Len(poses)
      BY <3>1, CutsInRange, Drops
    <3>4. Len(imus') <= MaxQueue /\ Len(poses') <= MaxQueue /\ Len(imus') \in Nat
          /\ Len(poses') \in Nat /\ (poses' # <<>> => poses # <<>>)
      BY <3>2, <3>3, BoundsAssumption
    <3>5. UNCHANGED <<now, arrived, posterior, prior, asked, fused, refused,
                      dangled, did, jumps, ordered, twice, peeked, blind>>
          /\ at' = 0
      BY <1>12 DEF I!Finishes
    <3>6. imus' \in Seq(Stamps) /\ Len(imus') <= MaxQueue
          /\ poses' \in Seq(Pose) /\ Len(poses') <= MaxQueue
          /\ at' \in 0..Len(poses') + 1
      BY <3>2, <3>3, <3>4, <3>5
    <3>7. TypeOK' /\ (posterior' # None \/ poses' = <<>>)
      BY <3>4, <3>5, <3>6
    <3>8. I!ImuTypeOK'
      BY <3>5
    <3>9. QED
      BY <1>2, <3>7, <3>8
  <2>2. CASE ~did
    BY <1>1, <1>12, <2>2 DEF I!Finishes
  <2>3. QED
    BY <2>1, <2>2
<1>13. CASE I!Answers
  <2>1. prior' \in Stamps \cup {None} /\ twice' \in BOOLEAN /\ peeked' \subseteq Stamps
    <3>1. CASE asked <= posterior
      BY <1>13, <3>1 DEF I!Answers
    <3>2. CASE ~(asked <= posterior)
      <4>1. asked \in Stamps
        BY <1>13, <3>2 DEF I!Answers, I!Recent, Recent
      <4>2. prior' = asked /\ twice' \in BOOLEAN
        BY <1>13, <3>2, Predicted DEF I!Answers
      <4>3. I!Start(asked) + 1..asked \subseteq Stamps
        BY <4>1, BoundsAssumption DEF I!Start
      <4>4. QED
        BY <1>13, <3>2, <4>1, <4>2, <4>3 DEF I!Answers
    <3>3. QED
      BY <3>1, <3>2
  <2>2. QED
    BY <1>1, <1>13, <2>1 DEF I!Answers
<1>14. CASE I!OtherJumps
  <2>1. jumps' \in 0..MaxJumps - 1
    BY <1>14, LimitsAssumption DEF I!OtherJumps
  <2>2. QED
    BY <1>1, <1>14, <2>1 DEF I!OtherJumps
<1>15. QED
  BY <1>3, <1>4, <1>5, <1>6, <1>7, <1>9, <1>10, <1>11, <1>12, <1>13, <1>14
     DEF I!Process

\* A step is one of the filter the estimator is, or one of the clock.
LEMMA Steps ==
  ASSUME [Next]_vars
  PROVE  \/ /\ kind = "EKF" /\ UNCHANGED <<config, ofEkfImu>>
            /\ \/ \E t \in Fresh : E!FirstPose(t) \/ E!AddPose(t) \/ E!AddImu(t)
               \/ \E t \in {Recent, now} : E!GetAt(t)
               \/ E!Process \/ E!Answers
         \/ /\ kind = "EKFIMU" /\ UNCHANGED <<config, ofEkf>>
            /\ \/ \E t \in Fresh : I!FirstPose(t) \/ I!AddPose(t) \/ I!AddImu(t)
               \/ \E t \in {Recent, now} : I!GetAt(t)
               \/ I!Process \/ I!Answers \/ I!OtherJumps
         \/ Tick
         \/ UNCHANGED vars
BY DEF Next, PoseArrives, ImuArrives, Asks, Works, OtherJumps, IsEkf, IsEkfImu

\* Both filters keep their types; no queue outgrows its limit, and the iterators
\* of process() stay in the queues whatever a reset erases under them.
THEOREM TypesCorrect == Spec => []TypesOK
<1>1. EstimatorsInit => Sane
  BY EkfInitialised
<1>2. Sane /\ [Next]_vars => Sane'
  <2> SUFFICES ASSUME Sane, [Next]_vars PROVE Sane'
    OBVIOUS
  <2>1. CASE Tick
    BY <2>1, BoundsAssumption DEF Tick, Sane, TypesOK, TypeOK, E!EkfTypeOK,
       I!ImuTypeOK, queues, times, history, config, ofEkf, ofEkfImu, Stamps
  <2>2. CASE UNCHANGED vars
    BY <2>2 DEF vars, Sane, TypesOK, TypeOK, E!EkfTypeOK, I!ImuTypeOK, queues,
       times, history, config, ofEkf, ofEkfImu
  <2>3. QED
    BY <2>1, <2>2, Steps, EkfKeepsTypes, EkfImuKeepsTypes
<1>3. Sane => TypesOK
  BY DEF Sane
<1>4. QED
  BY <1>1, <1>2, <1>3, PTL DEF Spec

-----------------------------------------------------------------------------
(***************************************************************************)
(* Time                                                                    *)
(***************************************************************************)
\* The steps that change times or what the history says of them.
EkfTimeSteps ==
  \/ \E t \in Fresh : E!FirstPose(t)
  \/ E!FusesImu \/ E!FusesPose \/ E!Jumps \/ E!Answers

ImuTimeSteps ==
  \/ \E t \in Fresh : I!FirstPose(t)
  \/ I!Processable /\ I!Propagates
  \/ I!Answers

LEMMA OthersKeepTime ==
  ASSUME [Next]_vars
  PROVE  \/ kind = "EKF" /\ UNCHANGED <<config, ofEkfImu>> /\ EkfTimeSteps
         \/ kind = "EKFIMU" /\ UNCHANGED <<config, ofEkf>> /\ ImuTimeSteps
         \/ UNCHANGED <<kind, posterior, prior, twice, peeked, blind>>
<1>1. CASE Tick \/ UNCHANGED vars
  BY <1>1 DEF Tick, vars, times, config, ofEkfImu
<1>2. ASSUME kind = "EKF", UNCHANGED <<config, ofEkfImu>>,
             \/ \E t \in Fresh : E!FirstPose(t) \/ E!AddPose(t) \/ E!AddImu(t)
             \/ \E t \in {Recent, now} : E!GetAt(t)
             \/ E!Process \/ E!Answers
      PROVE  \/ EkfTimeSteps
             \/ UNCHANGED <<kind, posterior, prior, twice, peeked, blind>>
  <2>1. CASE \E t \in Fresh : E!AddPose(t) \/ E!AddImu(t)
    BY <1>2, <2>1 DEF E!AddPose, E!AddImu, E!times, config, ofEkfImu
  <2>2. CASE (\E t \in {Recent, now} : E!GetAt(t)) \/ E!ForgetsImu \/ E!IsLate
             \/ E!Finishes
    BY <1>2, <2>2 DEF E!GetAt, E!ForgetsImu, E!IsLate, E!Finishes, E!times,
       config, ofEkfImu
  <2>3. QED
    BY <1>2, <2>1, <2>2 DEF EkfTimeSteps, E!Process
<1>3. ASSUME kind = "EKFIMU", UNCHANGED <<config, ofEkf>>,
             \/ \E t \in Fresh : I!FirstPose(t) \/ I!AddPose(t) \/ I!AddImu(t)
             \/ \E t \in {Recent, now} : I!GetAt(t)
             \/ I!Process \/ I!Answers \/ I!OtherJumps
      PROVE  \/ ImuTimeSteps
             \/ UNCHANGED <<kind, posterior, prior, twice, peeked, blind>>
  <2>1. CASE \E t \in Fresh : I!AddPose(t) \/ I!AddImu(t)
    BY <1>3, <2>1 DEF I!AddPose, I!AddImu, I!times, config, I!imuHistory
  <2>2. CASE (\E t \in {Recent, now} : I!GetAt(t)) \/ I!Skips \/ I!Finishes
             \/ I!OtherJumps
    BY <1>3, <2>2 DEF I!GetAt, I!Skips, I!Finishes, I!OtherJumps, I!times,
       config, I!imuVars, I!imuHistory
  <2>3. CASE I!Corrects \/ I!Ignores \/ I!Resets
    BY <2>3 DEF I!Corrects, I!Ignores, I!Resets, ImuTimeSteps
  <2>4. QED
    BY <1>3, <2>1, <2>2, <2>3 DEF ImuTimeSteps, I!Process
<1>4. QED
  BY <1>1, <1>2, <1>3, Steps

\* In whatever order measurements arrive, the posterior of neither filter goes
\* back.
THEOREM NeverBackwards == Spec => ForwardOnly
<1>1. TypesOK /\ [Next]_vars => [posterior # None => posterior' >= posterior]_vars
  <2> SUFFICES ASSUME TypesOK, [Next]_vars, posterior # None
               PROVE  posterior' >= posterior
    BY DEF vars, times
  <2>1. posterior \in Nat
    BY DEF TypesOK, TypeOK, Stamps, None
  <2>2. CASE EkfTimeSteps
    <3>1. CASE \E t \in Fresh : E!FirstPose(t)
      BY <3>1 DEF E!FirstPose, E!None, None
    <3>2. CASE E!FusesImu
      BY <2>1, <3>2 DEF E!FusesImu, E!times
    <3>3. CASE E!FusesPose \/ E!Jumps
      BY <2>1, <3>3 DEF E!FusesPose, E!Jumps
    <3>4. CASE E!Answers
      BY <2>1, <3>4 DEF E!Answers
    <3>5. QED
      BY <2>2, <3>1, <3>2, <3>3, <3>4 DEF EkfTimeSteps
  <2>3. CASE ImuTimeSteps
    BY <2>1, <2>3 DEF ImuTimeSteps, I!FirstPose, I!None, None, I!Processable,
       I!Propagates, I!Answers
  <2>4. QED
    BY <2>1, <2>2, <2>3, OthersKeepTime
<1>2. QED
  BY <1>1, TypesCorrect, PTL DEF Spec, ForwardOnly

\* If the prior of an EkfImu is ahead of the posterior, a getAt() has brought it
\* there.
PeekInv ==
  /\ kind = "EKFIMU" => posterior + 1..prior \subseteq peeked
  /\ blind \subseteq peeked

\* The only time an EkfImu does not propagate its covariance over is time that
\* was asked for before its pose came.
THEOREM BlindOnlyWherePeeked == Spec => []OnlyQueriesHideTime
<1>1. EstimatorsInit => PeekInv
  BY DEF EstimatorsInit, Init, I!ImuInit, PeekInv, None
<1>2. TypesOK /\ PeekInv /\ [Next]_vars => PeekInv'
  <2> SUFFICES ASSUME TypesOK, PeekInv, [Next]_vars PROVE PeekInv'
    OBVIOUS
  <2>1. posterior \in Nat /\ prior \in Nat
    BY DEF TypesOK, TypeOK, Stamps, None
  <2>2. CASE kind = "EKF" /\ UNCHANGED <<config, ofEkfImu>>
    BY <2>2 DEF PeekInv, config, ofEkfImu
  <2>3. CASE kind = "EKFIMU" /\ UNCHANGED <<config, ofEkf>> /\ ImuTimeSteps
    <3>1. kind' = kind
      BY <2>3 DEF config
    <3>2. ASSUME NEW t \in Fresh, I!FirstPose(t) PROVE PeekInv'
      <4>1. posterior' = t /\ prior' = t /\ UNCHANGED <<peeked, blind>> /\ t \in Nat
        BY <3>2 DEF I!FirstPose, I!imuVars, I!imuHistory, Fresh, Stamps
      <4>2. t + 1..t = {}
        BY <4>1
      <4>3. QED
        BY <4>1, <4>2 DEF PeekInv
    <3>3. CASE I!Processable /\ I!Propagates
      <4>1. PICK t : t = poses[at].t
        OBVIOUS
      <4>2. /\ posterior' = t /\ prior' = t /\ peeked' = peeked
            /\ blind' = blind \cup (posterior + 1..I!Start(t))
        BY <3>3, <4>1, Predicted DEF I!Propagates
      <4>3. t \in Nat
        <5>1. at \in 1..Len(poses)
          BY <3>3 DEF I!Processable, I!InLoop, TypesOK, TypeOK
        <5>2. poses[at] \in Pose
          BY <5>1 DEF TypesOK, TypeOK
        <5>3. QED
          BY <4>1, <5>2 DEF Pose, Stamps
      <4>4. t + 1..t = {}
        BY <4>3
      <4>5. posterior + 1..I!Start(t) \subseteq peeked
        BY <2>1, <2>3 DEF I!Start, PeekInv
      <4>6. QED
        BY <4>2, <4>4, <4>5 DEF PeekInv
    <3>4. CASE I!Answers
      <4>1. CASE asked <= posterior
        BY <2>1, <3>1, <3>4, <4>1 DEF I!Answers, PeekInv
      <4>2. CASE ~(asked <= posterior)
        <5>1. /\ prior' = asked /\ UNCHANGED <<posterior, blind>>
              /\ peeked' = peeked \cup (I!Start(asked) + 1..asked)
          BY <3>4, <4>2, Predicted DEF I!Answers
        <5>2. asked \in Int
          BY DEF TypesOK, TypeOK, Stamps, None, Recent
        <5>3. posterior + 1..asked \subseteq (posterior + 1..prior)
                                             \cup (I!Start(asked) + 1..asked)
          BY <2>1, <5>2 DEF I!Start
        <5>4. QED
          BY <2>3, <5>1, <5>3 DEF PeekInv
      <4>3. QED
        BY <4>1, <4>2
    <3>5. QED
      BY <2>3, <3>2, <3>3, <3>4 DEF ImuTimeSteps
  <2>4. CASE UNCHANGED <<kind, posterior, prior, twice, peeked, blind>>
    BY <2>4 DEF PeekInv
  <2>5. QED
    BY <2>2, <2>3, <2>4, OthersKeepTime
<1>3. PeekInv => OnlyQueriesHideTime
  BY DEF PeekInv, OnlyQueriesHideTime
<1>4. QED
  BY <1>1, <1>2, <1>3, TypesCorrect, PTL DEF Spec

-----------------------------------------------------------------------------
(***************************************************************************)
(* The order of samples                                                    *)
(***************************************************************************)
Ascending(q) == \A i, j \in 1..Len(q) : i < j => q[i] <= q[j]

LEMMA DropKeepsAscending ==
  ASSUME NEW q \in Seq(Stamps), Ascending(q), NEW k \in 0..Len(q)
  PROVE  Ascending(Drop(q, k))
<1>1. /\ Len(Drop(q, k)) = Len(q) - k
      /\ \A i \in 1..Len(q) - k : Drop(q, k)[i] = q[i + k] /\ i + k \in 1..Len(q)
  BY Drops
<1>2. ASSUME NEW i \in 1..Len(q) - k, NEW j \in 1..Len(q) - k, i < j
      PROVE  Drop(q, k)[i] <= Drop(q, k)[j]
  <2>1. /\ Drop(q, k)[i] = q[i + k] /\ Drop(q, k)[j] = q[j + k]
        /\ i + k \in 1..Len(q) /\ j + k \in 1..Len(q) /\ i + k < j + k
    BY <1>1, <1>2
  <2>2. QED
    BY <2>1 DEF Ascending
<1>3. QED
  BY <1>1, <1>2 DEF Ascending

LEMMA PushKeepsAscending ==
  ASSUME NEW q \in Seq(Stamps), Len(q) <= MaxQueue, Ascending(q),
         NEW t \in Stamps, q # <<>> => t >= Latest(q)
  PROVE  Ascending(Push(q, t))
<1>1. PICK d \in 0..1 :
        /\ Len(Push(q, t)) = Len(q) + 1 - d
        /\ \A i \in 1..Len(q) + 1 - d :
             /\ i + d \in 1..Len(q) => Push(q, t)[i] = q[i + d]
             /\ i + d = Len(q) + 1 => Push(q, t)[i] = t
  BY ZenonT(60), Pushes
<1>2. ASSUME NEW i \in 1..Len(q) + 1 - d, NEW j \in 1..Len(q) + 1 - d, i < j
      PROVE  Push(q, t)[i] <= Push(q, t)[j]
  <2>1. i + d \in 1..Len(q) /\ Push(q, t)[i] = q[i + d] /\ i + d < j + d
    BY <1>1, <1>2
  <2>2. CASE j + d \in 1..Len(q)
    BY <1>1, <2>1, <2>2 DEF Ascending
  <2>3. CASE j + d = Len(q) + 1
    <3>1. Push(q, t)[j] = t
      BY <1>1, <2>3
    <3>2. q # <<>> /\ Len(q) \in 1..Len(q)
      BY <2>1
    <3>3. t >= q[Len(q)]
      BY <3>2 DEF Latest
    <3>4. q[i + d] <= q[Len(q)]
      <4>1. i + d < Len(q) \/ i + d = Len(q)
        BY <2>1
      <4>2. q[Len(q)] \in Stamps
        BY <3>2
      <4>3. QED
        BY <2>1, <3>2, <4>1, <4>2 DEF Ascending, Stamps
    <3>5. q[i + d] \in Stamps /\ q[Len(q)] \in Stamps
      BY <2>1, <3>2
    <3>6. QED
      BY <2>1, <3>1, <3>3, <3>4, <3>5 DEF Stamps
  <2>4. QED
    BY <1>1, <2>2, <2>3
<1>3. QED
  BY <1>1, <1>2 DEF Ascending

\* What a step of an EkfImu does to the samples.
LEMMA SampleSteps ==
  ASSUME TypesOK,
         \/ \E t \in Fresh : I!FirstPose(t) \/ I!AddPose(t)
         \/ \E t \in {Recent, now} : I!GetAt(t)
         \/ I!Process \/ I!Answers \/ I!OtherJumps
  PROVE  /\ ordered' = ordered
         /\ imus' = imus \/ \E k \in 0..Len(imus) : imus' = Drop(imus, k)
         /\ twice' = twice \/ \E t : I!Predicts(t)
<1> USE DEF I!queues, I!imuVars, I!imuHistory
<1>1. CASE \E t \in Fresh : I!FirstPose(t)
  BY <1>1, Shared, CutsInRange DEF I!FirstPose
<1>2. CASE \E t \in Fresh : I!AddPose(t)
  BY <1>2 DEF I!AddPose
<1>3. CASE (\E t \in {Recent, now} : I!GetAt(t)) \/ I!Skips \/ I!OtherJumps
  BY <1>3 DEF I!GetAt, I!Skips, I!OtherJumps
<1>4. CASE I!Corrects \/ I!Ignores
  BY <1>4 DEF I!Corrects, I!Ignores, I!Propagates
<1>5. CASE I!Resets
  <2>1. ordered' = ordered /\ I!Predicts(poses[at].t)
    BY <1>5 DEF I!Resets, I!Propagates
  <2>2. \E k \in 0..Len(imus) : imus' = Drop(imus, k)
    BY <1>5, Shared, CutsInRange DEF I!Resets
  <2>3. QED
    BY <2>1, <2>2
<1>6. CASE I!Finishes
  BY <1>6, Shared, CutsInRange DEF I!Finishes, I!Erases
<1>7. CASE I!Answers
  BY <1>7 DEF I!Answers
<1>8. QED
  BY <1>1, <1>2, <1>3, <1>4, <1>5, <1>6, <1>7 DEF I!Process

\* The queue of an EkfImu is in order if its samples came in order.
OrderInv ==
  /\ ordered => ~twice
  /\ kind = "EKFIMU" /\ ordered => Ascending(imus)

\* An EkfImu whose samples arrive in order integrates every moment once, however
\* many samples are dropped, poses are late and filters are reset.
THEOREM OrderedMeansOnce == Spec => []InOrderOnce
<1>1. EstimatorsInit => OrderInv
  <2>1. 1..0 = {} /\ Len(<<>>) = 0
    OBVIOUS
  <2>2. QED
    BY <2>1 DEF EstimatorsInit, Init, I!ImuInit, OrderInv, Ascending
<1>2. TypesOK /\ OrderInv /\ [Next]_vars => OrderInv'
  <2> SUFFICES ASSUME TypesOK, OrderInv, [Next]_vars PROVE OrderInv'
    OBVIOUS
  <2>1. CASE kind = "EKF" /\ UNCHANGED <<config, ofEkfImu>>
    BY <2>1 DEF OrderInv, config, ofEkfImu
  <2>2. CASE Tick \/ UNCHANGED vars
    BY <2>2 DEF Tick, vars, queues, config, ofEkfImu, OrderInv, Ascending
  <2>3. ASSUME kind = "EKFIMU", UNCHANGED <<config, ofEkf>>,
               NEW t \in Fresh, I!AddImu(t)
        PROVE  OrderInv'
    <3>1. /\ imus' = Push(imus, t) /\ t \in Stamps /\ twice' = twice
          /\ ordered' = (ordered /\ (imus # <<>> => t >= Latest(imus)))
      BY <2>3, Shared DEF I!AddImu, Fresh
    <3>2. ordered' => ordered /\ Ascending(Push(imus, t))
      BY <2>3, <3>1, PushKeepsAscending DEF OrderInv, TypesOK, TypeOK
    <3>3. QED
      BY <3>1, <3>2 DEF OrderInv, Ascending
  <2>4. ASSUME kind = "EKFIMU", UNCHANGED <<config, ofEkf>>, ordered' = ordered,
               imus' = imus \/ \E k \in 0..Len(imus) : imus' = Drop(imus, k),
               twice' = twice \/ \E t : I!Predicts(t)
        PROVE  OrderInv'
    <3>1. ASSUME ordered PROVE Ascending(imus')
      <4>1. imus \in Seq(Stamps) /\ Ascending(imus)
        BY <2>4, <3>1 DEF OrderInv, TypesOK, TypeOK
      <4>2. QED
        BY <2>4, <4>1, DropKeepsAscending
    <3>2. ASSUME ordered PROVE ~twice'
      <4>1. Ascending(imus) /\ ~twice /\ imus \in Seq(Stamps)
        BY <2>4, <3>2 DEF OrderInv, TypesOK, TypeOK
      <4>2. ASSUME NEW t, NEW k \in 0..Len(imus) PROVE ~I!Repeats(k, t)
        <5>1. I!Samples(k, t) \subseteq 1..Len(imus)
          BY <4>1, <4>2 DEF I!Samples
        <5>2. ASSUME NEW i \in I!Samples(k, t), NEW j \in I!Samples(k, t), i < j
              PROVE  ~(imus[j] < imus[i])
          <6>1. imus[i] <= imus[j] /\ imus[i] \in Stamps /\ imus[j] \in Stamps
            BY <4>1, <5>1, <5>2 DEF Ascending
          <6>2. QED
            BY <6>1 DEF Stamps
        <5>3. QED
          BY <5>2 DEF I!Repeats
      <4>3. QED
        BY <2>4, <4>1, <4>2, Predicted, CutsInRange
    <3>3. QED
      BY <2>4, <3>1, <3>2 DEF OrderInv, Ascending
  <2>5. QED
    BY <2>1, <2>2, <2>3, <2>4, Steps, SampleSteps
<1>3. OrderInv => InOrderOnce
  BY DEF OrderInv, InOrderOnce
<1>4. QED
  BY <1>1, <1>2, <1>3, TypesCorrect, PTL DEF Spec

-----------------------------------------------------------------------------
(***************************************************************************)
(* Poses                                                                   *)
(***************************************************************************)
\* Poses queue up in the order of their numbers, and only one that came can have
\* been fused.
NumberInv ==
  /\ \A i, j \in 1..Len(poses) : i < j => poses[i].n < poses[j].n
  /\ \A i \in 1..Len(poses) : poses[i].n <= arrived
  /\ fused \subseteq 1..arrived

\* A pose joins the queue, ...
Joins ==
  \E t \in Fresh :
    /\ poses' = Push(poses, [n |-> arrived + 1, t |-> t])
    /\ arrived < MaxPoses /\ arrived' = arrived + 1
    /\ UNCHANGED <<fused, posterior>>

\* ... or some leave it and one may be fused.
Leave ==
  /\ arrived' = arrived
  /\ poses' = poses \/ \E k \in 0..Len(poses) : poses' = Drop(poses, k)
  /\ fused' = fused \/ \E i \in 1..Len(poses) : fused' = fused \cup {poses[i].n}

LEMMA EkfQueueSteps ==
  ASSUME TypesOK,
         \/ \E t \in Fresh : E!FirstPose(t) \/ E!AddPose(t) \/ E!AddImu(t)
         \/ \E t \in {Recent, now} : E!GetAt(t)
         \/ E!Process \/ E!Answers
  PROVE  Joins \/ Leave
<1> USE DEF E!queues, E!times, E!history, E!input, Leave
<1>1. CASE \E t \in Fresh : E!FirstPose(t) \/ E!AddImu(t)
  BY <1>1 DEF E!FirstPose, E!AddImu
<1>2. CASE \E t \in Fresh : E!AddPose(t)
  <2>1. PICK t \in Fresh : E!AddPose(t)
    BY <1>2
  <2>2. /\ arrived < MaxPoses /\ arrived' = arrived + 1 /\ posterior' = posterior
        /\ poses' = Push(poses, [n |-> arrived + 1, t |-> t]) /\ fused' = fused
    BY <2>1, Shared DEF E!AddPose
  <2>3. QED
    BY <2>2 DEF Joins
<1>3. CASE (\E t \in {Recent, now} : E!GetAt(t)) \/ E!FusesImu \/ E!ForgetsImu
           \/ E!IsLate \/ E!Answers
  BY <1>3 DEF E!GetAt, E!FusesImu, E!ForgetsImu, E!IsLate, E!Answers
<1>4. ASSUME E!PoseIsNext PROVE at \in 1..Len(poses)
  BY <1>4 DEF E!PoseIsNext, E!InLoop, TypesOK, TypeOK
<1>5. CASE E!FusesPose
  BY <1>4, <1>5 DEF E!FusesPose, E!Fuses
<1>6. CASE E!Jumps
  <2>1. arrived' = arrived /\ fused' = fused \cup {poses[at].n} /\ at \in 1..Len(poses)
    BY <1>4, <1>6 DEF E!Jumps, E!Fuses
  <2>2. \E k \in 0..Len(poses) : poses' = Drop(poses, k)
    BY <1>6, Shared, CutsInRange DEF E!Jumps
  <2>3. QED
    BY <2>1, <2>2
<1>7. CASE E!Finishes
  <2>1. at - 1 \in 0..Len(poses)
    BY <1>7 DEF E!Finishes, TypesOK, TypeOK
  <2>2. QED
    BY <1>7, <2>1, Shared DEF E!Finishes
<1>8. QED
  BY <1>1, <1>2, <1>3, <1>5, <1>6, <1>7 DEF E!Process

LEMMA ImuQueueSteps ==
  ASSUME TypesOK,
         \/ \E t \in Fresh : I!FirstPose(t) \/ I!AddPose(t) \/ I!AddImu(t)
         \/ \E t \in {Recent, now} : I!GetAt(t)
         \/ I!Process \/ I!Answers \/ I!OtherJumps
  PROVE  Joins \/ Leave
<1> USE DEF I!queues, I!times, I!history, I!input, Leave
<1>1. CASE \E t \in Fresh : I!FirstPose(t) \/ I!AddImu(t)
  BY <1>1 DEF I!FirstPose, I!AddImu
<1>2. CASE \E t \in Fresh : I!AddPose(t)
  <2>1. PICK t \in Fresh : I!AddPose(t)
    BY <1>2
  <2>2. /\ arrived < MaxPoses /\ arrived' = arrived + 1 /\ posterior' = posterior
        /\ poses' = Push(poses, [n |-> arrived + 1, t |-> t]) /\ fused' = fused
    BY <2>1, Shared DEF I!AddPose
  <2>3. QED
    BY <2>2 DEF Joins
<1>3. CASE (\E t \in {Recent, now} : I!GetAt(t)) \/ I!Skips \/ I!Answers \/ I!OtherJumps
  BY <1>3 DEF I!GetAt, I!Skips, I!Answers, I!OtherJumps
<1>4. ASSUME I!Processable PROVE at \in 1..Len(poses)
  BY <1>4 DEF I!Processable, I!InLoop, TypesOK, TypeOK
<1>5. CASE I!Corrects
  BY <1>4, <1>5 DEF I!Corrects, I!Fuses, I!Propagates
<1>6. CASE I!Ignores
  BY <1>6 DEF I!Ignores, I!Propagates
<1>7. CASE I!Resets
  <2>1. arrived' = arrived /\ fused' = fused \cup {poses[at].n} /\ at \in 1..Len(poses)
    BY <1>4, <1>7 DEF I!Resets, I!Propagates, I!Fuses
  <2>2. \E k \in 0..Len(poses) : poses' = Drop(poses, k)
    BY <1>7, Shared, CutsInRange DEF I!Resets
  <2>3. QED
    BY <2>1, <2>2
<1>8. CASE I!Finishes
  BY <1>8, Shared, CutsInRange DEF I!Finishes, I!Erases
<1>9. QED
  BY <1>1, <1>2, <1>3, <1>5, <1>6, <1>7, <1>8 DEF I!Process

\* What a pose that joins does to the elements of the queue.
LEMMA Joined ==
  ASSUME TypesOK, Joins
  PROVE  \E d \in 0..1 :
           /\ Len(poses') = Len(poses) + 1 - d
           /\ \A i \in 1..Len(poses') :
                \/ i + d \in 1..Len(poses) /\ poses'[i] = poses[i + d]
                \/ i + d = Len(poses) + 1 /\ poses'[i].n = arrived'
<1>1. PICK t \in Fresh : /\ poses' = Push(poses, [n |-> arrived + 1, t |-> t])
                         /\ arrived < MaxPoses /\ arrived' = arrived + 1
  BY DEF Joins
<1>2. [n |-> arrived + 1, t |-> t] \in Pose
  BY <1>1, BoundsAssumption DEF Fresh, Pose, TypesOK, TypeOK
<1>3. poses \in Seq(Pose) /\ Len(poses) <= MaxQueue /\ Len(poses) \in Nat
  BY DEF TypesOK, TypeOK
<1>4. PICK d \in 0..1 :
        /\ Len(poses') = Len(poses) + 1 - d
        /\ \A i \in 1..Len(poses) + 1 - d :
             /\ i + d \in 1..Len(poses) => poses'[i] = poses[i + d]
             /\ i + d = Len(poses) + 1 => poses'[i] = [n |-> arrived + 1, t |-> t]
  <2>1. PICK x \in Pose : x = [n |-> arrived + 1, t |-> t]
    BY <1>2
  <2>2. \E d \in 0..1 :
          /\ Len(Push(poses, x)) = Len(poses) + 1 - d
          /\ \A i \in 1..Len(poses) + 1 - d :
               /\ i + d \in 1..Len(poses) => Push(poses, x)[i] = poses[i + d]
               /\ i + d = Len(poses) + 1 => Push(poses, x)[i] = x
    BY ZenonT(60), <1>3, Pushes
  <2>3. poses' = Push(poses, x)
    BY <1>1, <2>1
  <2>4. QED
    BY <2>1, <2>2, <2>3
<1>5. ASSUME NEW i \in 1..Len(poses')
      PROVE  \/ i + d \in 1..Len(poses) /\ poses'[i] = poses[i + d]
             \/ i + d = Len(poses) + 1 /\ poses'[i].n = arrived'
  <2>1. i + d \in 1..Len(poses) \/ i + d = Len(poses) + 1
    BY <1>3, <1>4
  <2>2. QED
    BY SMTT(30), <1>1, <1>3, <1>4, <2>1
<1>6. QED
  BY <1>4, <1>5

LEMMA Numbered == Spec => []NumberInv
<1>1. EstimatorsInit => NumberInv
  <2>1. 1..0 = {} /\ Len(<<>>) = 0
    OBVIOUS
  <2>2. QED
    BY <2>1 DEF EstimatorsInit, Init, NumberInv
<1>2. TypesOK /\ NumberInv /\ [Next]_vars => NumberInv'
  <2> SUFFICES ASSUME TypesOK, NumberInv, [Next]_vars PROVE NumberInv'
    OBVIOUS
  <2>1. CASE Tick \/ UNCHANGED vars
    BY <2>1 DEF Tick, vars, queues, input, history, NumberInv
  <2>2. arrived \in Nat /\ \A i \in 1..Len(poses) : poses[i].n \in Nat \ {0}
    <3>1. \A i \in 1..Len(poses) : poses[i] \in Pose
      BY DEF TypesOK, TypeOK
    <3>2. QED
      BY <3>1, BoundsAssumption DEF TypesOK, TypeOK, Pose
  <2>3. CASE Joins
    <3>1. PICK d \in 0..1 :
            /\ Len(poses') = Len(poses) + 1 - d
            /\ \A i \in 1..Len(poses') :
                 \/ i + d \in 1..Len(poses) /\ poses'[i] = poses[i + d]
                 \/ i + d = Len(poses) + 1 /\ poses'[i].n = arrived'
      BY <2>3, Joined
    <3>2. arrived' = arrived + 1 /\ fused' = fused
      BY <2>3 DEF Joins
    <3>3. ASSUME NEW i \in 1..Len(poses'), NEW j \in 1..Len(poses'), i < j
          PROVE  poses'[i].n < poses'[j].n
      <4>1. i + d \in 1..Len(poses) /\ poses'[i] = poses[i + d] /\ i + d < j + d
        BY <3>1, <3>3 DEF TypesOK, TypeOK
      <4>2. CASE j + d \in 1..Len(poses) /\ poses'[j] = poses[j + d]
        BY <4>1, <4>2 DEF NumberInv
      <4>3. CASE poses'[j].n = arrived'
        BY SMTT(30), <2>2, <3>2, <4>1, <4>3 DEF NumberInv
      <4>4. QED
        BY <3>1, <4>2, <4>3
    <3>4. \A i \in 1..Len(poses') : poses'[i].n <= arrived'
      BY SMTT(30), <2>2, <3>1, <3>2 DEF NumberInv
    <3>5. fused' \subseteq 1..arrived'
      BY <2>2, <3>2 DEF NumberInv
    <3>6. QED
      BY <3>3, <3>4, <3>5 DEF NumberInv
  <2>4. CASE Leave
    <3>1. PICK k \in 0..Len(poses) :
            /\ Len(poses') = Len(poses) - k
            /\ \A i \in 1..Len(poses') : poses'[i] = poses[i + k] /\ i + k \in 1..Len(poses)
      <4>1. CASE poses' = poses
        <5>1. 0 \in 0..Len(poses) /\ Len(poses') = Len(poses) - 0
              /\ \A i \in 1..Len(poses') : poses'[i] = poses[i + 0] /\ i + 0 \in 1..Len(poses)
          BY <4>1 DEF TypesOK, TypeOK
        <5>2. QED
          BY <5>1
      <4>2. ASSUME NEW k \in 0..Len(poses), poses' = Drop(poses, k)
            PROVE  /\ Len(poses') = Len(poses) - k
                   /\ \A i \in 1..Len(poses') : poses'[i] = poses[i + k] /\ i + k \in 1..Len(poses)
        BY <4>2, Drops DEF TypesOK, TypeOK
      <4>3. QED
        BY <2>4, <4>1, <4>2 DEF Leave
    <3>2. arrived' = arrived /\ fused' \subseteq 1..arrived
      BY <2>2, <2>4 DEF Leave, NumberInv
    <3>3. ASSUME NEW i \in 1..Len(poses'), NEW j \in 1..Len(poses'), i < j
          PROVE  poses'[i].n < poses'[j].n
      <4>1. /\ poses'[i] = poses[i + k] /\ i + k \in 1..Len(poses)
            /\ poses'[j] = poses[j + k] /\ j + k \in 1..Len(poses) /\ i + k < j + k
        BY <3>1, <3>3
      <4>2. QED
        BY <4>1 DEF NumberInv
    <3>4. \A i \in 1..Len(poses') : poses'[i].n <= arrived'
      BY <3>1, <3>2 DEF NumberInv
    <3>5. QED
      BY <3>2, <3>3, <3>4 DEF NumberInv
  <2>5. QED
    BY <2>1, <2>3, <2>4, Steps, EkfQueueSteps, ImuQueueSteps
<1>3. QED
  BY <1>1, <1>2, TypesCorrect, PTL DEF Spec

-----------------------------------------------------------------------------
(***************************************************************************)
(* Fusing once                                                             *)
(***************************************************************************)
IsFused(i) == poses[i].n \in fused

\* A fused pose that an Ekf still has is behind the iterator, too old to be taken
\* again, or was there when process() left early for want of samples.
EkfOnceInv ==
  kind = "EKF" =>
    /\ \A i \in 1..Len(poses) :
         IsFused(i) => \/ useImu /\ poses[i].n \in starved
                       \/ poses[i].t < posterior
                       \/ i < at
    /\ refused # {} => useImu /\ refused \subseteq starved

\* In an EkfImu it is behind the iterator in this process(), or too old; and what
\* is behind the iterator is not newer than the posterior.
ImuOnceInv ==
  kind = "EKFIMU" /\ ~dangled =>
    /\ \A i \in 1..Len(poses) :
         IsFused(i) => poses[i].t < posterior \/ (did /\ i < at)
    /\ \A i \in 1..Len(poses) : i < at => poses[i].t <= posterior
    /\ refused = {}

\* The numbers and stamps of what is in the queue.
LEMMA Elements ==
  ASSUME TypesOK
  PROVE  /\ Len(poses) \in Nat /\ posterior \in Nat /\ at \in Nat
         /\ \A i \in 1..Len(poses) : poses[i].n \in Nat /\ poses[i].t \in Nat \ {0}
<1>1. \A i \in 1..Len(poses) : poses[i] \in Pose
  BY DEF TypesOK, TypeOK
<1>2. QED
  BY SMTT(30), <1>1 DEF TypesOK, TypeOK, Pose, Stamps, None

\* Different places hold different poses.
LEMMA Distinct ==
  ASSUME TypesOK, NumberInv, NEW i \in 1..Len(poses), NEW j \in 1..Len(poses),
         poses[i].n = poses[j].n
  PROVE  i = j
<1>1. i < j \/ j < i \/ i = j
  OBVIOUS
<1>2. QED
  BY <1>1, Elements DEF NumberInv

\* A new pose is not a fused one.
LEMMA JoinedIsNew ==
  ASSUME TypesOK, NumberInv, Joins, NEW i \in 1..Len(poses'), IsFused(i)'
  PROVE  \E j \in 1..Len(poses) : poses'[i] = poses[j] /\ IsFused(j)
<1>1. arrived' = arrived + 1 /\ fused' = fused /\ arrived \in Nat
  BY DEF Joins, TypesOK, TypeOK
<1>2. arrived' \notin fused'
  BY <1>1 DEF NumberInv
<1>3. PICK d \in 0..1 :
        \/ i + d \in 1..Len(poses) /\ poses'[i] = poses[i + d]
        \/ i + d = Len(poses) + 1 /\ poses'[i].n = arrived'
  BY Joined
<1>4. QED
  BY <1>1, <1>2, <1>3 DEF IsFused

LEMMA EkfFusesOnce ==
  ASSUME TypesOK, NumberInv, EkfOnceInv, kind = "EKF", UNCHANGED <<config, ofEkfImu>>,
         \/ \E t \in Fresh : E!FirstPose(t) \/ E!AddPose(t) \/ E!AddImu(t)
         \/ \E t \in {Recent, now} : E!GetAt(t)
         \/ E!Process \/ E!Answers
  PROVE  EkfOnceInv'
<1> USE DEF EkfOnceInv, IsFused, E!queues, E!times, E!history, E!input, E!ekfVars
<1>1. CASE \E t \in Fresh : E!FirstPose(t)
  <2>1. /\ posterior = 0 /\ at' = at /\ at = 0
        /\ UNCHANGED <<poses, fused, refused, useImu, starved>>
    BY <1>1 DEF E!FirstPose, E!Free, E!None
  <2>2. QED
    BY <2>1, Elements
<1>2. CASE \E t \in Fresh : E!AddPose(t)
  <2>1. /\ at = 0 /\ at' = 1
        /\ UNCHANGED <<fused, refused, useImu, starved, posterior>>
    BY <1>2 DEF E!AddPose, E!Free, E!Begins
  <2>2. Joins
    <3>1. PICK t \in Fresh : E!AddPose(t)
      BY <1>2
    <3>2. /\ arrived < MaxPoses /\ arrived' = arrived + 1
          /\ poses' = Push(poses, [n |-> arrived + 1, t |-> t])
      BY <3>1, Shared DEF E!AddPose
    <3>3. QED
      BY <2>1, <3>2 DEF Joins
  <2>3. ASSUME NEW i \in 1..Len(poses'), IsFused(i)'
        PROVE  (useImu' /\ poses'[i].n \in starved') \/ poses'[i].t < posterior'
    <3>1. PICK j \in 1..Len(poses) : poses'[i] = poses[j] /\ IsFused(j)
      BY <2>2, <2>3, JoinedIsNew
    <3>2. QED
      BY <2>1, <3>1, Elements
  <2>4. QED
    BY <2>1, <2>3
<1>3. CASE (\E t \in Fresh : E!AddImu(t)) \/ (\E t \in {Recent, now} : E!GetAt(t))
  <2>1. /\ at = 0 /\ at' = 1
        /\ UNCHANGED <<poses, fused, refused, useImu, starved, posterior>>
    BY <1>3 DEF E!AddImu, E!GetAt, E!Free, E!Begins
  <2>2. QED
    BY <2>1, Elements
<1>4. CASE E!FusesImu
  <2>1. UNCHANGED <<poses, at, fused, refused, useImu, starved>>
    BY <1>4 DEF E!FusesImu
  <2>2. posterior' = posterior \/ (posterior' >= posterior /\ posterior' \in Nat)
    <3>1. imuAt \in 1..Len(imus)
      BY <1>4 DEF E!FusesImu, E!ImuIsNext, TypesOK, E!EkfTypeOK
    <3>2. imus[imuAt] \in Stamps
      BY <3>1 DEF TypesOK, TypeOK
    <3>3. QED
      BY <1>4, <3>2, Elements DEF E!FusesImu, Stamps
  <2>3. QED
    BY <2>1, <2>2, Elements
<1>5. CASE E!ForgetsImu \/ E!Answers
  BY <1>5 DEF E!ForgetsImu, E!Answers
<1>6. ASSUME E!PoseIsNext
      PROVE  at \in 1..Len(poses) /\ at \in 1..at
  BY <1>6 DEF E!PoseIsNext, E!InLoop, TypesOK, TypeOK
<1>7. ASSUME E!PoseIsNext, NEW next, E!Advances(next), poses' # <<>>
      PROVE  \/ /\ useImu /\ starved' = starved \cup {poses[i].n : i \in 1..at}
                /\ at' = 0
             \/ at' \in next /\ starved' = starved
  BY <1>7 DEF E!Advances
<1>8. CASE E!IsLate
  <2>1. /\ UNCHANGED <<poses, fused, refused, useImu, posterior>>
        /\ poses[at].t < posterior /\ at \in 1..Len(poses) /\ poses # <<>>
    BY <1>6, <1>8 DEF E!IsLate
  <2>2. \/ /\ useImu /\ starved' = starved \cup {poses[i].n : i \in 1..at}
           /\ at' = 0
        \/ at' = at + 1 /\ starved' = starved
    BY <1>7, <1>8, <2>1 DEF E!IsLate
  <2>3. ASSUME NEW i \in 1..Len(poses), IsFused(i)
        PROVE  (useImu /\ poses[i].n \in starved') \/ poses[i].t < posterior \/ i < at'
    <3>1. i \in 1..at \/ i > at
      BY <2>1
    <3>2. QED
      BY <2>1, <2>2, <2>3, <3>1
  <2>4. QED
    BY <2>1, <2>2, <2>3
<1>9. CASE E!FusesPose
  <2>1. /\ UNCHANGED <<poses, useImu>> /\ poses # <<>>
        /\ poses[at].t >= posterior /\ at \in 1..Len(poses)
        /\ posterior' \in {posterior, poses[at].t}
    BY <1>6, <1>9 DEF E!FusesPose
  <2>2. \/ /\ useImu /\ starved' = starved \cup {poses[i].n : i \in 1..at}
           /\ at' = 0
        \/ at' = at + 1 /\ starved' = starved
    BY <1>7, <1>9, <2>1 DEF E!FusesPose
  <2>3. \/ fused' = fused /\ refused' = refused
        \/ E!Fuses(poses[at])
    BY <1>9 DEF E!FusesPose
  <2>4. ASSUME NEW i \in 1..Len(poses), IsFused(i)'
        PROVE  (useImu /\ poses[i].n \in starved') \/ poses[i].t < posterior' \/ i < at'
    <3>1. IsFused(i) \/ i = at
      BY <2>1, <2>3, <2>4, Distinct DEF E!Fuses
    <3>2. posterior' >= posterior /\ posterior' \in Nat
      BY <2>1, Elements
    <3>3. i \in 1..at \/ i > at
      BY <2>1
    <3>4. QED
      BY <2>1, <2>2, <3>1, <3>2, <3>3, Elements
  <2>5. refused' # {} => useImu /\ refused' \subseteq starved'
    <3>1. IsFused(at) => useImu /\ poses[at].n \in starved
      BY <2>1, Elements
    <3>2. QED
      BY <2>2, <2>3, <3>1 DEF E!Fuses
  <2>6. QED
    BY <2>1, <2>4, <2>5
<1>10. CASE E!Jumps
  <2>1. PICK k \in PoseCuts(poses[at].t) :
          poses' = Drop(poses, k) /\ E!Advances(Moved(at + 1, k, poses'))
    BY <1>10, Shared DEF E!Jumps
  <2>2. /\ useImu' = useImu /\ posterior' = poses[at].t /\ E!Fuses(poses[at])
        /\ poses[at].t >= posterior /\ at \in 1..Len(poses) /\ E!PoseIsNext
    BY <1>6, <1>10 DEF E!Jumps
  <2>3. /\ k \in 0..Len(poses) /\ Len(poses') = Len(poses) - k
        /\ \A i \in 1..Len(poses') : poses'[i] = poses[i + k] /\ i + k \in 1..Len(poses)
    <3>1. k \in 0..Len(poses) /\ poses \in Seq(Pose)
      BY CutsInRange DEF TypesOK, TypeOK
    <3>2. QED
      BY <2>1, <3>1, Drops
  <2>4. ASSUME NEW i \in 1..Len(poses'), IsFused(i)'
        PROVE  \/ useImu /\ poses'[i].n \in starved'
               \/ poses'[i].t < posterior'
               \/ i < at'
    <3>1. poses'[i] = poses[i + k] /\ i + k \in 1..Len(poses) /\ poses' # <<>>
      BY <2>3, <2>4
    <3>2. IsFused(i + k) \/ i + k = at
      BY <2>2, <2>4, <3>1, Distinct DEF E!Fuses
    <3>3. \/ /\ useImu /\ starved' = starved \cup {poses[j].n : j \in 1..at}
             /\ at' = 0
          \/ at' \in Moved(at + 1, k, poses') /\ starved' = starved
      BY <1>7, <2>1, <2>2, <3>1
    <3>4. CASE i + k <= at
      <4>1. i + k \in 1..at /\ k < at + 1 /\ i < at + 1 - k
        BY SMTT(30), <2>2, <2>3, <3>1, <3>4
      <4>2. Moved(at + 1, k, poses') = {at + 1 - k}
        BY <2>2, <2>3, <4>1 DEF Moved
      <4>3. QED
        BY <3>1, <3>3, <4>1, <4>2
    <3>5. CASE ~(i + k <= at)
      <4>1. (useImu /\ poses[i + k].n \in starved) \/ poses[i + k].t < posterior
        BY SMTT(30), <2>2, <3>1, <3>2, <3>5, Elements
      <4>2. poses[i + k].t < posterior => poses[i + k].t < poses[at].t
        BY SMTT(30), <2>2, <3>1, Elements
      <4>3. QED
        BY <2>2, <3>1, <3>3, <4>1, <4>2
    <3>6. QED
      BY <3>4, <3>5
  <2>5. refused' # {} => useImu /\ refused' \subseteq starved'
    <3>1. IsFused(at) => useImu /\ poses[at].n \in starved
      BY <2>2, Elements
    <3>2. starved \subseteq starved'
      BY <2>1 DEF E!Advances
    <3>3. QED
      BY <2>2, <3>1, <3>2 DEF E!Fuses
  <2>6. QED
    BY <2>2, <2>4, <2>5
<1>11. CASE E!Finishes
  <2>1. /\ UNCHANGED <<fused, refused, useImu, starved, posterior>>
        /\ poses' = Drop(poses, at - 1) /\ at - 1 \in 0..Len(poses)
    BY <1>11, Shared DEF E!Finishes, TypesOK, TypeOK
  <2>2. \A i \in 1..Len(poses') :
          poses'[i] = poses[i + (at - 1)] /\ i + (at - 1) \in 1..Len(poses)
    <3>1. poses \in Seq(Pose)
      BY DEF TypesOK, TypeOK
    <3>2. QED
      BY ZenonT(60), <2>1, <3>1, Drops
  <2>3. ASSUME NEW i \in 1..Len(poses'), IsFused(i)'
        PROVE  (useImu /\ poses'[i].n \in starved) \/ poses'[i].t < posterior
    <3>1. /\ poses'[i] = poses[i + (at - 1)] /\ i + (at - 1) \in 1..Len(poses)
          /\ ~(i + (at - 1) < at)
      BY <2>2, Elements
    <3>2. IsFused(i + (at - 1))
      BY <2>1, <2>3, <3>1
    <3>3. QED
      BY <3>1, <3>2
  <2>4. QED
    BY <2>1, <2>3
<1>12. QED
  BY <1>1, <1>2, <1>3, <1>4, <1>5, <1>8, <1>9, <1>10, <1>11 DEF E!Process

LEMMA ImuFusesOnce ==
  ASSUME TypesOK, NumberInv, ImuOnceInv, kind = "EKFIMU", UNCHANGED <<config, ofEkf>>,
         \/ \E t \in Fresh : I!FirstPose(t) \/ I!AddPose(t) \/ I!AddImu(t)
         \/ \E t \in {Recent, now} : I!GetAt(t)
         \/ I!Process \/ I!Answers \/ I!OtherJumps
  PROVE  ImuOnceInv'
<1> SUFFICES ASSUME ~dangled'
             PROVE  /\ \A i \in 1..Len(poses') :
                         IsFused(i)' => poses'[i].t < posterior' \/ (did' /\ i < at')
                    /\ \A i \in 1..Len(poses') : i < at' => poses'[i].t <= posterior'
                    /\ refused' = {}
  BY DEF ImuOnceInv
<1> USE DEF IsFused, I!queues, I!times, I!history, I!input, I!imuVars, I!imuHistory
<1>1. CASE \E t \in Fresh : I!FirstPose(t)
  <2>1. /\ posterior = 0 /\ at' = at /\ at = 0 /\ did' = did
        /\ UNCHANGED <<poses, fused, refused, dangled>>
    BY <1>1 DEF I!FirstPose, I!Free, I!None
  <2>2. QED
    BY <2>1, Elements DEF ImuOnceInv
<1>2. CASE \E t \in Fresh : I!AddPose(t)
  <2>1. /\ at = 0 /\ at' \in {0, 1}
        /\ UNCHANGED <<fused, refused, dangled, posterior>>
    BY <1>2 DEF I!AddPose, I!Free, I!Begins
  <2>2. Joins
    <3>1. PICK t \in Fresh : I!AddPose(t)
      BY <1>2
    <3>2. /\ arrived < MaxPoses /\ arrived' = arrived + 1
          /\ poses' = Push(poses, [n |-> arrived + 1, t |-> t])
      BY <3>1, Shared DEF I!AddPose
    <3>3. QED
      BY <2>1, <3>2 DEF Joins
  <2>3. ASSUME NEW i \in 1..Len(poses'), IsFused(i)'
        PROVE  poses'[i].t < posterior'
    <3>1. PICK j \in 1..Len(poses) : poses'[i] = poses[j] /\ IsFused(j)
      BY <2>2, <2>3, JoinedIsNew
    <3>2. QED
      BY <2>1, <3>1, Elements DEF ImuOnceInv
  <2>4. QED
    BY <2>1, <2>3 DEF ImuOnceInv
<1>3. CASE (\E t \in Fresh : I!AddImu(t)) \/ (\E t \in {Recent, now} : I!GetAt(t))
  <2>1. /\ at = 0 /\ at' \in {0, 1}
        /\ UNCHANGED <<poses, fused, refused, dangled, posterior>>
    BY <1>3 DEF I!AddImu, I!GetAt, I!Free, I!Begins
  <2>2. QED
    BY <2>1, Elements DEF ImuOnceInv
<1>4. CASE I!Answers \/ I!OtherJumps
  <2>1. UNCHANGED <<poses, posterior, at, did, fused, refused, dangled>>
    BY <1>4 DEF I!Answers, I!OtherJumps
  <2>2. QED
    BY <2>1 DEF ImuOnceInv
<1>5. CASE I!Skips
  <2>1. /\ UNCHANGED <<poses, posterior, did, fused, refused, dangled>>
        /\ at' = at + 1 /\ poses[at].t < posterior
    BY <1>5 DEF I!Skips
  <2>2. QED
    BY <2>1, Elements DEF ImuOnceInv
<1>6. ASSUME I!Processable, I!Propagates
      PROVE  /\ at \in 1..Len(poses) /\ poses[at].t >= posterior
             /\ posterior' = poses[at].t /\ did'
  BY <1>6 DEF I!Processable, I!InLoop, I!Propagates, TypesOK, TypeOK
<1>7. CASE I!Corrects \/ I!Ignores
  <2>1. /\ UNCHANGED <<poses, dangled>> /\ at' = at + 1
        /\ at \in 1..Len(poses) /\ poses[at].t >= posterior
        /\ posterior' = poses[at].t /\ did'
        /\ (fused' = fused /\ refused' = refused) \/ I!Fuses(poses[at])
    BY <1>6, <1>7 DEF I!Corrects, I!Ignores
  <2>2. ASSUME NEW i \in 1..Len(poses), IsFused(i)'
        PROVE  poses[i].t < posterior' \/ i < at'
    <3>1. IsFused(i) \/ i = at
      BY <2>1, <2>2, Distinct DEF I!Fuses
    <3>2. QED
      BY SMTT(30), <2>1, <3>1, Elements DEF ImuOnceInv
  <2>3. ASSUME NEW i \in 1..Len(poses), i < at'
        PROVE  poses[i].t <= posterior'
    <3>1. i < at \/ i = at
      BY <2>1, <2>3
    <3>2. QED
      BY <2>1, <3>1, Elements DEF ImuOnceInv
  <2>4. refused' = {}
    <3>1. poses[at].n \notin fused
      BY <2>1, Elements DEF ImuOnceInv
    <3>2. QED
      BY <2>1, <3>1 DEF I!Fuses, ImuOnceInv
  <2>5. QED
    BY <2>1, <2>2, <2>3, <2>4
<1>8. CASE I!Resets
  <2>1. PICK k \in PoseCuts(poses[at].t) :
          /\ poses' = Drop(poses, k)
          /\ at' \in Moved(at + 1, k, poses')
          /\ dangled' = (dangled \/ (k >= at /\ poses' # <<>>))
    BY <1>8, Shared DEF I!Resets
  <2>2. /\ at \in 1..Len(poses) /\ poses[at].t >= posterior
        /\ posterior' = poses[at].t /\ did' /\ I!Fuses(poses[at])
        /\ ~dangled
    BY <1>6, <1>8, <2>1 DEF I!Resets
  <2>3. /\ k \in 0..Len(poses) /\ Len(poses') = Len(poses) - k
        /\ \A i \in 1..Len(poses') : poses'[i] = poses[i + k] /\ i + k \in 1..Len(poses)
    <3>1. k \in 0..Len(poses) /\ poses \in Seq(Pose)
      BY CutsInRange DEF TypesOK, TypeOK
    <3>2. QED
      BY <2>1, <3>1, Drops
  <2>4. ASSUME NEW i \in 1..Len(poses')
        PROVE  /\ poses'[i] = poses[i + k] /\ i + k \in 1..Len(poses)
               /\ at' = at + 1 - k
    <3>1. poses' # <<>>
      BY <2>3, <2>4
    <3>2. k < at + 1
      <4>1. ~(k >= at)
        BY <2>1, <3>1, Zenon
      <4>2. QED
        BY <2>2, <2>3, <4>1
    <3>3. Moved(at + 1, k, poses') = {at + 1 - k}
      BY SMTT(30), <2>2, <2>3, <3>2 DEF Moved
    <3>4. QED
      BY <2>1, <2>3, <3>3
  <2>5. ASSUME NEW i \in 1..Len(poses'), IsFused(i)'
        PROVE  poses'[i].t < posterior' \/ i < at'
    <3>1. IsFused(i + k) \/ i + k = at
      BY <2>2, <2>4, <2>5, Distinct DEF I!Fuses
    <3>2. poses[i + k].t < posterior \/ i + k <= at
      BY <2>2, <2>4, <3>1, Elements DEF ImuOnceInv
    <3>3. QED
      BY SMTT(30), <2>2, <2>3, <2>4, <3>2, Elements
  <2>6. ASSUME NEW i \in 1..Len(poses'), i < at'
        PROVE  poses'[i].t <= posterior'
    <3>1. i + k < at \/ i + k = at
      BY <2>2, <2>3, <2>4, <2>6
    <3>2. i + k < at => poses[i + k].t <= posterior
      BY <2>2, <2>4 DEF ImuOnceInv
    <3>3. posterior <= posterior' /\ posterior' = poses[at].t /\ poses'[i].t = poses[i + k].t
      BY <2>2, <2>4
    <3>4. QED
      BY <2>2, <2>4, <3>1, <3>2, <3>3, Elements
  <2>7. refused' = {}
    <3>1. poses[at].n \notin fused
      BY <2>2, Elements DEF ImuOnceInv
    <3>2. QED
      BY <2>2, <3>1 DEF I!Fuses, ImuOnceInv
  <2>8. QED
    BY <2>2, <2>5, <2>6, <2>7
<1>9. CASE I!Finishes
  <2>1. /\ UNCHANGED <<posterior, did, fused, refused, dangled>> /\ at' = 0
        /\ IF did THEN I!Erases ELSE poses' = poses
    BY <1>9 DEF I!Finishes
  <2>2. CASE ~did
    BY <2>1, <2>2, Elements DEF ImuOnceInv
  <2>3. CASE did
    <3>1. PICK k \in PoseCuts(posterior + 1) : poses' = Drop(poses, k)
      BY <2>1, <2>3, Shared DEF I!Erases
    <3>2. k \in 0..Len(poses) /\ (k < Len(poses) => poses[k + 1].t >= posterior + 1)
      BY DEF PoseCuts
    <3>3. /\ Len(poses') = Len(poses) - k
          /\ \A i \in 1..Len(poses') : poses'[i] = poses[i + k] /\ i + k \in 1..Len(poses)
      <4>1. poses \in Seq(Pose)
        BY DEF TypesOK, TypeOK
      <4>2. QED
        BY <3>1, <3>2, <4>1, Drops
    <3>4. ASSUME NEW i \in 1..Len(poses'), IsFused(i)'
          PROVE  poses'[i].t < posterior
      <4>1. /\ poses'[i] = poses[i + k] /\ i + k \in 1..Len(poses)
            /\ k < Len(poses) /\ k + 1 \in 1..Len(poses)
        BY <3>2, <3>3
      <4>2. ~(k + 1 < at)
        BY SMTT(30), <2>1, <3>2, <4>1, Elements DEF ImuOnceInv
      <4>3. IsFused(i + k) /\ ~(i + k < at)
        BY <2>1, <3>2, <3>4, <4>1, <4>2, Elements
      <4>4. QED
        BY <2>1, <4>1, <4>3 DEF ImuOnceInv
    <3>5. QED
      BY <2>1, <3>4, Elements DEF ImuOnceInv
  <2>4. QED
    BY <2>2, <2>3
<1>10. QED
  BY <1>1, <1>2, <1>3, <1>4, <1>5, <1>7, <1>8, <1>9 DEF I!Process

\* No pose corrects an EkfImu twice, and an Ekf only if process() left early for
\* want of samples after it; however many poses and samples there are, however
\* late and out of order they come.
THEOREM FusesOnce == Spec => []OnlyStarvedFusesTwice
<1>1. EstimatorsInit => EkfOnceInv /\ ImuOnceInv
  <2>1. 1..0 = {} /\ Len(<<>>) = 0
    OBVIOUS
  <2>2. QED
    BY <2>1 DEF EstimatorsInit, Init, EkfOnceInv, ImuOnceInv
<1>2. TypesOK /\ NumberInv /\ EkfOnceInv /\ ImuOnceInv /\ [Next]_vars
        => EkfOnceInv' /\ ImuOnceInv'
  <2> SUFFICES ASSUME TypesOK, NumberInv, EkfOnceInv, ImuOnceInv, [Next]_vars
               PROVE  EkfOnceInv' /\ ImuOnceInv'
    OBVIOUS
  <2>1. CASE Tick \/ UNCHANGED vars
    <3>1. UNCHANGED <<poses, posterior, at, fused, refused, dangled, kind, useImu,
                      starved, did>>
      BY <2>1 DEF Tick, vars, queues, times, history, config, ofEkf, ofEkfImu
    <3>2. QED
      BY <3>1 DEF EkfOnceInv, ImuOnceInv, IsFused
  <2>2. ASSUME kind = "EKF", UNCHANGED <<config, ofEkfImu>>,
               \/ \E t \in Fresh : E!FirstPose(t) \/ E!AddPose(t) \/ E!AddImu(t)
               \/ \E t \in {Recent, now} : E!GetAt(t)
               \/ E!Process \/ E!Answers
        PROVE  EkfOnceInv' /\ ImuOnceInv'
    <3>1. kind' = "EKF"
      BY <2>2 DEF config
    <3>2. QED
      BY <2>2, <3>1, EkfFusesOnce DEF ImuOnceInv
  <2>3. ASSUME kind = "EKFIMU", UNCHANGED <<config, ofEkf>>,
               \/ \E t \in Fresh : I!FirstPose(t) \/ I!AddPose(t) \/ I!AddImu(t)
               \/ \E t \in {Recent, now} : I!GetAt(t)
               \/ I!Process \/ I!Answers \/ I!OtherJumps
        PROVE  EkfOnceInv' /\ ImuOnceInv'
    <3>1. kind' = "EKFIMU"
      BY <2>3 DEF config
    <3>2. QED
      BY <2>3, <3>1, ImuFusesOnce DEF EkfOnceInv
  <2>4. QED
    BY <2>1, <2>2, <2>3, Steps
<1>3. TypesOK /\ EkfOnceInv /\ ImuOnceInv => OnlyStarvedFusesTwice
  BY DEF TypesOK, EkfOnceInv, ImuOnceInv, OnlyStarvedFusesTwice
<1>4. QED
  BY <1>1, <1>2, <1>3, TypesCorrect, Numbered, PTL DEF Spec

=============================================================================
