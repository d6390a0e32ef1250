-------------------------- MODULE BetaflightMspProofs --------------------------
(***************************************************************************)
(* TLAPS proofs about BetaflightMsp, for any number of sweeps.             *)
(*                                                                         *)
(* A frame on its way must become ever younger with respect to what its    *)
(* code has missed: each sweep makes it one older, and each sweep in which *)
(* its code reads nothing adds one to missed.  A sweep that does read a    *)
(* reply adds nothing to missed, and it is the order of the stream that    *)
(* saves the bound: what is behind the reply read is younger than it.      *)
(***************************************************************************)
EXTENDS BetaflightMsp, TLAPS

\* The attempt at code c belongs to the present sweep and is not over.
Awaits(c) == poll \in {"ask", "read"} /\ code <= c

\* c is still to be asked for in the present sweep.
Unasked(c) ==
  \/ poll = "ask" /\ code <= c
  \/ poll = "read" /\ code < c

FrameOK(f) ==
  /\ session < f.sweep
  /\ f.sweep <= sweep
  /\ Unasked(f.code) => f.sweep < sweep
  /\ sweep - f.sweep + (IF Awaits(f.code) THEN 0 ELSE 1) <= missed[f.code]

FramesInv ==
  /\ \A i \in 1..Len(rx) : FrameOK(rx[i])
  /\ \A i \in 1..Len(toFc) : FrameOK(toFc[i])

Before(f, g) == f.code = g.code => f.sweep < g.sweep

OrderInv ==
  /\ \A i, j \in 1..Len(rx) : i < j => Before(rx[i], rx[j])
  /\ \A i, j \in 1..Len(toFc) : i < j => Before(toFc[i], toFc[j])
  /\ \A i \in 1..Len(rx), j \in 1..Len(toFc) : Before(rx[i], toFc[j])

CountersInv ==
  /\ session <= sweep
  /\ poll \in {"ask", "read", "publish"} => session < sweep
  /\ sequence + (IF poll \in {"ask", "read", "publish"} THEN 1 ELSE 0) <= sweep

MspInv == TypeOK /\ FramesInv /\ OrderInv /\ CountersInv

-----------------------------------------------------------------------------
(***************************************************************************)
(* Frames that stay where they are                                         *)
(***************************************************************************)

\* A step that moves no frame need only keep what is said of each frame.
LEMMA FramesStay ==
  ASSUME TypeOK, FramesInv, OrderInv, UNCHANGED <<rx, toFc>>,
         \A f \in Frames : FrameOK(f) => FrameOK(f)'
  PROVE  FramesInv' /\ OrderInv'
<1>1. /\ \A i \in 1..Len(rx) : rx[i] \in Frames
      /\ \A i \in 1..Len(toFc) : toFc[i] \in Frames
  BY DEF TypeOK
<1>2. FramesInv'
  BY <1>1 DEF FramesInv, FrameOK, Awaits, Unasked
<1>3. OrderInv'
  BY DEF OrderInv, Before
<1> QED
  BY <1>2, <1>3

\* What becomes of a frame when the thread leaves code for the next one, and
\* code has missed its reply.
LEMMA AgesOnMiss ==
  ASSUME TypeOK, poll \in {"ask", "read"}, Advance, Miss({code}),
         UNCHANGED <<sweep, session>>, NEW f \in Frames, FrameOK(f)
  PROVE  FrameOK(f)'
<1>1. missed'[f.code] = IF f.code = code THEN missed[f.code] + 1
                        ELSE missed[f.code]
  BY DEF TypeOK, Miss, Frames
<1>2. Awaits(f.code)' <=> Awaits(f.code) /\ f.code # code
  BY DEF Awaits, Advance, TypeOK, Codes, Frames
<1>3. Unasked(f.code)' => Unasked(f.code)
  BY SMTT(30) DEF Unasked, Advance, TypeOK, Codes, Frames
<1> QED
  BY <1>1, <1>2, <1>3 DEF FrameOK, TypeOK, Frames

\* The same for a reply read: nothing is missed, but what is left of the code
\* is younger than the reply.
LEMMA AgesOnRead ==
  ASSUME TypeOK, poll = "read", Advance, UNCHANGED <<sweep, session, missed>>,
         NEW r \in Frames, r.code = code, FrameOK(r),
         NEW f \in Frames, FrameOK(f), Before(r, f)
  PROVE  FrameOK(f)'
<1>0. f.code \in 1..3 /\ code \in 1..3
  BY DEF TypeOK, Codes, Frames
<1>1. Awaits(f.code)' <=> Awaits(f.code) /\ f.code # code
  BY <1>0 DEF Awaits, Advance
<1>2. Unasked(f.code)' => Unasked(f.code)
  BY <1>0 DEF Unasked, Advance
<1>3. CASE f.code # code
  BY <1>1, <1>2, <1>3 DEF FrameOK
<1>4. CASE f.code = code
  <2>1. r.sweep < f.sweep
    BY <1>4 DEF Before
  <2>2. sweep - r.sweep <= missed[code]
    BY DEF FrameOK, Awaits, TypeOK, Codes, Frames
  <2>3. sweep - f.sweep + 1 <= missed[code]
    BY <2>1, <2>2 DEF TypeOK, Frames
  <2> QED
    BY <1>1, <1>2, <1>4, <2>3 DEF FrameOK
<1> QED
  BY <1>3, <1>4

-----------------------------------------------------------------------------
(***************************************************************************)
(* Types                                                                   *)
(***************************************************************************)
LEMMA AdvanceTypes ==
  ASSUME TypeOK, Advance
  PROVE  code' \in Codes /\ poll' \in {"ask", "publish"}
BY DEF TypeOK, Advance, Codes

LEMMA MissTypes ==
  ASSUME TypeOK, NEW cs, Miss(cs)
  PROVE  missed' \in [Codes -> Nat]
BY DEF TypeOK, Miss

LEMMA PollTypes ==
  ASSUME TypeOK, CountersInv, PollStep
  PROVE  TypeOK'
<1> USE MaxSweepsAssumption
<1>1. CASE Begins
  <2>1. code' \in Codes
    BY <1>1 DEF Begins, Codes
  <2>2. sweep' \in 0..MaxSweeps
    BY <1>1 DEF Begins, TypeOK
  <2> QED
    BY <1>1, <2>1, <2>2 DEF Begins, TypeOK, wire, snapshot
<1>2. CASE Ends
  BY <1>2 DEF Ends, TypeOK, wire, snapshot
<1>3. CASE Breaks
  BY <1>3, MissTypes DEF Breaks, TypeOK, wire, snapshot
<1>4. CASE Asks
  <2>1. [code |-> code, sweep |-> sweep] \in Frames
    BY <1>4 DEF Asks, CountersInv, TypeOK, Frames
  <2>2. toFc' \in Seq(Frames)
    <3>1. toFc \in Seq(Frames)
      BY DEF TypeOK
    <3>2. Append(toFc, [code |-> code, sweep |-> sweep]) \in Seq(Frames)
      BY <2>1, <3>1
    <3> QED
      BY <1>4, <3>1, <3>2 DEF Asks
  <2> QED
    BY <1>4, <2>2 DEF Asks, TypeOK, snapshot
<1>5. CASE AsksInVain
  BY <1>5, MissTypes, AdvanceTypes DEF AsksInVain, TypeOK, wire, snapshot
<1>6. CASE Reads
  <2>1. /\ Head(rx) \in Frames
        /\ rx' \in Seq(Frames)
    BY <1>6 DEF Reads, TypeOK
  <2>2. CASE Head(rx).code # code
    BY <1>6, <2>1, <2>2 DEF Reads, TypeOK
  <2>3. CASE Head(rx).code = code
    <3>1. Decodes(Head(rx)) /\ Advance
      BY <1>6, <2>3 DEF Reads
    <3>2. shown' \in [Codes -> 0..MaxSweeps] /\ swept' \in BOOLEAN
      <4>1. Head(rx).sweep \in 0..MaxSweeps
        BY <2>1 DEF Frames
      <4> QED
        BY <3>1, <4>1 DEF Decodes, TypeOK
    <3> QED
      BY <1>6, <2>1, <3>1, <3>2, AdvanceTypes DEF Reads, TypeOK
  <2> QED
    BY <2>2, <2>3
<1>7. CASE GivesUp
  BY <1>7, MissTypes, AdvanceTypes DEF GivesUp, TypeOK, wire, snapshot
<1>8. CASE Publishes
  BY <1>8 DEF Publishes, CountersInv, TypeOK, wire
<1> QED
  BY <1>1, <1>2, <1>3, <1>4, <1>5, <1>6, <1>7, <1>8 DEF PollStep

LEMMA StepTypes ==
  ASSUME TypeOK, CountersInv, [Next]_vars
  PROVE  TypeOK'
<1> USE MaxSweepsAssumption
<1>0. <<>> \in Seq(Frames)
  OBVIOUS
<1>1. CASE Start
  BY <1>0, <1>1 DEF Start, TypeOK, snapshot
<1>2. CASE StopBegins
  BY <1>2 DEF StopBegins, TypeOK, pollVars, wire, snapshot
<1>3. CASE StopJoins
  BY <1>0, <1>3 DEF StopJoins, TypeOK, snapshot
<1>4. CASE PollStep
  BY <1>4, PollTypes
<1>5. CASE Answers
  BY <1>5 DEF Answers, TypeOK, pollVars, snapshot
<1>6. CASE IsSilent
  BY <1>6 DEF IsSilent, TypeOK, pollVars, snapshot
<1>7. CASE Disconnects
  BY <1>0, <1>7 DEF Disconnects, TypeOK, pollVars, snapshot
<1>8. CASE UNCHANGED vars
  BY <1>8 DEF vars, TypeOK, pollVars, wire, snapshot
<1> QED
  BY <1>1, <1>2, <1>3, <1>4, <1>5, <1>6, <1>7, <1>8 DEF Next

-----------------------------------------------------------------------------
(***************************************************************************)
(* The counters                                                            *)
(***************************************************************************)
LEMMA StepCounters ==
  ASSUME TypeOK, CountersInv, [Next]_vars
  PROVE  CountersInv'
<1> USE DEF CountersInv
<1>1. CASE Start
  BY <1>1 DEF Start, TypeOK, snapshot
<1>2. CASE StopBegins
  BY <1>2 DEF StopBegins, pollVars, snapshot
<1>3. CASE StopJoins
  BY <1>3 DEF StopJoins, snapshot
<1>4. CASE Begins
  BY <1>4 DEF Begins, TypeOK, snapshot
<1>5. CASE Ends
  BY <1>5 DEF Ends, snapshot
<1>6. CASE Breaks
  BY <1>6 DEF Breaks, snapshot
<1>7. CASE Asks
  BY <1>7 DEF Asks, snapshot
<1>8. CASE AsksInVain
  BY <1>8, AdvanceTypes DEF AsksInVain, snapshot
<1>9. CASE Reads
  BY <1>9, AdvanceTypes DEF Reads
<1>10. CASE GivesUp
  BY <1>10, AdvanceTypes DEF GivesUp, snapshot
<1>11. CASE Publishes
  BY <1>11 DEF Publishes, TypeOK
<1>12. CASE Answers \/ IsSilent \/ Disconnects
  BY <1>12 DEF Answers, IsSilent, Disconnects, pollVars, snapshot
<1>13. CASE UNCHANGED vars
  BY <1>13 DEF vars, pollVars, snapshot
<1> QED
  BY <1>1, <1>2, <1>3, <1>4, <1>5, <1>6, <1>7, <1>8, <1>9, <1>10, <1>11,
     <1>12, <1>13 DEF Next, PollStep

-----------------------------------------------------------------------------
(***************************************************************************)
(* The frames                                                              *)
(***************************************************************************)

\* readFrame() takes the oldest frame; the others move up.
LEMMA ReadKeepsFrames ==
  ASSUME TypeOK, FramesInv, OrderInv, Reads
  PROVE  FramesInv' /\ OrderInv'
<1> DEFINE r == Head(rx)
<1>1. /\ rx \in Seq(Frames) /\ rx # <<>> /\ r = rx[1] /\ r \in Frames
      /\ toFc \in Seq(Frames)
      /\ \A i \in 1..Len(toFc) : toFc[i] \in Frames
      /\ Len(rx') = Len(rx) - 1 /\ Len(rx) \in Nat \ {0}
      /\ toFc' = toFc /\ Len(toFc) \in Nat
      /\ poll = "read"
      /\ UNCHANGED <<sweep, session, missed>>
  BY DEF Reads, TypeOK
<1>2. \A i \in 1..Len(rx') : /\ rx'[i] = rx[i + 1]
                             /\ i + 1 \in 1..Len(rx)
                             /\ rx[i + 1] \in Frames
  BY <1>1 DEF Reads
<1>3. OrderInv'
  <2>1. ASSUME NEW i \in 1..Len(rx'), NEW j \in 1..Len(rx'), i < j
        PROVE  Before(rx'[i], rx'[j])
    <3>1. i + 1 < j + 1
      BY <2>1
    <3>2. Before(rx[i + 1], rx[j + 1])
      BY <1>2, <3>1 DEF OrderInv
    <3> QED
      BY <1>2, <3>2
  <2>2. \A i \in 1..Len(rx'), j \in 1..Len(toFc) : Before(rx'[i], toFc[j])
    BY <1>1, <1>2 DEF OrderInv
  <2> QED
    BY <1>1, <2>1, <2>2 DEF OrderInv, Before
<1>4. FrameOK(r)
  BY <1>1 DEF FramesInv
<1>5. ASSUME NEW f \in Frames, FrameOK(f), Before(r, f)
      PROVE  FrameOK(f)'
  <2>1. CASE r.code # code
    BY <1>1, <1>5, <2>1 DEF Reads, FrameOK, Awaits, Unasked
  <2>2. CASE r.code = code
    BY <1>1, <1>4, <1>5, <2>2, AgesOnRead DEF Reads
  <2> QED
    BY <2>1, <2>2
<1>6. \A i \in 1..Len(rx') : FrameOK(rx[i + 1]) /\ Before(r, rx[i + 1])
  BY <1>1, <1>2 DEF FramesInv, OrderInv
<1>7. \A i \in 1..Len(toFc) : FrameOK(toFc[i]) /\ Before(r, toFc[i])
  BY <1>1 DEF FramesInv, OrderInv
<1>8. \A f \in Frames : FrameOK(f) /\ Before(r, f) => FrameOK(f)'
  BY <1>5
<1>9. FramesInv'
  BY <1>1, <1>2, <1>6, <1>7, <1>8 DEF FramesInv, FrameOK, Awaits, Unasked
<1> QED
  BY <1>3, <1>9

\* A request is younger than all that is on its way.
LEMMA AskKeepsFrames ==
  ASSUME TypeOK, CountersInv, FramesInv, OrderInv, Asks, connected
  PROVE  FramesInv' /\ OrderInv'
<1>1. PICK q \in Frames :
        /\ q.code = code /\ q.sweep = sweep
        /\ toFc' = Append(toFc, q) /\ rx' = rx
        /\ rx \in Seq(Frames) /\ toFc \in Seq(Frames)
        /\ poll = "ask" /\ poll' = "read"
        /\ UNCHANGED <<sweep, session, missed, code>>
  <2> DEFINE q == [code |-> code, sweep |-> sweep]
  <2>1. q \in Frames /\ q.code = code /\ q.sweep = sweep
    BY DEF Asks, CountersInv, TypeOK, Frames
  <2>2. toFc' = Append(toFc, q)
    BY DEF Asks
  <2> HIDE DEF q
  <2> QED
    BY <2>1, <2>2 DEF Asks, TypeOK
<1>0. /\ sweep \in Nat /\ session \in Nat /\ session < sweep
      /\ code \in 1..3 /\ missed[code] \in Nat
      /\ \A f \in Frames : f.code \in 1..3 /\ f.sweep \in Nat
  BY <1>1 DEF CountersInv, TypeOK, Codes, Frames
<1>2. /\ Len(toFc') = Len(toFc) + 1
      /\ \A i \in 1..Len(toFc) : toFc'[i] = toFc[i] /\ toFc[i] \in Frames
      /\ toFc'[Len(toFc) + 1] = q
      /\ Len(toFc) \in Nat /\ Len(rx) \in Nat
      /\ \A i \in 1..Len(rx) : rx[i] \in Frames
  BY <1>1
<1>3. ASSUME NEW f \in Frames, FrameOK(f)
      PROVE  FrameOK(f)' /\ Before(f, q)
  BY SMTT(30), <1>0, <1>1, <1>3 DEF FrameOK, Awaits, Unasked, Before
<1>4. FrameOK(q)'
  <2>1. session' < q.sweep /\ q.sweep <= sweep'
    BY <1>0, <1>1
  <2>2. ~Unasked(q.code)'
    BY <1>0, <1>1 DEF Unasked
  <2>3. Awaits(q.code)'
    BY <1>0, <1>1 DEF Awaits
  <2>4. missed'[q.code] = missed[code]
    BY <1>1
  <2>5. sweep' - q.sweep + 0 = 0
    BY <1>0, <1>1
  <2> QED
    BY <1>0, <2>1, <2>2, <2>3, <2>4, <2>5 DEF FrameOK
<1>5. \A f \in Frames : FrameOK(f) => FrameOK(f)' /\ Before(f, q)
  BY <1>3
<1>6. FramesInv'
  <2>1. \A i \in 1..Len(rx) : FrameOK(rx[i])'
    BY <1>1, <1>2, <1>5 DEF FramesInv, FrameOK, Awaits, Unasked
  <2>2. ASSUME NEW i \in 1..Len(toFc') PROVE FrameOK(toFc[i])'
    <3>1. CASE i \in 1..Len(toFc)
      BY <1>1, <1>2, <1>5, <3>1 DEF FramesInv, FrameOK, Awaits, Unasked
    <3>2. CASE i = Len(toFc) + 1
      <4>1. toFc'[i] = q
        BY <1>2, <3>2
      <4> QED
        BY <1>4, <4>1 DEF FrameOK, Awaits, Unasked
    <3> QED
      BY <1>2, <3>1, <3>2
  <2> QED
    BY <1>1, <2>1, <2>2 DEF FramesInv
<1>7. OrderInv'
  <2>1. /\ \A i \in 1..Len(rx) : Before(rx[i], q)
        /\ \A i \in 1..Len(toFc) : Before(toFc[i], q)
    BY <1>2, <1>5 DEF FramesInv
  <2>2. \A i, j \in 1..Len(toFc') : i < j => Before(toFc'[i], toFc'[j])
    BY SMTT(30), <1>2, <2>1 DEF OrderInv
  <2>3. \A i \in 1..Len(rx), j \in 1..Len(toFc') : Before(rx[i], toFc'[j])
    BY <1>2, <2>1 DEF OrderInv
  <2> QED
    BY <1>1, <2>2, <2>3 DEF OrderInv, Before
<1> QED
  BY <1>6, <1>7

\* What Betaflight answers keeps its place in the stream.
LEMMA AnswerKeepsFrames ==
  ASSUME TypeOK, FramesInv, OrderInv, Answers
  PROVE  FramesInv' /\ OrderInv'
<1> DEFINE q == Head(toFc)
<1>1. /\ q = toFc[1] /\ q \in Frames /\ Len(toFc) \in Nat \ {0}
      /\ rx' = Append(rx, q) /\ toFc' = Tail(toFc)
      /\ rx \in Seq(Frames) /\ toFc \in Seq(Frames)
      /\ UNCHANGED <<sweep, session, missed, code, poll>>
  BY DEF Answers, TypeOK, pollVars
<1> HIDE DEF q
<1>2. /\ Len(rx') = Len(rx) + 1 /\ Len(rx) \in Nat
      /\ \A i \in 1..Len(rx) : rx'[i] = rx[i]
      /\ rx'[Len(rx) + 1] = q
      /\ Len(toFc') = Len(toFc) - 1
  BY <1>1
<1>3. \A i \in 1..Len(toFc') : /\ toFc'[i] = toFc[i + 1]
                               /\ i + 1 \in 1..Len(toFc)
  BY <1>1
<1>4. FramesInv'
  BY <1>1, <1>2, <1>3 DEF FramesInv, FrameOK, Awaits, Unasked
<1>5. OrderInv'
  <2>1. ASSUME NEW i \in 1..Len(rx'), NEW j \in 1..Len(rx'), i < j
        PROVE  Before(rx'[i], rx'[j])
    <3>1. \A k \in 1..Len(rx) : Before(rx[k], q)
      BY SMTT(30), <1>1 DEF OrderInv
    <3>2. i \in 1..Len(rx) /\ (j \in 1..Len(rx) \/ j = Len(rx) + 1)
      BY <1>2, <2>1
    <3>3. CASE j \in 1..Len(rx)
      BY <1>2, <2>1, <3>2, <3>3 DEF OrderInv
    <3>4. CASE j = Len(rx) + 1
      BY <1>2, <3>1, <3>2, <3>4
    <3> QED
      BY <3>2, <3>3, <3>4
  <2>2. \A i, j \in 1..Len(toFc') : i < j => Before(toFc'[i], toFc'[j])
    BY <1>1, <1>2, <1>3 DEF OrderInv
  <2>3. \A i \in 1..Len(rx'), j \in 1..Len(toFc') :
          Before(rx'[i], toFc'[j])
    <3>1. \A j \in 1..Len(toFc') :
            1 < j + 1 /\ 1 \in 1..Len(toFc) /\ j + 1 \in 1..Len(toFc)
      BY <1>1, <1>2, <1>3
    <3>2. \A j \in 1..Len(toFc') : Before(q, toFc'[j])
      BY <1>1, <1>3, <3>1 DEF OrderInv
    <3>3. \A i \in 1..Len(rx), j \in 1..Len(toFc') : Before(rx[i], toFc'[j])
      BY <1>3 DEF OrderInv
    <3> QED
      BY <1>2, <3>2, <3>3
  <2> QED
    BY <2>1, <2>2, <2>3 DEF OrderInv, Before
<1> QED
  BY <1>4, <1>5

\* What Betaflight loses leaves the others in their order.
LEMMA LossKeepsFrames ==
  ASSUME TypeOK, FramesInv, OrderInv, IsSilent \/ Disconnects
  PROVE  FramesInv' /\ OrderInv'
<1>1. CASE IsSilent
  <2>1. /\ toFc \in Seq(Frames) /\ toFc # <<>> /\ toFc' = Tail(toFc)
        /\ rx' = rx /\ Len(toFc) \in Nat \ {0}
        /\ UNCHANGED <<sweep, session, missed, code, poll>>
    BY <1>1 DEF IsSilent, TypeOK, pollVars
  <2>2. /\ Len(toFc') = Len(toFc) - 1
        /\ \A i \in 1..Len(toFc') : /\ toFc'[i] = toFc[i + 1]
                                    /\ i + 1 \in 1..Len(toFc)
    BY <2>1
  <2>3. FramesInv'
    BY <2>1, <2>2 DEF FramesInv, FrameOK, Awaits, Unasked
  <2>4. OrderInv'
    BY <2>1, <2>2 DEF OrderInv, Before
  <2> QED
    BY <2>3, <2>4
<1>2. CASE Disconnects
  <2>1. /\ toFc' = <<>> /\ rx' = rx
        /\ UNCHANGED <<sweep, session, missed, code, poll>>
    BY <1>2 DEF Disconnects, pollVars
  <2>2. FramesInv'
    BY <2>1 DEF FramesInv, FrameOK, Awaits, Unasked
  <2>3. OrderInv'
    BY <2>1 DEF OrderInv, Before
  <2> QED
    BY <2>2, <2>3
<1> QED
  BY <1>1, <1>2

LEMMA StepFrames ==
  ASSUME MspInv, [Next]_vars
  PROVE  FramesInv' /\ OrderInv'
<1> USE DEF MspInv
<1>1. CASE Start
  <2>1. rx' = <<>> /\ toFc' = <<>>
    BY <1>1 DEF Start
  <2> QED
    BY <2>1 DEF FramesInv, OrderInv
<1>2. CASE StopBegins
  <2>1. \A f \in Frames : FrameOK(f) => FrameOK(f)'
    BY <1>2 DEF StopBegins, pollVars, FrameOK, Awaits, Unasked
  <2> QED
    BY <1>2, <2>1, FramesStay DEF StopBegins, wire
<1>3. CASE StopJoins
  <2>1. /\ toFc' = <<>> /\ rx' = rx
        /\ poll = "ended" /\ poll' = "off"
        /\ UNCHANGED <<sweep, session, missed, code>>
    BY <1>3 DEF StopJoins
  <2>2. FramesInv'
    BY <2>1 DEF FramesInv, FrameOK, Awaits, Unasked
  <2>3. OrderInv'
    BY <2>1 DEF OrderInv, Before
  <2> QED
    BY <2>2, <2>3
<1>4. CASE Begins
  <2>1. \A f \in Frames : FrameOK(f) => FrameOK(f)'
    BY SMTT(30), <1>4 DEF Begins, FrameOK, Awaits, Unasked, TypeOK, Codes, Frames
  <2> QED
    BY <1>4, <2>1, FramesStay DEF Begins, wire
<1>5. CASE Ends
  <2>1. \A f \in Frames : FrameOK(f) => FrameOK(f)'
    BY <1>5 DEF Ends, FrameOK, Awaits, Unasked
  <2> QED
    BY <1>5, <2>1, FramesStay DEF Ends, wire
<1>6. CASE Breaks
  <2>1. ASSUME NEW f \in Frames, FrameOK(f) PROVE FrameOK(f)'
    <3>1. missed'[f.code] = IF f.code \in code..3 THEN missed[f.code] + 1
                            ELSE missed[f.code]
      BY <1>6 DEF Breaks, Miss, TypeOK, Frames
    <3>2. Awaits(f.code) <=> f.code \in code..3
      BY SMTT(30), <1>6 DEF Breaks, Awaits, TypeOK, Codes, Frames
    <3>3. ~Awaits(f.code)' /\ ~Unasked(f.code)'
      BY <1>6 DEF Breaks, Awaits, Unasked
    <3> QED
      BY <1>6, <2>1, <3>1, <3>2, <3>3 DEF Breaks, FrameOK, TypeOK, Frames
  <2> QED
    BY <1>6, <2>1, FramesStay DEF Breaks, wire
<1>7. CASE Asks
  <2>1. CASE connected
    BY <1>7, <2>1, AskKeepsFrames
  <2>2. CASE ~connected
    <3>1. ASSUME NEW f \in Frames, FrameOK(f) PROVE FrameOK(f)'
      <4>1. Awaits(f.code)' <=> Awaits(f.code)
        BY <1>7 DEF Asks, Awaits
      <4>2. Unasked(f.code)' => Unasked(f.code)
        BY <1>7 DEF Asks, Unasked, TypeOK, Codes, Frames
      <4> QED
        BY <1>7, <3>1, <4>1, <4>2 DEF Asks, FrameOK
    <3> QED
      BY <1>7, <2>2, <3>1, FramesStay DEF Asks
  <2> QED
    BY <2>1, <2>2
<1>8. CASE AsksInVain \/ GivesUp
  <2>1. \A f \in Frames : FrameOK(f) => FrameOK(f)'
    BY <1>8, AgesOnMiss DEF AsksInVain, GivesUp
  <2> QED
    BY <1>8, <2>1, FramesStay DEF AsksInVain, GivesUp, wire
<1>9. CASE Reads
  BY <1>9, ReadKeepsFrames
<1>10. CASE Publishes
  <2>1. \A f \in Frames : FrameOK(f) => FrameOK(f)'
    BY <1>10 DEF Publishes, FrameOK, Awaits, Unasked
  <2> QED
    BY <1>10, <2>1, FramesStay DEF Publishes, wire
<1>11. CASE Answers
  BY <1>11, AnswerKeepsFrames
<1>12. CASE IsSilent \/ Disconnects
  BY <1>12, LossKeepsFrames
<1>13. CASE UNCHANGED vars
  <2>1. \A f \in Frames : FrameOK(f) => FrameOK(f)'
    BY <1>13 DEF vars, pollVars, FrameOK, Awaits, Unasked
  <2> QED
    BY <1>13, <2>1, FramesStay DEF vars, wire
<1> QED
  BY <1>1, <1>2, <1>3, <1>4, <1>5, <1>6, <1>7, <1>8, <1>9, <1>10, <1>11,
     <1>12, <1>13 DEF Next, PollStep

-----------------------------------------------------------------------------
(***************************************************************************)
(* Theorems                                                                *)
(***************************************************************************)
LEMMA MspInvInductive == Spec => []MspInv
<1>1. Init => MspInv
  <2> SUFFICES ASSUME Init PROVE MspInv
    OBVIOUS
  <2>1. TypeOK
    <3>1. 1 \in Codes
      BY DEF Codes
    <3>2. <<>> \in Seq(Frames)
      OBVIOUS
    <3>3. shown \in [Codes -> 0..MaxSweeps] /\ missed \in [Codes -> Nat]
      BY MaxSweepsAssumption DEF Init
    <3>4. 0 \in 0..MaxSweeps
      BY MaxSweepsAssumption
    <3> QED
      BY <3>1, <3>2, <3>3, <3>4 DEF Init, TypeOK
  <2>2. FramesInv /\ OrderInv
    BY DEF Init, FramesInv, OrderInv
  <2>3. CountersInv
    BY DEF Init, CountersInv
  <2> QED
    BY <2>1, <2>2, <2>3 DEF MspInv
<1>2. MspInv /\ [Next]_vars => MspInv'
  BY StepTypes, StepCounters, StepFrames DEF MspInv
<1> QED
  BY <1>1, <1>2, PTL DEF Spec

\* A part of the snapshot changes by a reply of its code only.
LEMMA ShownIsRead ==
  ASSUME MspInv, [Next]_vars, NEW c \in Codes, shown'[c] # shown[c]
  PROVE  /\ poll = "read" /\ c = code
         /\ \E f \in Frames : f.code = c /\ FrameOK(f) /\ shown'[c] = f.sweep
<1>1. Reads
  BY DEF Next, PollStep, Start, StopBegins, StopJoins, Begins, Ends, Breaks, Asks,
         AsksInVain, GivesUp, Publishes, Answers, IsSilent, Disconnects, vars,
         snapshot
<1>2. /\ Head(rx) \in Frames /\ Head(rx) = rx[1] /\ 1 \in 1..Len(rx)
  BY <1>1 DEF Reads, MspInv, TypeOK
<1>3. FrameOK(Head(rx))
  BY <1>2 DEF MspInv, FramesInv
<1>4. Head(rx).code = code /\ Decodes(Head(rx))
  BY <1>1 DEF Reads
<1>5. c = code /\ shown'[c] = Head(rx).sweep
  BY <1>2, <1>4 DEF Decodes, MspInv, TypeOK, Frames
<1> QED
  BY <1>1, <1>2, <1>3, <1>4, <1>5 DEF Reads

\* The client's state keeps its types.
THEOREM TypeCorrect == Spec => []TypeOK
BY MspInvInductive, PTL DEF MspInv

\* readFrame() may hand out a reply to an earlier request; the reply is then as
\* many sweeps old as its code has missed since start(), and never more.
THEOREM AgeIsBounded == Spec => AgeBounded
<1>1. ASSUME MspInv, [Next]_vars, NEW c \in Codes, shown'[c] # shown[c]
      PROVE  sweep - shown'[c] <= missed[c]
  <2>1. /\ poll = "read" /\ c = code
        /\ \E f \in Frames : f.code = c /\ FrameOK(f) /\ shown'[c] = f.sweep
    BY <1>1, ShownIsRead
  <2>2. PICK f \in Frames : f.code = c /\ FrameOK(f) /\ shown'[c] = f.sweep
    BY <2>1
  <2> QED
    BY <1>1, <2>1, <2>2 DEF FrameOK, Awaits, MspInv, TypeOK, Frames, Codes
<1>2. MspInv /\ [Next]_vars
        => [\A c \in Codes :
              shown'[c] # shown[c] => sweep - shown'[c] <= missed[c]]_vars
  BY <1>1
<1> QED
  BY <1>2, MspInvInductive, PTL DEF Spec, AgeBounded

\* start() clears the receive buffer and opens another connection: no reply to
\* an earlier session's request is ever decoded.
THEOREM StartsAfresh == Spec => FreshAfterStart
<1>1. ASSUME MspInv, [Next]_vars, NEW c \in Codes, shown'[c] # shown[c]
      PROVE  shown'[c] > session
  <2>1. PICK f \in Frames : f.code = c /\ FrameOK(f) /\ shown'[c] = f.sweep
    BY <1>1, ShownIsRead
  <2> QED
    BY <1>1, <2>1 DEF FrameOK, MspInv, TypeOK, Frames
<1>2. MspInv /\ [Next]_vars
        => [\A c \in Codes : shown'[c] # shown[c] => shown'[c] > session]_vars
  BY <1>1
<1> QED
  BY <1>2, MspInvInductive, PTL DEF Spec, FreshAfterStart

=============================================================================
