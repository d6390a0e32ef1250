---------------------------- MODULE PipelineProofs ----------------------------
(***************************************************************************)
(* Proofs about module Pipeline: its types, and that the divisor of the    *)
(* outer loop bounds both the inner steps per outer step and the commands  *)
(* a replaced plan still gets, for every divisor.                          *)
(***************************************************************************)
EXTENDS Pipeline, TLAPS

\* outerloop_counter_ counts the cycles since the outer controller had its
\* turn: it bounds the inner steps taken and the old commands sent since.
CounterBounds ==
  ~missed =>
    IF Divisor < 2 THEN steps <= 1 /\ late = 0
    ELSE /\ steps <= counter + 1
         /\ late <= IF counter = -1 THEN 0 ELSE counter

PipelineInv == TypeOK /\ CounterBounds

\* When the counter has not been used yet, and when it has reached the divisor,
\* the outer controller is due.
LEMMA DueAtTheEnds ==
  ASSUME Divisor >= 2, counter \in -1 .. Divisor - 1, ~OuterDue
  PROVE  counter \in 0 .. Divisor - 2
<1>1. Divisor \in Nat
  BY PipelineAssumption
<1>2. 0 % Divisor = 0 /\ Divisor % Divisor = 0
  BY <1>1, SMT
<1>3. counter # -1 /\ counter # Divisor - 1
  BY <1>1, <1>2 DEF OuterDue
<1>4. QED
  BY <1>1, <1>3

LEMMA PipelineInvInit == Init => PipelineInv
<1> SUFFICES ASSUME Init PROVE PipelineInv
  OBVIOUS
<1>1. Divisor \in Nat /\ MaxSteps \in Nat /\ NoFeed \in 0 .. NoFeed
  BY PipelineAssumption DEF NoFeed
<1>2. counter = -1 /\ steps = 0 /\ late = 0 /\ feed = NoFeed
  BY DEF Init
<1>3. -1 \in -1 .. Ratio - 1
  BY <1>1 DEF Ratio
<1>4. TypeOK
  <2>1. counter \in -1 .. Ratio - 1 /\ feed \in 0 .. NoFeed
    BY <1>1, <1>2, <1>3
  <2>2. steps \in 0 .. MaxSteps /\ late \in 0 .. MaxSteps
    BY <1>1, <1>2
  <2>3. QED
    BY <2>1, <2>2 DEF Init, TypeOK
<1>5. CounterBounds
  <2>1. steps <= 1 /\ late = 0 /\ steps <= counter + 1
    BY <1>2
  <2>2. QED
    BY <1>2, <2>1 DEF CounterBounds
<1>6. QED
  BY <1>4, <1>5 DEF PipelineInv

\* What the steps of a cycle do to the parts of the state TypeOK bounds.
LEMMA CountTypes ==
  ASSUME TypeOK, Count
  PROVE  counter' \in -1 .. Ratio - 1
<1>1. Divisor \in Nat
  BY PipelineAssumption
<1>2. CASE Divisor < 2
  BY <1>2 DEF TypeOK, Count
<1>3. CASE Divisor >= 2 /\ OuterDue
  BY <1>1, <1>3 DEF Count, Ratio
<1>4. CASE Divisor >= 2 /\ ~OuterDue
  <2>1. counter \in -1 .. Divisor - 1
    <3>1. Ratio = Divisor
      BY <1>1, <1>4 DEF Ratio
    <3>2. QED
      BY <3>1 DEF TypeOK
  <2>2. counter \in 0 .. Divisor - 2
    BY <1>4, <2>1, DueAtTheEnds
  <2>3. QED
    BY <1>1, <1>4, <2>2 DEF Count, Ratio
<1>5. QED
  BY <1>1, <1>2, <1>3, <1>4

LEMMA CountedTypes ==
  ASSUME NEW n \in 0 .. MaxSteps
  PROVE  Counted(n) \in 0 .. MaxSteps /\ Counted(n) <= n + 1
BY PipelineAssumption DEF Counted

LEMMA AgedTypes ==
  ASSUME TypeOK
  PROVE  Aged \in 0 .. NoFeed
BY PipelineAssumption DEF TypeOK, Aged, NoFeed

LEMMA ApplyTypes ==
  ASSUME TypeOK, NEW command \in AnyPlan \cup {Zero}, Apply(command)
  PROVE  /\ applied' \in AnyPlan \cup {Zero, Feedthrough}
         /\ feed' \in 0 .. NoFeed
         /\ plan' \in AnyPlan \cup {NoPlan}
<1>1. Aged \in 0 .. NoFeed /\ NoFeed \in 0 .. NoFeed
  BY AgedTypes, PipelineAssumption DEF NoFeed
<1>2. plan \in AnyPlan \cup {NoPlan} /\ Hold \in AnyPlan
  BY DEF TypeOK, AnyPlan
<1>3. CASE Aged <= FeedthroughTimeout
  BY <1>1, <1>2, <1>3 DEF Apply
<1>4. CASE ~(Aged <= FeedthroughTimeout)
  BY <1>1, <1>2, <1>4 DEF Apply
<1>5. QED
  BY <1>3, <1>4

-----------------------------------------------------------------------------
\* A cycle that gets past the outer controller and takes no step on, or one,
\* keeps the bounds.
LEMMA PastOuterBounds ==
  ASSUME PipelineInv, Count, missed' = (missed /\ ~OuterDue),
         NEW n \in 0 .. MaxSteps, n = IF OuterDue THEN 0 ELSE steps,
         steps' \in 0 .. n + 1,
         late' \in 0 .. MaxSteps,
         late' <= IF OuterDue THEN 0 ELSE late + 1
  PROVE  CounterBounds'
<1>1. Divisor \in Nat /\ MaxSteps \in Nat
  BY PipelineAssumption
<1>2. /\ counter \in Int /\ steps \in Nat /\ late \in Nat
      /\ counter \in -1 .. Ratio - 1 /\ CounterBounds
  BY PipelineAssumption DEF PipelineInv, TypeOK, Ratio
<1>3. CASE Divisor < 2
  <2>1. OuterDue
    BY <1>3 DEF OuterDue
  <2>2. steps' <= 1 /\ late' = 0
    BY <1>1, <2>1
  <2>3. QED
    BY <1>3, <2>2 DEF CounterBounds
<1>4. CASE Divisor >= 2 /\ OuterDue
  <2>1. counter' = 0 /\ steps' <= 1 /\ late' = 0
    BY <1>1, <1>4 DEF Count
  <2>2. QED
    BY <1>1, <1>4, <2>1 DEF CounterBounds
<1>5. CASE Divisor >= 2 /\ ~OuterDue
  <2>1. counter \in 0 .. Divisor - 2
    <3>1. Ratio = Divisor
      BY <1>1, <1>5 DEF Ratio
    <3>2. counter \in -1 .. Divisor - 1
      BY <1>2, <3>1
    <3>3. QED
      BY <1>5, <3>2, DueAtTheEnds
  <2>2. counter' = counter + 1
    BY <1>1, <1>5 DEF Count
  <2>3. SUFFICES ASSUME ~missed' PROVE steps' <= counter' + 1 /\ late' <= counter'
    BY <1>1, <1>5, <2>1, <2>2 DEF CounterBounds
  <2>4. ~missed
    BY <1>5, <2>3
  <2>5. steps <= counter + 1 /\ late <= counter
    BY <1>1, <1>2, <1>5, <2>1, <2>4 DEF CounterBounds
  <2>6. QED
    BY <1>1, <1>2, <1>5, <2>1, <2>2, <2>5
<1>6. QED
  BY <1>1, <1>3, <1>4, <1>5

LEMMA PipelineInvStep == PipelineInv /\ [Next]_vars => PipelineInv'
<1> SUFFICES ASSUME PipelineInv, [Next]_vars PROVE PipelineInv'
  OBVIOUS
<1>1. TypeOK /\ CounterBounds
  BY DEF PipelineInv
<1>2. Aged \in 0 .. NoFeed /\ MaxSteps \in Nat
  BY <1>1, AgedTypes, PipelineAssumption
<1>3. ASSUME Estimates PROVE initialized' \in BOOLEAN
  BY <1>1, <1>3 DEF Estimates, TypeOK
<1>4. CASE EstimatorFails
  BY <1>1, <1>2, <1>4 DEF EstimatorFails, PipelineInv, TypeOK, CounterBounds
<1>5. CASE SamplerFails
  BY <1>1, <1>2, <1>3, <1>5 DEF SamplerFails, PipelineInv, TypeOK, CounterBounds
<1>6. CASE OuterFails
  <2>1. counter' \in -1 .. Ratio - 1
    BY <1>1, <1>6, CountTypes DEF OuterFails
  <2>2. outer' \in AnyPlan \cup {NoPlan}
    BY <1>1, <1>6 DEF OuterFails, TypeOK
  <2>3. QED
    BY <1>1, <1>2, <1>3, <1>6, <2>1, <2>2
       DEF OuterFails, PipelineInv, TypeOK, CounterBounds
<1>7. ASSUME PastOuter
      PROVE  /\ counter' \in -1 .. Ratio - 1
             /\ outer' \in AnyPlan \cup {NoPlan}
             /\ outer' = Outer
             /\ missed' \in BOOLEAN
             /\ initialized' \in BOOLEAN
             /\ Count /\ missed' = (missed /\ ~OuterDue)
             /\ feed' = Aged
  <2>1. counter' \in -1 .. Ratio - 1
    BY <1>1, <1>7, CountTypes DEF PastOuter
  <2>2. outer' \in AnyPlan \cup {NoPlan}
    BY <1>1, <1>7 DEF PastOuter, Outer, TypeOK
  <2>3. QED
    BY <1>1, <1>3, <1>7, <2>1, <2>2 DEF PastOuter, TypeOK
<1> DEFINE n == IF OuterDue THEN 0 ELSE steps
<1>8. n \in 0 .. MaxSteps /\ Counted(n) \in 0 .. MaxSteps /\ Counted(n) <= n + 1
  BY <1>1, <1>2, CountedTypes DEF TypeOK
<1>9. late \in 0 .. MaxSteps /\ Counted(late) \in 0 .. MaxSteps
      /\ Counted(late) <= late + 1 /\ steps \in 0 .. MaxSteps
  BY <1>1, CountedTypes DEF TypeOK
<1>10. CASE InnerFails
  <2>1. PastOuter /\ steps' = n /\ late' = IF OuterDue THEN 0 ELSE late
    BY <1>10 DEF InnerFails
  <2>2. steps' \in 0 .. MaxSteps /\ steps' \in 0 .. n + 1
    BY <1>2, <1>8, <2>1
  <2>3. late' \in 0 .. MaxSteps /\ late' <= IF OuterDue THEN 0 ELSE late + 1
    BY <1>2, <1>9, <2>1
  <2>4. CounterBounds'
    BY <1>7, <1>8, <2>1, <2>2, <2>3, PastOuterBounds
  <2>5. QED
    BY <1>1, <1>2, <1>7, <1>10, <2>1, <2>2, <2>3, <2>4
       DEF InnerFails, PipelineInv, TypeOK
<1>11. CASE RunsIdle
  <2>1. Apply(Zero)
    BY <1>11 DEF RunsIdle
  <2>2. /\ applied' \in AnyPlan \cup {Zero, Feedthrough}
        /\ feed' \in 0 .. NoFeed
        /\ plan' \in AnyPlan \cup {NoPlan}
    BY <1>1, <2>1, ApplyTypes
  <2>3. late' = 0 /\ UNCHANGED <<counter, outer, steps, missed>>
    BY <1>11 DEF RunsIdle
  <2>4. initialized' \in BOOLEAN
    BY <1>3, <1>11 DEF RunsIdle
  <2>5. CounterBounds'
    BY <1>1, <2>3, PipelineAssumption DEF CounterBounds, TypeOK, Ratio
  <2>6. QED
    BY <1>1, <1>2, <2>2, <2>3, <2>4, <2>5 DEF PipelineInv, TypeOK
<1>12. CASE Flies
  <2> DEFINE command == IF Outer = NoPlan THEN Zero ELSE Outer
  <2>1. PastOuter /\ Apply(command) /\ steps' = Counted(n)
    BY <1>12 DEF Flies
  <2>2. command \in AnyPlan \cup {Zero}
    BY <1>1 DEF Outer, TypeOK
  <2>3. /\ applied' \in AnyPlan \cup {Zero, Feedthrough}
        /\ feed' \in 0 .. NoFeed
        /\ plan' \in AnyPlan \cup {NoPlan}
    <3> HIDE DEF command
    <3>1. QED
      BY <1>1, <2>1, <2>2, ApplyTypes
  <2>4. steps' \in 0 .. MaxSteps /\ steps' \in 0 .. n + 1
    BY <1>2, <1>8, <2>1
  <2>5. late' \in 0 .. MaxSteps /\ late' <= IF OuterDue THEN 0 ELSE late + 1
    BY <1>2, <1>9, <1>12 DEF Flies
  <2>6. CounterBounds'
    BY <1>7, <1>8, <2>1, <2>4, <2>5, PastOuterBounds
  <2>7. QED
    BY <1>7, <2>1, <2>3, <2>4, <2>5, <2>6 DEF PipelineInv, TypeOK
<1>13. ASSUME NEW p \in Plans \cup {NoPlan}, SetPlan(p) PROVE PipelineInv'
  <2>1. CounterBounds'
    BY <1>1, <1>13, PipelineAssumption DEF SetPlan, CounterBounds, TypeOK, Ratio
  <2>2. QED
    BY <1>1, <1>2, <1>13, <2>1 DEF SetPlan, PipelineInv, TypeOK, AnyPlan
<1>14. ASSUME NEW age \in 0 .. FeedthroughTimeout, SetFeedthroughCommand(age)
       PROVE  PipelineInv'
  BY <1>1, <1>14, PipelineAssumption
     DEF SetFeedthroughCommand, PipelineInv, TypeOK, CounterBounds, NoFeed
<1>15. CASE UNCHANGED vars
  BY <1>1, <1>15 DEF vars, PipelineInv, TypeOK, CounterBounds
<1>16. QED
  BY <1>4, <1>5, <1>6, <1>10, <1>11, <1>12, <1>13, <1>14, <1>15
     DEF Next, Run, Client

LEMMA PipelineInvariant == Spec => []PipelineInv
BY PipelineInvInit, PipelineInvStep, PTL DEF Spec

-----------------------------------------------------------------------------
\* The counter never leaves its range, and setpoints and commands are always
\* those of a plan, whatever fails and in whatever order clients call.
THEOREM TypeCorrect == Spec => []TypeOK
<1>1. PipelineInv => TypeOK
  BY DEF PipelineInv
<1>2. QED
  BY <1>1, PipelineInvariant, PTL

\* Without a failure of the outer controller no more inner steps follow an outer
\* step than the divisor says, for every divisor.
THEOREM DivisorIsKept == Spec => []StepsPerOuterSuccess
<1>1. PipelineInv => StepsPerOuterSuccess
  BY PipelineAssumption
     DEF PipelineInv, TypeOK, CounterBounds, StepsPerOuterSuccess, Ratio
<1>2. QED
  BY <1>1, PipelineInvariant, PTL

\* Without a failure of the outer controller a replaced plan gets fewer commands
\* than the divisor says, for every divisor.
THEOREM PlansTakeOver == Spec => []NewPlanTakesOver
<1>1. PipelineInv => NewPlanTakesOver
  BY PipelineAssumption
     DEF PipelineInv, TypeOK, CounterBounds, NewPlanTakesOver, Ratio
<1>2. QED
  BY <1>1, PipelineInvariant, PTL

=============================================================================
