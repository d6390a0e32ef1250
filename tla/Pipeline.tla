------------------------------- MODULE Pipeline -------------------------------
(***************************************************************************)
(* agi::Pipeline::run (src/agilib/src/base/pipeline.cpp): one control      *)
(* cycle carries a plan through estimator, sampler, outer controller and   *)
(* inner controller to a command, unless a feedthrough command overrides   *)
(* it.  Every stage may fail and then ends the cycle.                      *)
(*                                                                         *)
(* The outer controller runs in every outerloop_divisor_-th cycle only;    *)
(* what it computed is kept in setpoints_outer_ for the cycles between.    *)
(* The model follows which plan a command was computed for.  A plan is an  *)
(* abstract value (its references are in module FlightPlan); time is       *)
(* counted in cycles.                                                      *)
(***************************************************************************)
EXTENDS Integers

CONSTANTS
  Plans,                \* plans a client can give
  Divisor,              \* outerloop_divisor_
  HasInner,             \* an inner controller is configured
  StopAfterFeedthrough, \* stop_after_feedthrough_
  FeedthroughTimeout,   \* feedthrough_timeout_, in cycles
  MaxSteps              \* bound: the history counters stop here

ASSUME PipelineAssumption ==
  /\ Divisor \in Nat
  /\ HasInner \in BOOLEAN
  /\ StopAfterFeedthrough \in BOOLEAN
  /\ FeedthroughTimeout \in Nat
  /\ MaxSteps \in Nat /\ MaxSteps > Divisor /\ MaxSteps > 1

NoPlan == "none"          \* no references; empty setpoints
Hold == "hold"            \* the hover set by a feedthrough command
Zero == "zero"            \* Command(t): no thrust
Feedthrough == "feedthrough"

AnyPlan == Plans \cup {Hold}

ASSUME PlansAssumption == Plans \cap {NoPlan, Hold, Zero, Feedthrough} = {}

VARIABLES
  initialized,   \* initialized_
  plan,          \* references_
  counter,       \* outerloop_counter_
  outer,         \* the plan setpoints_outer_ were computed for
  feed,          \* age of feedthrough_command_; NoFeed if it is invalid
  applied,       \* apply_command_: the plan it was computed for, or its kind
  steps,         \* history: inner steps since the outer controller succeeded
  missed,        \* history: the outer controller failed since it succeeded
  late           \* history: commands of another plan since this one was set

vars == <<initialized, plan, counter, outer, feed, applied, steps, missed, late>>

NoFeed == FeedthroughTimeout + 1   \* as good as timed out

\* Outer steps per inner step, as configured: a divisor below 2 is none.
Ratio == IF Divisor < 2 THEN 1 ELSE Divisor

TypeOK ==
  /\ initialized \in BOOLEAN
  /\ plan \in AnyPlan \cup {NoPlan}
  /\ counter \in -1 .. Ratio - 1
  /\ outer \in AnyPlan \cup {NoPlan}
  /\ feed \in 0 .. NoFeed
  /\ applied \in AnyPlan \cup {Zero, Feedthrough}
  /\ steps \in 0 .. MaxSteps
  /\ missed \in BOOLEAN
  /\ late \in 0 .. MaxSteps

Init ==
  /\ initialized = FALSE
  /\ plan = NoPlan
  /\ counter = -1
  /\ outer = NoPlan
  /\ feed = NoFeed
  /\ applied = Zero
  /\ steps = 0
  /\ missed = FALSE
  /\ late = 0

Counted(n) == IF n < MaxSteps THEN n + 1 ELSE n

-----------------------------------------------------------------------------
(***************************************************************************)
(* One cycle.  A feedthrough command ages by a cycle, whatever happens.    *)
(***************************************************************************)
\* Mutated form of Aged: the command keeps the age it was given with.
AgesNever == feed

Aged == IF feed < NoFeed THEN feed + 1 ELSE feed

\* Mutated form of OuterDue: the outer controller waits a cycle too long.
OuterDueLate == Divisor < 2 \/ (counter + 1) % (Divisor + 1) = 0

OuterDue == Divisor < 2 \/ (counter + 1) % Divisor = 0

\* Mutated form of Count: the counter is not reset.
CountOn == counter' = IF Divisor < 2 THEN counter ELSE counter + 1

\* Whether or not the outer controller succeeds, its turn is over.
Count == counter' = IF Divisor < 2 THEN counter
                    ELSE IF OuterDue THEN 0 ELSE counter + 1

\* An estimator that has succeeded once and fails ends the cycle; until then
\* the cycle goes on with whatever state there is.
EstimatorFails ==
  /\ initialized
  /\ feed' = Aged
  /\ UNCHANGED <<initialized, plan, counter, outer, applied, steps, missed, late>>

Estimates == \E ok \in BOOLEAN : /\ initialized => ok
                                 /\ initialized' = (initialized \/ ok)

SamplerFails ==
  /\ Estimates
  /\ plan # NoPlan
  /\ feed' = Aged
  /\ UNCHANGED <<plan, counter, outer, applied, steps, missed, late>>

\* MPC leaves the old setpoints in place when it fails, the geometric
\* controller has cleared them.
OuterFails ==
  /\ Estimates
  /\ plan # NoPlan
  /\ OuterDue
  /\ Count
  /\ outer' \in {outer, NoPlan}
  /\ missed' = TRUE
  /\ feed' = Aged
  /\ UNCHANGED <<plan, applied, steps, late>>

\* The outer setpoints of this cycle: new ones if they are due.
Outer == IF OuterDue THEN plan ELSE outer

\* What both ways of getting past the outer controller have in common.
PastOuter ==
  /\ Estimates
  /\ plan # NoPlan
  /\ Count
  /\ outer' = Outer
  /\ missed' = (missed /\ ~OuterDue)
  /\ feed' = Aged

\* Inner controllers fail, at least, when they are given no setpoints.
InnerFails ==
  /\ HasInner
  /\ PastOuter
  /\ steps' = IF OuterDue THEN 0 ELSE steps
  /\ late' = IF OuterDue THEN 0 ELSE late
  /\ UNCHANGED <<plan, applied>>

(***************************************************************************)
(* The end of a cycle that computed command: a feedthrough command that    *)
(* has not timed out is sent instead, and a hover becomes the plan.        *)
(***************************************************************************)
Apply(command) ==
  IF Aged <= FeedthroughTimeout
  THEN /\ applied' = Feedthrough
       /\ feed' = Aged
       /\ plan' = IF StopAfterFeedthrough THEN Hold ELSE plan
  ELSE /\ applied' = command
       /\ feed' = NoFeed
       /\ plan' = plan

\* Nothing is planned: no thrust.
RunsIdle ==
  /\ Estimates
  /\ plan = NoPlan
  /\ Apply(Zero)
  /\ late' = 0
  /\ UNCHANGED <<counter, outer, steps, missed>>

Flies ==
  /\ PastOuter
  /\ HasInner => Outer # NoPlan
  /\ Apply(IF Outer = NoPlan THEN Zero ELSE Outer)
  /\ steps' = Counted(IF OuterDue THEN 0 ELSE steps)
  /\ late' = IF plan' # plan \/ OuterDue THEN 0
             ELSE IF applied' \in AnyPlan \ {plan} THEN Counted(late) ELSE late

Run ==
  \/ EstimatorFails
  \/ SamplerFails
  \/ OuterFails
  \/ InnerFails
  \/ RunsIdle
  \/ Flies

-----------------------------------------------------------------------------
(***************************************************************************)
(* Clients                                                                 *)
(***************************************************************************)
\* A reference is appended or inserted, or all are cleared.
SetPlan(p) ==
  /\ plan # p
  /\ plan' = p
  /\ late' = 0
  /\ UNCHANGED <<initialized, counter, outer, feed, applied, steps, missed>>

\* setFeedthroughCommand(); the command carries the time its sender gave it.
SetFeedthroughCommand(age) ==
  /\ feed' = age
  /\ UNCHANGED <<initialized, plan, counter, outer, applied, steps, missed, late>>

Client ==
  \/ \E p \in Plans \cup {NoPlan} : SetPlan(p)
  \/ \E age \in 0 .. FeedthroughTimeout : SetFeedthroughCommand(age)

Next == Run \/ Client

Spec == Init /\ [][Next]_vars

\* Cycles go on (a ROS timer, the SITL loop), and a cycle whose turn it is to
\* run the outer controller does not fail every time.
FairSpec == Spec /\ WF_vars(Run) /\ SF_vars(Flies /\ OuterDue)

-----------------------------------------------------------------------------
(***************************************************************************)
(* Properties                                                              *)
(***************************************************************************)

\* The divisor is kept as long as the outer controller does not fail, although
\* cycles end early, references are cleared and set, and counting stops
\* whenever nothing is planned.
StepsPerOuterSuccess == ~missed => steps <= Ratio

\* A new plan takes over: after it was set (by a client, or by a feedthrough
\* command) fewer than Divisor commands computed for an older plan are sent.
NewPlanTakesOver == ~missed => late < Ratio

\* pipeline.cpp:136: a feedthrough commander that falls silent loses control.
\* Left alone by all its clients the pipeline ends up sending commands of the
\* current plan (the hover, if that was set last) or no thrust, and neither the
\* feedthrough command nor what was computed for an older plan.
SettlesOnPlan == <>[][Run]_vars => <>[](applied \in {plan, Zero})

=============================================================================
