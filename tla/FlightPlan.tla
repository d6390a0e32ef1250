------------------------------ MODULE FlightPlan ------------------------------
(***************************************************************************)
(* What a vehicle is told to fly: the reference queue of one agi::Pipeline *)
(* under the commands of agi::Pilot (src/agilib/src/pilot/pilot.cpp), with *)
(* Pipeline::run sampling and expiring the queue at every cycle.           *)
(*                                                                         *)
(* Commands come between two cycles, any number of them, and see the state *)
(* of the last cycle (Pipeline::getState()).  Only the estimate that       *)
(* start() and setVelocityReference() ask for may be newer.  A cycle whose *)
(* estimator fails changes nothing.                                        *)
(***************************************************************************)
EXTENDS References

CONSTANTS
  MaxDuration,   \* bound: the longest trajectory, in cycles
  MaxTime,       \* bound: the clock stops here
  MaxRefs        \* bound: no command is given to a queue this long

ASSUME FlightPlanAssumption ==
  /\ MaxDuration \in Nat \ {0}
  /\ MaxTime \in Nat /\ MaxTime + 2 * MaxDuration < Inf
  /\ MaxRefs \in Nat \ {0}

VARIABLES
  now,   \* pipeline_.state_.t, the time of the last cycle
  refs   \* references_

vars == <<now, refs>>

TypeOK ==
  /\ now \in 0 .. MaxTime
  /\ IsPlan(refs)

Init ==
  /\ now = 0
  /\ refs = <<>>

-----------------------------------------------------------------------------
\* VelocityReference::updateTo: a velocity reference that is sampled moves its
\* start to the time of the query.  It is sampled only while it is the last one:
\* what follows it was inserted at a cycle that has passed.
MoveStart(plan, time) ==
  IF Back(plan).kind = "velocity" /\ Owner(plan, time) = Back(plan)
  THEN [plan EXCEPT ![Len(plan)].start = IF @ < time THEN time ELSE @]
  ELSE plan

\* One cycle: the queue is sampled, then what has ended is expired.
Run ==
  /\ now < MaxTime
  /\ now' = now + 1
  /\ refs' = IF refs = <<>> THEN refs ELSE Expire(MoveStart(refs, now'), now')

\* A cycle that ends early: the sampler or a controller failed, nothing expires.
RunFails ==
  /\ now < MaxTime
  /\ refs # <<>>
  /\ now' = now + 1
  /\ refs' \in {refs, MoveStart(refs, now')}

\* A cycle that applies a feedthrough command (with stop_after_feedthrough_): a
\* hover in the state estimate replaces the queue.
RunFeedthrough(goal) ==
  /\ now < MaxTime
  /\ now' = now + 1
  /\ refs' = <<Hover(now', goal)>>

-----------------------------------------------------------------------------
(***************************************************************************)
(* Commands                                                                *)
(***************************************************************************)
CanCommand == Len(refs) < MaxRefs

\* A trajectory takes as long as the caller says, or its distance and speed.
Durations == 1 .. MaxDuration

Add(ref) == refs' = AppendTo(refs, ref) /\ UNCHANGED now

\* start() in the air: a hover where the vehicle is.
StartHandheld(time, goal) ==
  /\ CanCommand
  /\ time \in now .. now + 1
  /\ Add(Hover(time, goal))

\* start() on the ground: a trajectory to the take-off height.
StartTakeoff(time, duration, goal) ==
  /\ CanCommand
  /\ time \in now .. now + 1
  /\ Add(Trajectory(time, time + duration, goal))

\* Where a polynomial trajectory starts: at the end of the plan, or now if the
\* plan has no end or has ended.
NextStart == IF IsEndless(Back(refs)) \/ Back(refs).end < now
             THEN now ELSE Back(refs).end

\* goToPose() and addPolynomialTrajectory(end_state, duration).
GoToPose(duration, goal) ==
  /\ refs # <<>>
  /\ CanCommand
  /\ Add(Trajectory(NextStart, NextStart + duration, goal))

\* addSampledTrajectory(), and addPolynomialTrajectory() through waypoints:
\* the times are the caller's.
AddTrajectory(start, duration, goal) ==
  /\ CanCommand
  /\ Add(Trajectory(start, start + duration, goal))

\* addHover() without a start time: at the end of the plan, or now.
AddHover(goal) ==
  /\ refs # <<>>
  /\ CanCommand
  /\ Add(Hover(IF IsEndless(Back(refs)) THEN now ELSE Back(refs).end, goal))

\* addHover() with a start time.
AddHoverAt(start, goal) ==
  /\ CanCommand
  /\ Add(Hover(start, goal))

\* setVelocityReference() when the only reference is a hover; while the first
\* reference is a velocity reference already, only its velocity changes.
SetVelocityReference(time, goal) ==
  /\ Len(refs) = 1
  /\ CanCommand
  /\ refs[1].kind = "hover"
  /\ time \in now .. now + 1
  /\ Add(Velocity(time, goal))

\* The vehicle is where a hover keeps it, else anywhere.
AtPose(goal) ==
  refs # <<>> /\ Sample(refs, now).arrived => goal = Sample(refs, now).goal

\* forceHover(), also what land() does while the first reference is no hover.
ForceHover(goal) ==
  /\ CanCommand
  /\ AtPose(goal)
  /\ refs' = InsertInto(refs, Hover(now, goal))
  /\ UNCHANGED now

\* land() from a hover.
Land(duration, goal) ==
  /\ refs # <<>>
  /\ CanCommand
  /\ refs[1].kind = "hover"
  /\ refs' = InsertInto(refs, Trajectory(now, now + duration, goal))
  /\ UNCHANGED now

Off ==
  /\ refs' = <<>>
  /\ UNCHANGED now

HoverCommand(goal) ==
  \/ \E time \in now .. now + 1 : StartHandheld(time, goal)
  \/ \E start \in 0 .. MaxTime : AddHoverAt(start, goal)
  \/ AddHover(goal)
  \/ ForceHover(goal)

TrajectoryCommand(duration, goal) ==
  \/ \E time \in now .. now + 1 : StartTakeoff(time, duration, goal)
  \/ \E start \in 0 .. MaxTime : AddTrajectory(start, duration, goal)
  \/ GoToPose(duration, goal)
  \/ Land(duration, goal)

Command(goal) ==
  \/ \E duration \in Durations : TrajectoryCommand(duration, goal)
  \/ \E time \in now .. now + 1 : SetVelocityReference(time, goal)
  \/ HoverCommand(goal)

Next ==
  \/ Run
  \/ RunFails
  \/ Off
  \/ \E goal \in Goals : RunFeedthrough(goal) \/ Command(goal)

Spec == Init /\ [][Next]_vars

-----------------------------------------------------------------------------
(***************************************************************************)
(* Properties                                                              *)
(***************************************************************************)

\* insertReference searches the queue by start times with std::lower_bound:
\* whatever was appended, inserted, truncated and expired, it is ordered.
StartsOrdered == StartOrdered(refs)

Times == 0 .. MaxTime + 2 * MaxDuration

\* Two queues make the vehicle fly the same at a time.
SameAt(plan1, plan2, time) == Sample(plan1, time) = Sample(plan2, time)

\* What TimeSampler::getAt needs for its std::lower_bound at a time: what has
\* ended is in front of what has not.
Searchable(plan, time) ==
  \E n \in 0 .. Len(plan) :
    \A i \in 1 .. Len(plan) : i <= n <=> plan[i].end <= time

\* Pipeline::run's bookkeeping never changes what is flown: removing an ended
\* reference, or appending the final hover, leaves every setpoint from this
\* cycle on as the queue had it before, as long as the sampler can search it.
ExpireKeepsPlan ==
  [][Run /\ refs # <<>> =>
       \A time \in Times :
         time >= now' /\ Searchable(refs, time) => SameAt(refs, refs', time)]_vars

\* The times at which a plan may not change when something is appended at
\* start: not before it, nor while the plan it is appended to still lasts.
Untouched(plan, start, time) ==
  IF IsEndless(Back(plan)) THEN time < start
  ELSE time < start /\ time < Back(plan).end

\* appendReference only adds: it never changes what is flown before the new
\* reference starts, up to the end of what was planned.  If the queue cannot be
\* searched it may: in a queue of six, one reference more moves the halves.
AppendKeepsPlan ==
  [][\A goal \in Goals, start \in Times, duration \in Durations :
       refs # <<>> /\ (AddTrajectory(start, duration, goal) \/ AddHoverAt(start, goal)) =>
         \A time \in Times :
           time > now /\ Untouched(refs, start, time) /\ Searchable(refs, time)
             => SameAt(refs, refs', time)]_vars

\* What is planned is flown: neither the cycle's bookkeeping nor a reference that
\* is added behind it changes it.
PlanIsKept == ExpireKeepsPlan /\ AppendKeepsPlan

\* The plan, as it will be sampled from the next cycle on, never steps from one
\* hover pose to another without a trajectory in between.
NoJumpAhead(plan, from) ==
  \A time \in Times :
    /\ time > from
    /\ Sample(plan, time).arrived
    /\ Sample(plan, time + 1).arrived
    => Sample(plan, time).goal = Sample(plan, time + 1).goal

\* pilot.cpp:237: goToPose avoids big jumps in the reference.  It does not if
\* the last hover starts in this very cycle: truncate() refuses, the hover stays
\* endless and the new trajectory starts with a jump.  No run checks this.
GoToPoseAvoidsJumps ==
  [][\A goal \in Goals, duration \in Durations :
       GoToPose(duration, goal) /\ NoJumpAhead(refs, now) => NoJumpAhead(refs', now)]_vars

EndsOrdered == \A i, j \in DOMAIN refs : i < j => refs[i].end <= refs[j].end

\* The vehicle flies the last reference, and not only since this cycle.
FliesLast == Back(refs).start < now /\ Search(refs, now) >= Len(refs) - 1

\* goToPose avoids jumps if the queue can be searched and the vehicle flies the
\* last reference if that is endless.
LateGoToPoseAvoidsJumps ==
  [][\A goal \in Goals, duration \in Durations :
       /\ GoToPose(duration, goal)
       /\ EndsOrdered
       /\ IsEndless(Back(refs)) => FliesLast
       /\ NoJumpAhead(refs, now)
       => NoJumpAhead(refs', now)]_vars

\* From the next cycle on the plan holds a pose.
Holds(plan, goal) ==
  \A time \in Times :
    time > now => Sample(plan, time) = [goal |-> goal, arrived |-> TRUE]

\* The vehicle is on its way to the end of a trajectory.
OnTrajectory ==
  /\ refs # <<>>
  /\ LET ref == Owner(refs, now)
     IN ref.kind = "trajectory" /\ ref.start < now /\ now < ref.end

\* pilot.cpp:184, "Initiating force hover!": forceHover() ends a trajectory that
\* is under way, and from the next cycle on the vehicle hovers.
ForceHoverTakesOver ==
  [][\A goal \in Goals : OnTrajectory /\ ForceHover(goal) => Holds(refs', goal)]_vars

\* forceHover takes effect at once if the vehicle flies the last reference, and
\* the sampler could tell.
LastForceHoverTakesOver ==
  [][\A goal \in Goals :
       /\ ForceHover(goal)
       /\ refs # <<>> => FliesLast /\ Searchable(refs, now)
       => Holds(refs', goal)]_vars

\* Two commands of Pilot do what they say, as far as the queue lets them:
\* goToPose() avoids jumps and forceHover() takes effect.
CommandsTakeEffect == LateGoToPoseAvoidsJumps /\ LastForceHoverTakesOver

=============================================================================
