------------------------------ MODULE References ------------------------------
(***************************************************************************)
(* The reference queue of agi::Pipeline as pure operators: what a queue of *)
(* references makes the vehicle fly, and how appending, inserting and      *)
(* expiring references change it (src/agilib/src/base/pipeline.cpp,        *)
(* reference_base.cpp, time_sampler.cpp).                                  *)
(*                                                                         *)
(* A reference is abstracted to its kind, its time range and the pose it   *)
(* ends in (a hover stays there, a trajectory arrives there at its end).   *)
(* Time is discrete; Inf stands for the infinite duration of hover and     *)
(* velocity references and exceeds every finite time.                      *)
(***************************************************************************)
EXTENDS Integers, Sequences

CONSTANTS
  Goals,     \* poses
  Inf        \* infinity

ASSUME InfAssumption == Inf \in Nat

Kinds == {"hover", "trajectory", "velocity"}

Reference == [kind : Kinds, start : Nat, end : Nat, goal : Goals]

Hover(start, goal) ==
  [kind |-> "hover", start |-> start, end |-> Inf, goal |-> goal]

Trajectory(start, end, goal) ==
  [kind |-> "trajectory", start |-> start, end |-> end, goal |-> goal]

Velocity(start, goal) ==
  [kind |-> "velocity", start |-> start, end |-> Inf, goal |-> goal]

Back(refs) == refs[Len(refs)]

\* getEndTime() of a reference whose end is not finite.
IsEndless(ref) == ref.end >= Inf

\* A plan: no reference ends before it starts, and they are ordered by start.
IsPlan(refs) ==
  /\ refs \in Seq(Reference)
  /\ \A i \in DOMAIN refs : refs[i].start <= refs[i].end

StartOrdered(refs) ==
  \A i, j \in DOMAIN refs : i < j => refs[i].start <= refs[j].start

InRange(ref, time) == ref.start <= time /\ time <= ref.end

-----------------------------------------------------------------------------
(***************************************************************************)
(* ReferenceBase::truncate: a time not after the start changes nothing.    *)
(***************************************************************************)
\* Mutated forms of Truncate: it never shortens; it takes the duration for the
\* end time.
TruncateNever(ref, time) == ref

TruncateToDuration(ref, time) ==
  IF time <= ref.start THEN ref ELSE [ref EXCEPT !.end = time - ref.start]

Truncate(ref, time) ==
  IF time <= ref.start THEN ref ELSE [ref EXCEPT !.end = time]

(***************************************************************************)
(* Pipeline::appendReference.  The queue is left alone when the reference  *)
(* starts before the last one ends, unless that one is a hover.            *)
(***************************************************************************)
CanAppend(refs, ref) ==
  \/ refs = <<>>
  \/ ref.start >= Back(refs).end
  \/ Back(refs).kind = "hover" /\ InRange(Back(refs), ref.start)

\* Mutated forms of AppendTo: a reference that starts too early is appended
\* all the same; a last hover is replaced instead of cut short.
AppendAlways(refs, ref) == Append(refs, ref)

AppendReplacing(refs, ref) ==
  IF ~CanAppend(refs, ref) THEN refs
  ELSE IF refs = <<>> \/ Back(refs).kind # "hover" THEN Append(refs, ref)
  ELSE Append(SubSeq(refs, 1, Len(refs) - 1), ref)

AppendTo(refs, ref) ==
  IF ~CanAppend(refs, ref) THEN refs
  ELSE IF refs = <<>> \/ ref.start >= Back(refs).end THEN Append(refs, ref)
  ELSE Append([refs EXCEPT ![Len(refs)] = Truncate(@, ref.start)], ref)

(***************************************************************************)
(* Pipeline::insertReference.  std::lower_bound on a queue ordered by      *)
(* start times returns the number of references that start before the new  *)
(* one; these are kept.  It is the last reference of the OLD queue that is *)
(* truncated (pipeline.cpp:223), in the new queue only if it was kept.     *)
(***************************************************************************)
StartsBefore(refs, time) ==
  CHOOSE n \in 0 .. Len(refs) :
    \A i \in 1 .. Len(refs) : (i <= n) <=> (refs[i].start < time)

\* Mutated form of InsertInto: no reference is truncated.
InsertUncut(refs, ref) ==
  Append(SubSeq(refs, 1, StartsBefore(refs, ref.start)), ref)

InsertInto(refs, ref) ==
  IF refs = <<>> \/ ref.start >= Back(refs).end
  THEN Append(refs, ref)
  ELSE LET kept == StartsBefore(refs, ref.start)
           cut  == [refs EXCEPT ![Len(refs)] = Truncate(@, ref.start)]
       IN Append(SubSeq(cut, 1, kept), ref)

(***************************************************************************)
(* The end of Pipeline::run: a first reference that ended is removed if    *)
(* there is another one, and followed by a hover in its end pose if not.   *)
(***************************************************************************)
\* Mutated form of Expire: it looks at the start of the first reference.
ExpireStarted(refs, time) ==
  IF Len(refs) > 1 /\ refs[1].start < time THEN Tail(refs) ELSE refs

Expire(refs, time) ==
  IF refs = <<>> \/ refs[1].end >= time THEN refs
  ELSE IF Len(refs) > 1 THEN Tail(refs)
  ELSE AppendTo(refs, Hover(time, refs[1].goal))

-----------------------------------------------------------------------------
(***************************************************************************)
(* TimeSampler::getAt picks the reference to fly with std::lower_bound on  *)
(* end times, which are NOT always ordered; the search is therefore        *)
(* modelled as the library performs it, halving the range [first, first +  *)
(* len) of 0-based positions.  The result is the position found.           *)
(***************************************************************************)
Search(refs, time) ==
  LET N == Len(refs)
      Ranges == {range \in (0 .. N) \X (0 .. N) : range[1] + range[2] <= N}
      search[range \in Ranges] ==
        LET first == range[1]
            len   == range[2]
            half  == len \div 2
        IN IF len = 0 THEN first
           ELSE IF refs[first + half + 1].end <= time
           THEN search[<<first + half + 1, len - half - 1>>]
           ELSE search[<<first, half>>]
  IN search[<<0, N>>]

\* The reference flown at a time; past the end of all, the last one.
Owner(refs, time) ==
  LET n == Search(refs, time)
  IN IF n = Len(refs) THEN Back(refs) ELSE refs[n + 1]

\* The first setpoint sampled at a time: the pose the reference leads to, and
\* whether it is that pose already or a setpoint on the way.  A query past the
\* end of a trajectory is clamped to its end.
Sample(refs, time) ==
  LET ref == Owner(refs, time)
  IN [goal |-> ref.goal,
      arrived |-> \/ ref.kind = "hover"
                  \/ ref.kind = "trajectory" /\ time >= ref.end]

=============================================================================
