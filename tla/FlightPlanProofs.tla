--------------------------- MODULE FlightPlanProofs ---------------------------
(***************************************************************************)
(* The reference queue stays a plan ordered by start times, for every set  *)
(* of poses, every duration, every length of the queue and every horizon.  *)
(*                                                                         *)
(* The lemmas are about the operators of References, one for each way the  *)
(* code changes the queue; the theorems put them together.  What is flown  *)
(* at a time is what a binary search of the queue finds: SearchFinds says  *)
(* what that is when the queue can be searched.                            *)
(***************************************************************************)
EXTENDS FlightPlan, TLAPS, SequenceTheorems, WellFoundedInduction

\* What the lemmas preserve.
OrderedPlan(plan) == IsPlan(plan) /\ StartOrdered(plan)

TimedReference == {ref \in Reference : ref.start <= ref.end}

LEMMA PlanElement ==
  ASSUME NEW plan, IsPlan(plan), NEW i \in 1 .. Len(plan)
  PROVE  plan[i] \in TimedReference
BY DEF IsPlan, TimedReference

-----------------------------------------------------------------------------
\* Truncating a reference leaves its start, and its end after its start.
LEMMA TruncateTimed ==
  ASSUME NEW ref \in TimedReference, NEW time \in Nat
  PROVE  /\ Truncate(ref, time) \in TimedReference
         /\ Truncate(ref, time).start = ref.start
BY DEF Truncate, TimedReference, Reference

\* Truncating the last reference keeps an ordered plan one.
LEMMA TruncateBackOrdered ==
  ASSUME NEW plan, OrderedPlan(plan), plan # <<>>, NEW time \in Nat
  PROVE  LET cut == [plan EXCEPT ![Len(plan)] = Truncate(@, time)]
         IN /\ OrderedPlan(cut)
            /\ Len(cut) = Len(plan)
            /\ \A i \in 1 .. Len(plan) : cut[i].start = plan[i].start
<1> DEFINE cut == [plan EXCEPT ![Len(plan)] = Truncate(@, time)]
           last == Truncate(plan[Len(plan)], time)
<1>1. plan \in Seq(Reference) /\ Len(plan) \in 1 .. Len(plan)
  BY DEF OrderedPlan, IsPlan
<1>2. last \in TimedReference /\ last.start = plan[Len(plan)].start
  BY <1>1, TruncateTimed, PlanElement DEF OrderedPlan
<1>3. cut \in Seq(Reference) /\ Len(cut) = Len(plan)
  BY <1>1, <1>2 DEF TimedReference
<1>4. \A i \in 1 .. Len(plan) : cut[i] = IF i = Len(plan) THEN last ELSE plan[i]
  BY <1>1
<1>5. \A i \in 1 .. Len(plan) :
        cut[i].start = plan[i].start /\ cut[i].start <= cut[i].end
  BY <1>1, <1>2, <1>4, PlanElement DEF TimedReference, OrderedPlan
<1>6. IsPlan(cut)
  <2>1. DOMAIN cut = 1 .. Len(plan)
    BY <1>1, <1>3, LenProperties
  <2>2. QED
    BY ZenonT(60), <1>3, <1>5, <2>1 DEF IsPlan
<1>7. StartOrdered(cut)
  BY ZenonT(60), <1>1, <1>3, <1>5 DEF StartOrdered, OrderedPlan
<1>8. QED
  BY ZenonT(60), <1>3, <1>5, <1>6, <1>7 DEF OrderedPlan

\* A reference that starts no earlier than the last one can be put behind it.
LEMMA AppendOrdered ==
  ASSUME NEW plan, OrderedPlan(plan), NEW ref \in TimedReference,
         \A i \in 1 .. Len(plan) : plan[i].start <= ref.start
  PROVE  OrderedPlan(Append(plan, ref))
<1> DEFINE new == Append(plan, ref)
<1>1. plan \in Seq(Reference) /\ ref \in Reference
  BY DEF OrderedPlan, IsPlan, TimedReference
<1>2. /\ new \in Seq(Reference)
      /\ Len(new) = Len(plan) + 1
      /\ \A i \in 1 .. Len(plan) : new[i] = plan[i]
      /\ new[Len(plan) + 1] = ref
  BY <1>1, AppendProperties
<1>3. IsPlan(new)
  BY <1>1, <1>2 DEF IsPlan, OrderedPlan, TimedReference
<1>4. ASSUME NEW i \in DOMAIN new, NEW j \in DOMAIN new, i < j
      PROVE  new[i].start <= new[j].start
  <2>1. i \in 1 .. Len(plan) /\ j \in 1 .. Len(plan) + 1
    BY <1>1, <1>2, <1>4
  <2>2. CASE j = Len(plan) + 1
    BY <1>2, <2>1, <2>2
  <2>3. CASE j \in 1 .. Len(plan)
    BY <1>1, <1>2, <1>4, <2>1, <2>3 DEF OrderedPlan, StartOrdered
  <2>4. QED
    BY <1>1, <2>1, <2>2, <2>3
<1>5. QED
  BY <1>3, <1>4 DEF OrderedPlan, StartOrdered

\* A prefix, and the tail, of an ordered plan is one.
LEMMA PartOrdered ==
  ASSUME NEW plan, OrderedPlan(plan), NEW m \in 1 .. Len(plan) + 1,
         NEW n \in 0 .. Len(plan)
  PROVE  OrderedPlan(SubSeq(plan, m, n))
<1> DEFINE part == SubSeq(plan, m, n)
<1>1. plan \in Seq(Reference)
  BY DEF OrderedPlan, IsPlan
<1>2. /\ part \in Seq(Reference)
      /\ Len(part) = IF m <= n THEN n - m + 1 ELSE 0
      /\ \A i \in 1 .. n - m + 1 : part[i] = plan[m + i - 1]
  BY <1>1, SubSeqProperties
<1>3. \A i \in DOMAIN part : /\ m + i - 1 \in 1 .. Len(plan)
                             /\ part[i] = plan[m + i - 1]
  BY <1>1, <1>2
<1>4. IsPlan(part)
  BY SMTT(30), <1>1, <1>2, <1>3 DEF IsPlan, OrderedPlan
<1>5. ASSUME NEW i \in DOMAIN part, NEW j \in DOMAIN part, i < j
      PROVE  part[i].start <= part[j].start
  <2>1. i \in Int /\ j \in Int
    BY <1>2
  <2>2. m + i - 1 < m + j - 1
    BY <1>5, <2>1
  <2>3. plan[m + i - 1].start <= plan[m + j - 1].start
    BY <1>1, <1>3, <2>2 DEF StartOrdered, OrderedPlan
  <2>4. QED
    BY <1>3, <2>3
<1>6. QED
  BY <1>4, <1>5 DEF OrderedPlan, StartOrdered

-----------------------------------------------------------------------------
\* std::lower_bound on an ordered queue: exactly the references before the
\* position it returns start before the time asked for.
LEMMA StartsBeforePartitions ==
  ASSUME NEW plan, OrderedPlan(plan), NEW time \in Nat
  PROVE  /\ StartsBefore(plan, time) \in 0 .. Len(plan)
         /\ \A i \in 1 .. Len(plan) :
              (i <= StartsBefore(plan, time)) <=> (plan[i].start < time)
<1>1. plan \in Seq(Reference) /\ Len(plan) \in Nat
  BY DEF OrderedPlan, IsPlan
<1>2. \A i \in 1 .. Len(plan) : plan[i].start \in Nat
  BY PlanElement DEF OrderedPlan, TimedReference, Reference
<1> DEFINE late == {i \in 1 .. Len(plan) : time <= plan[i].start}
<1>3. \E n \in 0 .. Len(plan) :
        \A i \in 1 .. Len(plan) : (i <= n) <=> (plan[i].start < time)
  <2>1. CASE late = {}
    <3>1. \A i \in 1 .. Len(plan) : i <= Len(plan) /\ plan[i].start < time
      BY <1>1, <1>2, <2>1
    <3>2. Len(plan) \in 0 .. Len(plan)
      BY <1>1
    <3>3. QED
      BY <3>1, <3>2
  <2>2. CASE late # {}
    <3>1. late \subseteq Nat
      BY <1>1
    <3>2. PICK first \in late : \A j \in late : ~(<<j, first>> \in OpToRel(<, Nat))
      BY ZenonT(60), <2>2, <3>1, NatLessThanWellFounded, WFMin
    <3>3. \A j \in late : first <= j
      <4>1. ASSUME NEW j \in late, j < first PROVE FALSE
        <5>1. <<j, first>> \in OpToRel(<, Nat)
          BY <3>1, <4>1 DEF OpToRel
        <5>2. QED
          BY ZenonT(60), <3>2, <4>1, <5>1
      <4>2. QED
        BY <3>1, <4>1
    <3>4. \A i \in 1 .. Len(plan) : (i <= first - 1) <=> (plan[i].start < time)
      <4>1. ASSUME NEW i \in 1 .. Len(plan), i <= first - 1
            PROVE  plan[i].start < time
        BY <1>1, <1>2, <3>3, <4>1
      <4>2. ASSUME NEW i \in 1 .. Len(plan), first <= i
            PROVE  time <= plan[i].start
        <5>1. plan[first].start <= plan[i].start
          BY <1>1, <1>2, <4>2 DEF OrderedPlan, StartOrdered
        <5>2. QED
          BY <1>1, <1>2, <5>1
      <4>3. QED
        BY <1>1, <1>2, <4>1, <4>2
    <3>5. first - 1 \in 0 .. Len(plan)
      BY <1>1
    <3>6. QED
      BY <3>4, <3>5
  <2>3. QED
    BY <2>1, <2>2
<1>4. QED
  BY <1>3 DEF StartsBefore

-----------------------------------------------------------------------------
\* A velocity reference is truncated only when another one is put behind it.
VelocityEndless(plan) ==
  plan # <<>> /\ Back(plan).kind = "velocity" => Back(plan).end = Inf

\* What every step preserves.
GoodPlan(plan) == OrderedPlan(plan) /\ VelocityEndless(plan)

GoodReference ==
  {ref \in TimedReference : ref.kind = "velocity" => ref.end = Inf}

\* The last element of a queue bounds the starts of all.
LEMMA BackStartsLast ==
  ASSUME NEW plan, OrderedPlan(plan), plan # <<>>
  PROVE  /\ Back(plan) \in TimedReference
         /\ \A i \in 1 .. Len(plan) : plan[i].start <= Back(plan).start
<1>1. plan \in Seq(Reference) /\ Len(plan) \in Nat /\ Len(plan) \in 1 .. Len(plan)
  BY DEF OrderedPlan, IsPlan
<1>2. Back(plan) \in TimedReference
  BY <1>1, PlanElement DEF OrderedPlan, Back
<1>3. ASSUME NEW i \in 1 .. Len(plan)
      PROVE  plan[i].start <= Back(plan).start
  <2>1. CASE i = Len(plan)
    BY <1>2, <2>1 DEF Back, TimedReference, Reference
  <2>2. CASE i < Len(plan)
    BY <1>1, <2>2 DEF Back, OrderedPlan, StartOrdered
  <2>3. QED
    BY <1>1, <2>1, <2>2
<1>4. QED
  BY <1>2, <1>3

\* Appending behind references that start no later gives a good plan.
LEMMA AppendGood ==
  ASSUME NEW plan, OrderedPlan(plan), NEW ref \in GoodReference,
         \A i \in 1 .. Len(plan) : plan[i].start <= ref.start
  PROVE  GoodPlan(Append(plan, ref))
<1>1. OrderedPlan(Append(plan, ref))
  BY AppendOrdered DEF GoodReference
<1>2. plan \in Seq(Reference) /\ ref \in Reference
  BY DEF OrderedPlan, IsPlan, GoodReference, TimedReference
<1>3. Back(Append(plan, ref)) = ref
  BY <1>2, AppendProperties DEF Back
<1>4. QED
  BY <1>1, <1>3 DEF GoodPlan, VelocityEndless, GoodReference

\* A queue of one reference.
LEMMA SingleGood ==
  ASSUME NEW ref \in GoodReference
  PROVE  GoodPlan(<<ref>>)
<1>1. /\ <<ref>> \in Seq(Reference)
      /\ Len(<<ref>>) = 1 /\ DOMAIN <<ref>> = {1} /\ <<ref>>[1] = ref
  BY DEF GoodReference, TimedReference
<1>2. ref.start \in Nat /\ ref.start <= ref.end
  BY DEF GoodReference, TimedReference, Reference
<1>3. OrderedPlan(<<ref>>)
  BY <1>1, <1>2 DEF OrderedPlan, IsPlan, StartOrdered
<1>4. QED
  BY <1>1, <1>3 DEF GoodPlan, VelocityEndless, Back, GoodReference

\* Pipeline::appendReference keeps a good plan one.
LEMMA AppendToGood ==
  ASSUME NEW plan, GoodPlan(plan), NEW ref \in GoodReference
  PROVE  GoodPlan(AppendTo(plan, ref))
<1>1. OrderedPlan(plan) /\ ref.start \in Nat
  BY DEF GoodPlan, GoodReference, TimedReference, Reference
<1>2. CASE ~CanAppend(plan, ref)
  BY <1>2 DEF AppendTo
<1>3. CASE plan = <<>>
  <2>1. \A i \in 1 .. Len(plan) : plan[i].start <= ref.start
    BY <1>3
  <2>2. GoodPlan(Append(plan, ref))
    BY <1>1, <2>1, AppendGood
  <2>3. QED
    BY <1>3, <2>2 DEF AppendTo, CanAppend
<1>4. CASE plan # <<>> /\ ref.start >= Back(plan).end
  <2>1. \A i \in 1 .. Len(plan) : plan[i].start <= ref.start
    <3>1. Back(plan).start <= ref.start
      BY <1>1, <1>4, BackStartsLast DEF TimedReference, Reference
    <3>2. \A i \in 1 .. Len(plan) : plan[i].start \in Nat
      BY <1>1, PlanElement DEF OrderedPlan, TimedReference, Reference
    <3>3. Back(plan).start \in Nat
      BY <1>1, <1>4, BackStartsLast DEF TimedReference, Reference
    <3>4. QED
      BY <1>1, <1>4, <3>1, <3>2, <3>3, BackStartsLast
  <2>2. QED
    BY <1>1, <1>4, <2>1, AppendGood DEF AppendTo, CanAppend
<1>5. CASE plan # <<>> /\ ~(ref.start >= Back(plan).end) /\ CanAppend(plan, ref)
  <2> DEFINE cut == [plan EXCEPT ![Len(plan)] = Truncate(@, ref.start)]
  <2>1. AppendTo(plan, ref) = Append(cut, ref)
    BY <1>5 DEF AppendTo
  <2>2. /\ OrderedPlan(cut)
        /\ Len(cut) = Len(plan)
        /\ \A i \in 1 .. Len(plan) : cut[i].start = plan[i].start
    BY <1>1, <1>5, TruncateBackOrdered
  <2>3. Back(plan).start <= ref.start
    BY <1>5 DEF CanAppend, InRange
  <2>4. \A i \in 1 .. Len(cut) : cut[i].start <= ref.start
    <3>1. \A i \in 1 .. Len(plan) : plan[i].start \in Nat
      BY <1>1, PlanElement DEF OrderedPlan, TimedReference, Reference
    <3>2. Back(plan).start \in Nat
      BY <1>1, <1>5, BackStartsLast DEF TimedReference, Reference
    <3>3. \A i \in 1 .. Len(plan) : plan[i].start <= Back(plan).start
      BY <1>1, <1>5, BackStartsLast
    <3> HIDE DEF cut
    <3>4. QED
      BY <1>1, <2>2, <2>3, <3>1, <3>2, <3>3
  <2>5. QED
    BY ZenonT(60), <2>1, <2>2, <2>4, AppendGood
<1>6. QED
  BY <1>2, <1>3, <1>4, <1>5

\* Pipeline::insertReference keeps a good plan one: what lower_bound keeps
\* starts before the reference that is inserted.
LEMMA InsertIntoGood ==
  ASSUME NEW plan, GoodPlan(plan), NEW ref \in GoodReference
  PROVE  GoodPlan(InsertInto(plan, ref))
<1>1. OrderedPlan(plan) /\ ref.start \in Nat
  BY DEF GoodPlan, GoodReference, TimedReference, Reference
<1>2. \A i \in 1 .. Len(plan) : plan[i].start \in Nat
  BY <1>1, PlanElement DEF OrderedPlan, TimedReference, Reference
<1>3. CASE plan = <<>> \/ ref.start >= Back(plan).end
  <2>1. CanAppend(plan, ref) /\ InsertInto(plan, ref) = AppendTo(plan, ref)
    BY <1>3 DEF InsertInto, AppendTo, CanAppend
  <2>2. QED
    BY <2>1, AppendToGood
<1>4. CASE ~(plan = <<>> \/ ref.start >= Back(plan).end)
  <2> DEFINE kept == StartsBefore(plan, ref.start)
             cut  == [plan EXCEPT ![Len(plan)] = Truncate(@, ref.start)]
             part == SubSeq(cut, 1, kept)
  <2>1. InsertInto(plan, ref) = Append(part, ref)
    BY <1>4 DEF InsertInto
  <2>2. /\ OrderedPlan(cut)
        /\ Len(cut) = Len(plan)
        /\ \A i \in 1 .. Len(plan) : cut[i].start = plan[i].start
    BY <1>1, <1>4, TruncateBackOrdered
  <2>3. /\ kept \in 0 .. Len(plan)
        /\ \A i \in 1 .. Len(plan) : (i <= kept) <=> (plan[i].start < ref.start)
    BY <1>1, StartsBeforePartitions
  <2> HIDE DEF cut, kept
  <2>4. Len(plan) \in Nat /\ cut \in Seq(Reference)
    BY <1>1, <2>2 DEF OrderedPlan, IsPlan
  <2>5. OrderedPlan(part)
    BY <2>2, <2>3, <2>4, PartOrdered
  <2>6. Len(part) = kept /\ \A i \in 1 .. kept : part[i] = cut[i]
    BY <2>2, <2>3, <2>4, SubSeqProperties
  <2>7. \A i \in 1 .. Len(part) : part[i].start <= ref.start
    BY <1>1, <1>2, <2>2, <2>3, <2>4, <2>6
  <2>8. QED
    BY <2>1, <2>5, <2>7, AppendGood
<1>5. QED
  BY <1>3, <1>4

\* The bookkeeping of Pipeline::run keeps a good plan one.
LEMMA ExpireGood ==
  ASSUME NEW plan, GoodPlan(plan), NEW time \in Nat, time <= Inf
  PROVE  GoodPlan(Expire(plan, time))
<1>1. OrderedPlan(plan) /\ plan \in Seq(Reference) /\ Len(plan) \in Nat
  BY DEF GoodPlan, OrderedPlan, IsPlan
<1>2. CASE plan = <<>> \/ plan[1].end >= time
  BY <1>2 DEF Expire
<1>3. CASE ~(plan = <<>> \/ plan[1].end >= time) /\ Len(plan) > 1
  <2>1. Tail(plan) = SubSeq(plan, 2, Len(plan))
    BY <1>1, <1>3, TailIsSubSeq
  <2>2. OrderedPlan(Tail(plan))
    <3>1. 2 \in 1 .. Len(plan) + 1 /\ Len(plan) \in 0 .. Len(plan)
      BY <1>1, <1>3
    <3>2. QED
      BY <1>1, <2>1, <3>1, PartOrdered
  <2>3. Back(Tail(plan)) = Back(plan)
    BY <1>1, <1>3, HeadTailProperties DEF Back
  <2>4. GoodPlan(Tail(plan))
    BY <1>3, <2>2, <2>3 DEF GoodPlan, VelocityEndless
  <2>5. Expire(plan, time) = Tail(plan)
    <3>1. plan # <<>> /\ ~(plan[1].end >= time) /\ plan[1].end \in Nat
      BY <1>1, <1>3, PlanElement DEF OrderedPlan, TimedReference, Reference
    <3>2. QED
      BY <1>3, <3>1 DEF Expire
  <2>6. QED
    BY <2>4, <2>5
<1>4. CASE ~(plan = <<>> \/ plan[1].end >= time) /\ ~(Len(plan) > 1)
  <2>1. plan[1].goal \in Goals
    BY <1>1, <1>4, PlanElement DEF OrderedPlan, TimedReference, Reference
  <2>2. Hover(time, plan[1].goal) \in GoodReference
    BY <2>1, InfAssumption
       DEF Hover, GoodReference, TimedReference, Reference, Kinds
  <2>3. Expire(plan, time) = AppendTo(plan, Hover(time, plan[1].goal))
    BY <1>4 DEF Expire
  <2>4. QED
    BY <2>2, <2>3, AppendToGood
<1>5. QED
  BY <1>2, <1>3, <1>4

\* A sequence without its last element.
LEMMA AllButLast ==
  ASSUME NEW S, NEW seq \in Seq(S), seq # <<>>
  PROVE  /\ Len(SubSeq(seq, 1, Len(seq) - 1)) = Len(seq) - 1
         /\ \A i \in 1 .. Len(seq) - 1 : SubSeq(seq, 1, Len(seq) - 1)[i] = seq[i]
<1>1. PICK n \in Nat : n = Len(seq) - 1 /\ n + 1 = Len(seq)
  BY EmptySeq
<1>2. \A i \in 1 .. n : seq[i] \in S
  BY <1>1, ElementOfSeq
<1>3. /\ Len(SubSeq(seq, 1, n)) = IF 1 <= n THEN n - 1 + 1 ELSE 0
      /\ \A i \in 1 .. n - 1 + 1 : SubSeq(seq, 1, n)[i] = seq[1 + i - 1]
  BY <1>2, SubSeqProperties
<1>4. Len(SubSeq(seq, 1, n)) = n /\ \A i \in 1 .. n : SubSeq(seq, 1, n)[i] = seq[i]
  BY <1>3
<1>5. QED
  BY <1>1, <1>4

\* Sampling moves the start of the last reference only, and only later.
LEMMA MoveStartGood ==
  ASSUME NEW plan, GoodPlan(plan), plan # <<>>, NEW time \in Nat, time <= Inf
  PROVE  GoodPlan(MoveStart(plan, time))
<1> DEFINE last  == Back(plan)
           later == [last EXCEPT !.start = IF @ < time THEN time ELSE @]
           moved == [plan EXCEPT ![Len(plan)] = later]
<1>1. /\ OrderedPlan(plan) /\ plan \in Seq(Reference) /\ Len(plan) \in Nat
      /\ Len(plan) \in 1 .. Len(plan)
  BY DEF GoodPlan, OrderedPlan, IsPlan
<1>2. last \in TimedReference
  BY <1>1, BackStartsLast
<1>3. CASE last.kind = "velocity"
  <2>1. last.end = Inf
    BY <1>3 DEF GoodPlan, VelocityEndless
  <2>2. later \in GoodReference /\ later.start >= last.start
    BY <1>2, <2>1 DEF GoodReference, TimedReference, Reference
  <2>3. later.kind = last.kind /\ later.end = last.end
    BY <1>2 DEF TimedReference, Reference
  <2> DEFINE rest == SubSeq(plan, 1, Len(plan) - 1)
  <2>4. OrderedPlan(rest)
    BY <1>1, PartOrdered
  <2>5. Len(rest) = Len(plan) - 1 /\ \A i \in 1 .. Len(plan) - 1 : rest[i] = plan[i]
    BY <1>1, AllButLast
  <2>6. \A i \in 1 .. Len(rest) : rest[i].start <= later.start
    <3>1. \A i \in 1 .. Len(plan) : plan[i].start <= last.start
      BY <1>1, BackStartsLast
    <3>2. \A i \in 1 .. Len(plan) : plan[i].start \in Nat
      BY <1>1, PlanElement DEF OrderedPlan, TimedReference, Reference
    <3>3. last.start \in Nat /\ later.start \in Nat
      BY <1>2, <2>2 DEF GoodReference, TimedReference, Reference
    <3> HIDE DEF rest, later, last
    <3>4. QED
      BY SMTT(30), <1>1, <2>2, <2>5, <3>1, <3>2, <3>3
  <2>7. GoodPlan(Append(rest, later))
    BY <2>2, <2>4, <2>6, AppendGood
  <2>8. moved = Append(rest, later)
    <3>1. later \in Reference /\ rest \in Seq(Reference)
      BY <2>2, <2>4 DEF GoodReference, TimedReference, OrderedPlan, IsPlan
    <3> HIDE DEF later, rest
    <3>2. /\ moved \in Seq(Reference)
          /\ Len(moved) = Len(plan)
          /\ \A i \in 1 .. Len(plan) :
               moved[i] = IF i = Len(plan) THEN later ELSE plan[i]
      BY <1>1, <3>1, ExceptSeq
    <3>3. /\ Append(rest, later) \in Seq(Reference)
          /\ Len(Append(rest, later)) = Len(plan)
          /\ \A i \in 1 .. Len(plan) - 1 : Append(rest, later)[i] = plan[i]
          /\ Append(rest, later)[Len(plan)] = later
      BY <1>1, <2>5, <3>1, AppendProperties
    <3>4. \A i \in 1 .. Len(plan) : moved[i] = Append(rest, later)[i]
      BY <1>1, <3>2, <3>3
    <3>5. QED
      BY ZenonT(60), <3>2, <3>3, <3>4, SeqEqual
  <2>9. MoveStart(plan, time) = plan \/ MoveStart(plan, time) = moved
    BY DEF MoveStart, Back
  <2>10. QED
    BY <2>7, <2>8, <2>9
<1>4. CASE last.kind # "velocity"
  BY <1>4 DEF MoveStart
<1>5. QED
  BY <1>3, <1>4

-----------------------------------------------------------------------------
\* The inductive invariant: the clock is within its bound, and the queue is an
\* ordered plan whose last reference is not a truncated velocity reference.
PlanInv == now \in 0 .. MaxTime /\ GoodPlan(refs)

LEMMA PlanInvInit == Init => PlanInv
<1> SUFFICES ASSUME Init PROVE PlanInv
  OBVIOUS
<1>1. refs \in Seq(Reference) /\ Len(refs) = 0 /\ DOMAIN refs = {}
  BY DEF Init
<1>2. OrderedPlan(refs)
  BY <1>1 DEF OrderedPlan, IsPlan, StartOrdered
<1>3. QED
  BY <1>2, FlightPlanAssumption DEF Init, PlanInv, GoodPlan, VelocityEndless

\* Every reference a command builds is good if its start is finite.
LEMMA BuiltGood ==
  ASSUME NEW time \in Nat, NEW goal \in Goals
  PROVE  /\ time <= Inf => /\ Hover(time, goal) \in GoodReference
                           /\ Velocity(time, goal) \in GoodReference
         /\ \A duration \in Durations :
              Trajectory(time, time + duration, goal) \in GoodReference
BY InfAssumption, FlightPlanAssumption
   DEF Durations, Hover, Velocity, Trajectory, GoodReference, TimedReference, Reference, Kinds

\* The times a command starts its reference at.
LEMMA CommandTimes ==
  ASSUME PlanInv
  PROVE  /\ now \in Nat /\ now <= Inf
         /\ \A time \in now .. now + 1 : time \in Nat /\ time <= Inf
         /\ refs # <<>> => /\ NextStart \in Nat
                           /\ ~IsEndless(Back(refs)) =>
                                Back(refs).end \in Nat /\ Back(refs).end <= Inf
<1>1. now \in Nat /\ now < Inf
  BY FlightPlanAssumption, InfAssumption DEF PlanInv
<1>2. refs # <<>> => Back(refs).end \in Nat
  BY BackStartsLast DEF PlanInv, GoodPlan, TimedReference, Reference
<1>3. QED
  BY <1>1, <1>2, InfAssumption DEF NextStart, IsEndless

LEMMA PlanInvStep == PlanInv /\ [Next]_vars => PlanInv'
<1> SUFFICES ASSUME PlanInv, [Next]_vars PROVE PlanInv'
  OBVIOUS
<1>1. GoodPlan(refs) /\ now \in 0 .. MaxTime
  BY DEF PlanInv
<1>2. ASSUME NEW ref \in GoodReference, Add(ref) PROVE PlanInv'
  BY <1>1, <1>2, AppendToGood DEF Add, PlanInv
<1>3. CASE Run
  <2>1. now' \in 0 .. MaxTime /\ now' \in Nat /\ now' <= Inf
    BY <1>1, <1>3, FlightPlanAssumption, InfAssumption DEF Run
  <2>2. CASE refs = <<>>
    BY <1>1, <1>3, <2>1, <2>2 DEF Run, PlanInv
  <2>3. CASE refs # <<>>
    <3>1. GoodPlan(MoveStart(refs, now'))
      BY <1>1, <2>1, <2>3, MoveStartGood
    <3>2. GoodPlan(Expire(MoveStart(refs, now'), now'))
      BY <2>1, <3>1, ExpireGood
    <3>3. QED
      BY <1>3, <2>1, <2>3, <3>2 DEF Run, PlanInv
  <2>4. QED
    BY <2>2, <2>3
<1>4. CASE Off
  <2>1. refs' \in Seq(Reference) /\ DOMAIN refs' = {}
    BY <1>4 DEF Off
  <2>2. QED
    BY <1>1, <1>4, <2>1
       DEF Off, PlanInv, GoodPlan, OrderedPlan, IsPlan, StartOrdered, VelocityEndless
<1>5. ASSUME NEW goal \in Goals, Command(goal) PROVE PlanInv'
  <2>1. ASSUME NEW time \in now .. now + 1,
               StartHandheld(time, goal) \/ SetVelocityReference(time, goal)
        PROVE  PlanInv'
    <3>1. time \in Nat /\ time <= Inf
      BY CommandTimes
    <3>2. QED
      BY <1>2, <2>1, <3>1, BuiltGood DEF StartHandheld, SetVelocityReference
  <2>2. ASSUME NEW start \in 0 .. MaxTime, AddHoverAt(start, goal)
        PROVE  PlanInv'
    <3>1. start \in Nat /\ start <= Inf
      BY FlightPlanAssumption, InfAssumption
    <3>2. QED
      BY <1>2, <2>2, <3>1, BuiltGood DEF AddHoverAt
  <2>3. CASE AddHover(goal)
    BY <1>2, <2>3, CommandTimes, BuiltGood DEF AddHover
  <2>4. CASE ForceHover(goal)
    <3>1. GoodPlan(InsertInto(refs, Hover(now, goal)))
      BY <1>1, CommandTimes, BuiltGood, InsertIntoGood
    <3>2. QED
      BY <1>1, <2>4, <3>1 DEF ForceHover, PlanInv
  <2>5. ASSUME NEW duration \in Durations, TrajectoryCommand(duration, goal)
        PROVE  PlanInv'
    <3>1. ASSUME NEW time \in now .. now + 1, StartTakeoff(time, duration, goal)
          PROVE  PlanInv'
      BY <1>2, <3>1, CommandTimes, BuiltGood DEF StartTakeoff
    <3>2. ASSUME NEW start \in 0 .. MaxTime, AddTrajectory(start, duration, goal)
          PROVE  PlanInv'
      <4>1. start \in Nat
        OBVIOUS
      <4>2. QED
        BY <1>2, <3>2, <4>1, BuiltGood DEF AddTrajectory
    <3>3. CASE GoToPose(duration, goal)
      BY <1>2, <3>3, CommandTimes, BuiltGood DEF GoToPose
    <3>4. CASE Land(duration, goal)
      <4>1. GoodPlan(InsertInto(refs, Trajectory(now, now + duration, goal)))
        BY <1>1, CommandTimes, BuiltGood, InsertIntoGood
      <4>2. QED
        BY <1>1, <3>4, <4>1 DEF Land, PlanInv
    <3>5. QED
      BY <2>5, <3>1, <3>2, <3>3, <3>4 DEF TrajectoryCommand
  <2>6. QED
    BY <1>5, <2>1, <2>2, <2>3, <2>4, <2>5 DEF Command, HoverCommand
<1>6. CASE RunFails
  <2>1. now' \in 0 .. MaxTime /\ now' \in Nat /\ now' <= Inf
    BY <1>1, <1>6, FlightPlanAssumption, InfAssumption DEF RunFails
  <2>2. GoodPlan(MoveStart(refs, now'))
    BY <1>1, <1>6, <2>1, MoveStartGood DEF RunFails
  <2>3. QED
    BY <1>1, <1>6, <2>1, <2>2 DEF RunFails, PlanInv
<1>7. ASSUME NEW goal \in Goals, RunFeedthrough(goal) PROVE PlanInv'
  <2>1. now' \in 0 .. MaxTime /\ now' \in Nat /\ now' <= Inf
    BY <1>1, <1>7, FlightPlanAssumption, InfAssumption DEF RunFeedthrough
  <2>2. Hover(now', goal) \in GoodReference
    BY <2>1, BuiltGood
  <2>3. GoodPlan(<<Hover(now', goal)>>)
    BY <2>2, SingleGood
  <2>4. QED
    BY <1>7, <2>1, <2>3 DEF RunFeedthrough, PlanInv
<1>8. CASE UNCHANGED vars
  BY <1>1, <1>8 DEF vars, PlanInv
<1>9. QED
  BY <1>3, <1>4, <1>5, <1>6, <1>7, <1>8 DEF Next

LEMMA PlanInvariant == Spec => []PlanInv
BY PlanInvInit, PlanInvStep, PTL DEF Spec

\* No sequence of commands and cycles makes a reference end before it starts.
THEOREM TypeCorrect == Spec => []TypeOK
<1>1. PlanInv => TypeOK
  BY DEF PlanInv, GoodPlan, OrderedPlan, TypeOK
<1>2. QED
  BY <1>1, PlanInvariant, PTL

\* The queue is always ordered by start times, so that insertReference's search
\* finds what it is meant to find.
THEOREM StartsAlwaysOrdered == Spec => []StartsOrdered
<1>1. PlanInv => StartsOrdered
  BY DEF PlanInv, GoodPlan, OrderedPlan, StartsOrdered
<1>2. QED
  BY <1>1, PlanInvariant, PTL

-----------------------------------------------------------------------------
(***************************************************************************)
(* The binary search                                                       *)
(***************************************************************************)
\* The parts of the queue a search may be at: where one begins, and its length.
Ranges(plan) ==
  {range \in (0 .. Len(plan)) \X (0 .. Len(plan)) : range[1] + range[2] <= Len(plan)}

\* One step of the search in a range, which is finished by found.
Halve(found, plan, time, range) ==
  LET first == range[1]
      len   == range[2]
      half  == len \div 2
  IN IF len = 0 THEN first
     ELSE IF plan[first + half + 1].end <= time
     THEN found[<<first + half + 1, len - half - 1>>]
     ELSE found[<<first, half>>]

\* A search steps on to shorter ranges.
LEMMA HalvesAreShorter ==
  ASSUME NEW plan, Len(plan) \in Nat, NEW range \in Ranges(plan), range[2] # 0
  PROVE  LET first == range[1]
             len   == range[2]
             half  == len \div 2
         IN /\ first \in Nat /\ len \in Nat /\ half \in Nat /\ half < len
            /\ <<first, half>> \in Ranges(plan)
            /\ <<first + half + 1, len - half - 1>> \in Ranges(plan)
            /\ <<first, half>>[2] < len
            /\ <<first + half + 1, len - half - 1>>[2] < len
<1> DEFINE first == range[1]
           len   == range[2]
           half  == len \div 2
           N     == Len(plan)
<1>1. first \in 0 .. N /\ len \in 1 .. N /\ first + len <= N /\ N \in Nat
  BY DEF Ranges
<1>2. half \in Nat /\ half < len
  BY <1>1
<1> HIDE DEF half, len, first, N
<1>3. /\ first \in 0 .. N /\ half \in 0 .. N /\ first + half <= N
      /\ first + half + 1 \in 0 .. N /\ len - half - 1 \in 0 .. N
      /\ (first + half + 1) + (len - half - 1) <= N
      /\ half < len /\ len - half - 1 < len
  BY <1>1, <1>2
<1>4. QED
  BY <1>1, <1>2, <1>3 DEF Ranges, half, len, first, N

\* The recursion of Search has a solution: there is no least length of ranges
\* without one.
LEMMA SearchUnfolds ==
  ASSUME NEW plan, Len(plan) \in Nat, NEW time
  PROVE  \E found :
           /\ found = [range \in Ranges(plan) |-> Halve(found, plan, time, range)]
           /\ Search(plan, time) = found[<<0, Len(plan)>>]
<1> DEFINE Part(n) == {range \in Ranges(plan) : range[2] < n}
           IsFound(f, n) == f = [range \in Part(n) |-> Halve(f, plan, time, range)]
           Fails == {n \in Nat : ~\E f : IsFound(f, n)}
<1>1. Fails = {}
  <2>1. SUFFICES ASSUME Fails # {} PROVE FALSE
    OBVIOUS
  <2>2. Fails \subseteq Nat
    OBVIOUS
  <2>3. PICK n \in Fails : \A m \in Fails : ~(<<m, n>> \in OpToRel(<, Nat))
    BY ZenonT(60), <2>1, <2>2, NatLessThanWellFounded, WFMin
  <2>4. n \in Nat /\ n # 0
    <3>1. IsFound([range \in Part(0) |-> 0], 0)
      <4>1. Part(0) = {}
        <5>1. \A range \in Ranges(plan) : range[2] \in Nat
          BY DEF Ranges
        <5>2. QED
          BY <5>1
      <4> HIDE DEF Part
      <4>2. QED
        BY <4>1
    <3>2. 0 \notin Fails
      BY <3>1
    <3>3. QED
      BY <3>2
  <2>5. n - 1 \notin Fails
    <3>1. n - 1 \in Nat /\ n - 1 < n
      BY <2>4
    <3>2. <<n - 1, n>> \in OpToRel(<, Nat)
      BY <2>4, <3>1 DEF OpToRel
    <3> HIDE DEF Fails
    <3>3. QED
      BY ZenonT(60), <2>3, <3>2
  <2>6. PICK f : IsFound(f, n - 1)
    <3>1. n - 1 \in Nat
      BY <2>4
    <3> HIDE DEF IsFound
    <3>2. QED
      BY <2>5, <3>1
  <2> DEFINE g == [range \in Part(n) |-> Halve(f, plan, time, range)]
  <2>7. ASSUME NEW r \in Part(n - 1)
        PROVE  f[r] = g[r]
    <3>1. r \in Part(n)
      <4>1. r[2] \in Nat /\ r[2] < n - 1 /\ r \in Ranges(plan)
        BY <2>7 DEF Ranges
      <4>2. QED
        BY <2>4, <4>1
    <3>2. f[r] = Halve(f, plan, time, r)
      <4> HIDE DEF Part
      <4>1. QED
        BY <2>6, <2>7
    <3>3. g[r] = Halve(f, plan, time, r)
      <4> HIDE DEF Part
      <4>1. QED
        BY <3>1
    <3>4. QED
      BY <3>2, <3>3
  <2>8. ASSUME NEW range \in Part(n)
        PROVE  Halve(f, plan, time, range) = Halve(g, plan, time, range)
    <3>1. CASE range[2] = 0
      BY <3>1 DEF Halve
    <3>2. CASE range[2] # 0
      <4> DEFINE half == range[2] \div 2
                 low  == <<range[1], half>>
                 high == <<range[1] + half + 1, range[2] - half - 1>>
      <4>1. /\ low \in Ranges(plan) /\ high \in Ranges(plan)
            /\ low[2] < range[2] /\ high[2] < range[2]
        BY <3>2, HalvesAreShorter
      <4>2. low[2] \in Nat /\ high[2] \in Nat /\ range[2] \in Nat /\ range[2] < n
        BY <4>1 DEF Ranges
      <4>3. low \in Part(n - 1) /\ high \in Part(n - 1)
        <5> HIDE DEF low, high
        <5>1. low[2] < n - 1 /\ high[2] < n - 1
          BY <2>4, <4>1, <4>2
        <5>2. QED
          BY <4>1, <5>1
      <4>4. f[low] = g[low] /\ f[high] = g[high]
        <5> HIDE DEF low, high, Part, g
        <5>1. QED
          BY <2>7, <4>3
      <4> HIDE DEF g
      <4>5. QED
        BY Zenon, <3>2, <4>4 DEF Halve
    <3>3. QED
      BY <3>1, <3>2
  <2>9. IsFound(g, n)
    <3> HIDE DEF Part
    <3>1. g = [range \in Part(n) |-> Halve(g, plan, time, range)]
      BY Zenon, <2>8
    <3>2. QED
      BY <3>1
  <2>10. n \notin Fails
    <3> HIDE DEF IsFound
    <3>1. QED
      BY <2>9
  <2>11. QED
    BY <2>10
<1>2. PICK f : IsFound(f, Len(plan) + 1)
  <2>1. Len(plan) + 1 \in Nat
    OBVIOUS
  <2> HIDE DEF IsFound
  <2>2. QED
    BY <1>1, <2>1
<1>3. Part(Len(plan) + 1) = Ranges(plan)
  BY DEF Ranges
<1>4. \E found : found = [range \in Ranges(plan) |-> Halve(found, plan, time, range)]
  <2> HIDE DEF Part
  <2>1. QED
    BY <1>2, <1>3
<1> DEFINE found == CHOOSE found :
             found = [range \in Ranges(plan) |-> Halve(found, plan, time, range)]
<1>5. found = [range \in Ranges(plan) |-> Halve(found, plan, time, range)]
  BY Zenon, <1>4
<1>6. Search(plan, time) = found[<<0, Len(plan)>>]
  BY Zenon DEF Search, Halve, Ranges
<1>7. QED
  BY <1>5, <1>6

\* std::lower_bound finds where what has ended ends, if it is in front.
LEMMA SearchFinds ==
  ASSUME NEW plan \in Seq(Reference), NEW time \in Int, NEW n \in 0 .. Len(plan),
         \A i \in 1 .. Len(plan) : i <= n <=> plan[i].end <= time
  PROVE  Search(plan, time) = n
<1>1. Len(plan) \in Nat
  OBVIOUS
<1>2. PICK found :
        /\ found = [range \in Ranges(plan) |-> Halve(found, plan, time, range)]
        /\ Search(plan, time) = found[<<0, Len(plan)>>]
  BY <1>1, SearchUnfolds
<1> DEFINE IsWithin(range) == range[1] <= n /\ n <= range[1] + range[2]
           Fails == {len \in Nat : \E range \in Ranges(plan) :
                       range[2] = len /\ IsWithin(range) /\ found[range] # n}
<1>3. Fails = {}
  <2>1. SUFFICES ASSUME Fails # {} PROVE FALSE
    OBVIOUS
  <2>2. Fails \subseteq Nat
    OBVIOUS
  <2>3. PICK least \in Fails : \A m \in Fails : ~(<<m, least>> \in OpToRel(<, Nat))
    BY ZenonT(60), <2>1, <2>2, NatLessThanWellFounded, WFMin
  <2>4. PICK range \in Ranges(plan) :
          range[2] = least /\ IsWithin(range) /\ found[range] # n
    OBVIOUS
  <2> DEFINE first == range[1]
             len   == range[2]
             half  == len \div 2
             low   == <<first, half>>
             high  == <<first + half + 1, len - half - 1>>
  <2>5. found[range] = Halve(found, plan, time, range)
    BY <1>2
  <2>6. ASSUME NEW part \in Ranges(plan), part[2] < len, IsWithin(part)
        PROVE  found[part] = n
    <3>1. part[2] \in Nat /\ len \in Nat
      BY DEF Ranges
    <3>2. <<part[2], len>> \in OpToRel(<, Nat)
      BY <2>6, <3>1 DEF OpToRel
    <3>3. part[2] \notin Fails
      <4> HIDE DEF Fails
      <4>1. QED
        BY ZenonT(60), <2>3, <2>4, <3>2
    <3>4. QED
      BY <2>6, <3>1, <3>3
  <2>7. first \in Nat /\ len \in Nat /\ first + len <= Len(plan)
    BY DEF Ranges
  <2>8. first <= n /\ n <= first + len
    BY <2>4
  <2>9. CASE len = 0
    <3>1. found[range] = first
      BY <2>5, <2>9 DEF Halve
    <3>2. first = n
      BY <2>7, <2>8, <2>9
    <3>3. QED
      BY <2>4, <3>1, <3>2
  <2>10. CASE len # 0
    <3>1. /\ half \in Nat /\ half < len
          /\ low \in Ranges(plan) /\ high \in Ranges(plan)
          /\ low[2] < len /\ high[2] < len
      BY <1>1, <2>10, HalvesAreShorter
    <3>2. first + half + 1 \in 1 .. Len(plan)
      <4>1. \A N, f, l, h \in Nat : f + l <= N /\ h < l => f + h + 1 \in 1 .. N
        OBVIOUS
      <4> HIDE DEF first, half, len
      <4>2. QED
        BY <1>1, <2>7, <3>1, <4>1
    <3>3. CASE plan[first + half + 1].end <= time
      <4>1. found[range] = found[high]
        BY <2>5, <2>10, <3>3 DEF Halve
      <4>2. first + half + 1 <= n
        BY <3>2, <3>3
      <4>3. IsWithin(high)
        <5>1. high[1] = first + half + 1 /\ high[2] = len - half - 1
          OBVIOUS
        <5> HIDE DEF high, first, half, len
        <5>2. QED
          BY <2>7, <2>8, <3>1, <4>2, <5>1
      <4>4. found[high] = n
        <5> HIDE DEF IsWithin, high, len
        <5>1. QED
          BY <2>6, <3>1, <4>3
      <4>5. QED
        BY <2>4, <4>1, <4>4
    <3>4. CASE ~(plan[first + half + 1].end <= time)
      <4>1. found[range] = found[low]
        BY <2>5, <2>10, <3>4 DEF Halve
      <4>2. n < first + half + 1
        <5>1. ~(first + half + 1 <= n)
          BY <3>2, <3>4
        <5> HIDE DEF first, half, len
        <5>2. QED
          BY <2>7, <3>1, <5>1
      <4>3. IsWithin(low)
        <5>1. low[1] = first /\ low[2] = half
          OBVIOUS
        <5> HIDE DEF low, first, half, len
        <5>2. QED
          BY <2>7, <2>8, <3>1, <4>2, <5>1
      <4>4. found[low] = n
        <5> HIDE DEF IsWithin, low, len
        <5>1. QED
          BY <2>6, <3>1, <4>3
      <4>5. QED
        BY <2>4, <4>1, <4>4
    <3>5. QED
      BY <3>3, <3>4
  <2>11. QED
    BY <2>9, <2>10
<1>4. <<0, Len(plan)>> \in Ranges(plan) /\ IsWithin(<<0, Len(plan)>>)
  BY <1>1 DEF Ranges
<1>5. found[<<0, Len(plan)>>] = n
  <2> HIDE DEF IsWithin
  <2>1. <<0, Len(plan)>>[2] = Len(plan)
    OBVIOUS
  <2>2. QED
    BY <1>1, <1>3, <1>4, <2>1
<1>6. QED
  BY <1>2, <1>5

-----------------------------------------------------------------------------
(***************************************************************************)
(* What is flown                                                           *)
(***************************************************************************)
\* The first n references of a plan have ended, no other has.
EndedAt(plan, time, n) ==
  n \in 0 .. Len(plan) /\ \A i \in 1 .. Len(plan) : i <= n <=> plan[i].end <= time

\* The setpoint a reference gives.
Flown(ref, time) ==
  [goal |-> ref.goal,
   arrived |-> \/ ref.kind = "hover"
               \/ ref.kind = "trajectory" /\ time >= ref.end]

LEMMA OwnerFlies ==
  ASSUME NEW plan, NEW time
  PROVE  Sample(plan, time) = Flown(Owner(plan, time), time)
BY DEF Sample, Flown

\* The reference behind those that have ended is flown.
LEMMA OwnerAt ==
  ASSUME NEW plan \in Seq(Reference), NEW time \in Int, NEW n, EndedAt(plan, time, n)
  PROVE  Owner(plan, time) = IF n = Len(plan) THEN Back(plan) ELSE plan[n + 1]
<1>1. Search(plan, time) = n
  BY SearchFinds DEF EndedAt
<1>2. QED
  BY <1>1 DEF Owner

\* The ends of a plan's references.
LEMMA EndTypes ==
  ASSUME NEW plan \in Seq(Reference), NEW i \in 1 .. Len(plan)
  PROVE  plan[i] \in Reference /\ plan[i].end \in Nat /\ plan[i].start \in Nat
<1>1. plan[i] \in Reference
  OBVIOUS
<1>2. QED
  BY <1>1 DEF Reference

\* A reference behind such as have ended is flown.
LEMMA LastOwns ==
  ASSUME NEW front \in Seq(Reference), NEW ref \in Reference, NEW time \in Int,
         \A i \in 1 .. Len(front) : front[i].end <= time
  PROVE  Owner(Append(front, ref), time) = ref
<1> DEFINE plan == Append(front, ref)
           n    == IF ref.end <= time THEN Len(front) + 1 ELSE Len(front)
<1>1. /\ plan \in Seq(Reference) /\ Len(plan) = Len(front) + 1 /\ Len(front) \in Nat
      /\ \A i \in 1 .. Len(front) : plan[i] = front[i]
      /\ plan[Len(front) + 1] = ref
  OBVIOUS
<1>2. EndedAt(plan, time, n)
  <2> HIDE DEF plan
  <2>1. ref.end \in Nat
    BY DEF Reference
  <2>2. CASE ref.end <= time
    BY <1>1, <2>1, <2>2 DEF EndedAt
  <2>3. CASE ~(ref.end <= time)
    BY <1>1, <2>1, <2>3 DEF EndedAt
  <2>4. QED
    BY <2>2, <2>3
<1>3. QED
  <2> HIDE DEF plan
  <2>1. Owner(plan, time) = IF n = Len(plan) THEN Back(plan) ELSE plan[n + 1]
    BY <1>1, <1>2, OwnerAt
  <2>2. Back(plan) = ref
    BY <1>1 DEF Back
  <2>3. QED
    BY <1>1, <2>1, <2>2 DEF plan

-----------------------------------------------------------------------------
\* A queue of one or more references can be expired without changing what is flown.
LEMMA ExpireFlies ==
  ASSUME NEW plan \in Seq(Reference), plan # <<>>, VelocityEndless(plan),
         NEW at \in Nat, at < Inf, NEW time \in Int, at <= time,
         NEW n, EndedAt(plan, time, n)
  PROVE  Sample(Expire(plan, at), time) = Sample(plan, time)
<1>1. /\ Len(plan) \in Nat \ {0} /\ 1 \in 1 .. Len(plan) /\ Len(plan) \in 1 .. Len(plan)
      /\ n \in 0 .. Len(plan)
      /\ plan[1].end \in Nat
  BY EndTypes DEF EndedAt
<1>2. CASE plan[1].end >= at
  BY <1>2 DEF Expire
<1>3. CASE Len(plan) > 1 /\ plan[1].end < at
  <2>1. Expire(plan, at) = Tail(plan)
    <3>1. ~(plan[1].end >= at)
      BY <1>1, <1>3
    <3>2. QED
      BY <1>3, <3>1 DEF Expire
  <2> DEFINE rest == Tail(plan)
  <2>2. /\ rest \in Seq(Reference) /\ Len(rest) = Len(plan) - 1
        /\ \A i \in 1 .. Len(rest) : rest[i] = plan[i + 1] /\ i + 1 \in 1 .. Len(plan)
    BY <1>1
  <2>3. 1 <= n
    BY <1>1, <1>3 DEF EndedAt
  <2> HIDE DEF rest
  <2>4. EndedAt(rest, time, n - 1)
    BY <1>1, <2>2, <2>3 DEF EndedAt
  <2>5. Owner(rest, time) = IF n - 1 = Len(rest) THEN Back(rest) ELSE rest[n]
    BY <1>1, <2>2, <2>4, OwnerAt
  <2>6. Owner(plan, time) = IF n = Len(plan) THEN Back(plan) ELSE plan[n + 1]
    BY OwnerAt
  <2>7. Back(rest) = Back(plan)
    BY <1>1, <1>3, <2>2 DEF Back
  <2>8. Owner(rest, time) = Owner(plan, time)
    <3>1. CASE n = Len(plan)
      BY <2>2, <2>5, <2>6, <2>7, <3>1
    <3>2. CASE n # Len(plan)
      <4>1. n \in 1 .. Len(rest) /\ n - 1 # Len(rest)
        BY <1>1, <2>2, <2>3, <3>2
      <4>2. rest[n] = plan[n + 1]
        BY <2>2, <4>1
      <4>3. QED
        BY <2>5, <2>6, <3>2, <4>1, <4>2
    <3>3. QED
      BY <3>1, <3>2
  <2>9. QED
    BY <2>1, <2>8, OwnerFlies DEF rest
<1>4. CASE Len(plan) = 1 /\ plan[1].end < at
  <2> DEFINE hover == Hover(at, plan[1].goal)
  <2>1. Back(plan) = plan[1] /\ plan[1] \in Reference
    BY <1>1, <1>4, EndTypes DEF Back
  <2>2. Expire(plan, at) = Append(plan, hover)
    BY <1>1, <1>4, <2>1 DEF Expire, AppendTo, CanAppend, Hover
  <2>3. hover \in Reference /\ hover.goal = plan[1].goal /\ hover.kind = "hover"
    BY <2>1, InfAssumption DEF Hover, Reference, Kinds
  <2> HIDE DEF hover
  <2>4. Owner(Append(plan, hover), time) = hover
    BY <1>1, <1>4, <2>3, LastOwns
  <2>5. n = 1
    BY <1>1, <1>4 DEF EndedAt
  <2>6. Owner(plan, time) = plan[1]
    BY <1>4, <2>1, <2>5, OwnerAt
  <2>7. plan[1].kind = "hover" \/ plan[1].kind = "trajectory"
    <3>1. plan[1].kind # "velocity"
      BY <1>1, <1>4, <2>1, InfAssumption DEF VelocityEndless
    <3>2. QED
      BY <2>1, <3>1 DEF Reference, Kinds
  <2>8. Flown(hover, time) = Flown(plan[1], time)
    <3>1. time >= plan[1].end
      BY <1>1, <1>4
    <3>2. QED
      BY Zenon, <2>3, <2>7, <3>1 DEF Flown
  <2>9. QED
    BY <2>2, <2>4, <2>6, <2>8, OwnerFlies
<1>5. Len(plan) \in Nat /\ Len(plan) >= 1 /\ plan[1].end \in Nat
  BY <1>1
<1>6. \/ plan[1].end >= at
      \/ Len(plan) > 1 /\ plan[1].end < at
      \/ Len(plan) = 1 /\ plan[1].end < at
  <2>1. plan[1].end >= at \/ plan[1].end < at
    BY <1>5
  <2>2. Len(plan) > 1 \/ Len(plan) = 1
    <3>1. \A l \in Nat : l >= 1 => l > 1 \/ l = 1
      OBVIOUS
    <3>2. QED
      BY <1>5, <3>1
  <2>3. QED
    BY <2>1, <2>2
<1>7. QED
  BY <1>2, <1>3, <1>4, <1>6

\* A velocity reference that moves its start flies on.
LEMMA MoveStartFlies ==
  ASSUME NEW plan \in Seq(Reference), plan # <<>>, NEW at \in Nat,
         NEW time \in Int, NEW n, EndedAt(plan, time, n)
  PROVE  LET moved == MoveStart(plan, at)
         IN /\ moved \in Seq(Reference) /\ moved # <<>>
            /\ VelocityEndless(plan) => VelocityEndless(moved)
            /\ EndedAt(moved, time, n)
            /\ Sample(moved, time) = Sample(plan, time)
<1> DEFINE later == [Back(plan) EXCEPT !.start = IF @ < at THEN at ELSE @]
           moved == [plan EXCEPT ![Len(plan)] = later]
<1>1. /\ Len(plan) \in Nat \ {0} /\ Len(plan) \in 1 .. Len(plan)
      /\ Back(plan) \in Reference /\ Back(plan) = plan[Len(plan)]
  BY EndTypes DEF Back
<1>2. MoveStart(plan, at) = plan \/ MoveStart(plan, at) = moved
  BY DEF MoveStart, Back
<1>3. /\ later \in Reference
      /\ later.end = Back(plan).end /\ later.goal = Back(plan).goal
      /\ later.kind = Back(plan).kind
  BY <1>1 DEF Reference
<1> HIDE DEF later
<1>4. /\ moved \in Seq(Reference) /\ Len(moved) = Len(plan)
      /\ \A i \in 1 .. Len(plan) : moved[i] = IF i = Len(plan) THEN later ELSE plan[i]
  BY <1>1, <1>3, ExceptSeq
<1> HIDE DEF moved
<1>5. moved # <<>> /\ Back(moved) = later
  BY <1>1, <1>4 DEF Back
<1>6. EndedAt(moved, time, n)
  BY <1>1, <1>3, <1>4 DEF EndedAt
<1>7. VelocityEndless(plan) => VelocityEndless(moved)
  BY <1>3, <1>5 DEF VelocityEndless
<1>8. Sample(moved, time) = Sample(plan, time)
  <2>1. Owner(moved, time) = IF n = Len(plan) THEN later ELSE moved[n + 1]
    BY <1>4, <1>5, <1>6, OwnerAt
  <2>2. Owner(plan, time) = IF n = Len(plan) THEN Back(plan) ELSE plan[n + 1]
    BY OwnerAt
  <2>3. n \in 0 .. Len(plan)
    BY DEF EndedAt
  <2>4. \/ Owner(moved, time) = Owner(plan, time)
        \/ Owner(moved, time) = later /\ Owner(plan, time) = Back(plan)
    BY <1>1, <1>4, <2>1, <2>2, <2>3
  <2>5. Flown(later, time) = Flown(Back(plan), time)
    BY <1>3 DEF Flown
  <2>6. QED
    BY <2>4, <2>5, OwnerFlies
<1>9. QED
  BY <1>2, <1>4, <1>5, <1>6, <1>7, <1>8

\* What is appended changes nothing before it starts, while the plan lasts.
LEMMA AppendFlies ==
  ASSUME NEW plan \in Seq(Reference), plan # <<>>, NEW ref \in Reference,
         ref.start <= ref.end, NEW time \in Nat, time < Inf,
         Untouched(plan, ref.start, time), NEW n, EndedAt(plan, time, n)
  PROVE  Sample(AppendTo(plan, ref), time) = Sample(plan, time)
<1>1. /\ Len(plan) \in Nat \ {0} /\ Len(plan) \in 1 .. Len(plan)
      /\ Back(plan) \in Reference /\ Back(plan) = plan[Len(plan)]
      /\ Back(plan).end \in Nat /\ n \in 0 .. Len(plan)
  BY EndTypes DEF Back, EndedAt
<1>2. ref.start \in Nat /\ ref.end \in Nat /\ time < ref.start /\ time < ref.end
  BY DEF Untouched, Reference
<1>3. time < Back(plan).end
  BY <1>1, InfAssumption DEF Untouched, IsEndless
<1>4. n < Len(plan)
  BY <1>1, <1>3 DEF EndedAt
<1>5. Owner(plan, time) = plan[n + 1] /\ n + 1 \in 1 .. Len(plan)
  BY <1>1, <1>4, OwnerAt
<1>6. ASSUME NEW front \in Seq(Reference), Len(front) = Len(plan),
             \A i \in 1 .. Len(plan) - 1 : front[i] = plan[i],
             time < front[Len(plan)].end,
             Flown(front[Len(plan)], time) = Flown(plan[Len(plan)], time)
      PROVE  Sample(Append(front, ref), time) = Sample(plan, time)
  <2> DEFINE longer == Append(front, ref)
  <2>1. /\ longer \in Seq(Reference) /\ Len(longer) = Len(plan) + 1
        /\ \A i \in 1 .. Len(plan) : longer[i] = front[i]
        /\ longer[Len(plan) + 1] = ref
    BY <1>6
  <2> HIDE DEF longer
  <2>2. EndedAt(longer, time, n)
    <3>1. ASSUME NEW i \in 1 .. Len(longer)
          PROVE  i <= n <=> longer[i].end <= time
      <4>1. CASE i <= Len(plan) - 1
        <5>1. i \in 1 .. Len(plan) - 1 /\ i \in 1 .. Len(plan)
          BY <1>1, <2>1, <4>1
        <5>2. longer[i] = plan[i]
          BY <1>6, <2>1, <5>1
        <5>3. QED
          BY <5>1, <5>2 DEF EndedAt
      <4>2. CASE i = Len(plan)
        <5>1. longer[i].end \in Nat /\ longer[i] = front[Len(plan)]
          BY <1>1, <2>1, <4>2, EndTypes
        <5>2. QED
          BY <1>1, <1>4, <1>6, <4>2, <5>1
      <4>3. CASE i = Len(plan) + 1
        BY <1>1, <1>2, <2>1, <4>3
      <4>4. QED
        BY <1>1, <2>1, <4>1, <4>2, <4>3
    <3>2. QED
      BY <1>1, <2>1, <3>1 DEF EndedAt
  <2>3. Owner(longer, time) = longer[n + 1]
    BY <1>1, <1>4, <2>1, <2>2, OwnerAt
  <2>4. Owner(longer, time) = front[n + 1]
    BY <1>5, <2>1, <2>3
  <2>5. Flown(front[n + 1], time) = Flown(plan[n + 1], time)
    <3>1. CASE n + 1 = Len(plan)
      BY <1>6, <3>1
    <3>2. CASE n + 1 # Len(plan)
      <4>1. n + 1 \in 1 .. Len(plan) - 1
        BY <1>1, <1>5, <3>2
      <4>2. QED
        BY <1>6, <4>1
    <3>3. QED
      BY <3>1, <3>2
  <2>6. QED
    BY <1>5, <2>4, <2>5, OwnerFlies DEF longer
<1>7. CASE ~CanAppend(plan, ref)
  BY <1>7 DEF AppendTo
<1>8. CASE CanAppend(plan, ref) /\ ref.start >= Back(plan).end
  <2>1. AppendTo(plan, ref) = Append(plan, ref)
    BY <1>8 DEF AppendTo
  <2>2. QED
    BY <1>1, <1>3, <1>6, <2>1
<1>9. CASE CanAppend(plan, ref) /\ ~(ref.start >= Back(plan).end)
  <2> DEFINE last == Truncate(Back(plan), ref.start)
             cut  == [plan EXCEPT ![Len(plan)] = last]
  <2>1. AppendTo(plan, ref) = Append(cut, ref)
    BY <1>9 DEF AppendTo, Back
  <2>2. Back(plan).kind = "hover"
    BY <1>9 DEF CanAppend
  <2>3. /\ last \in Reference
        /\ last.goal = Back(plan).goal /\ last.kind = "hover"
        /\ last.end = Back(plan).end \/ last.end = ref.start
    BY <1>1, <1>2, <2>2 DEF Truncate, Reference
  <2> HIDE DEF last
  <2>4. /\ cut \in Seq(Reference) /\ Len(cut) = Len(plan)
        /\ \A i \in 1 .. Len(plan) : cut[i] = IF i = Len(plan) THEN last ELSE plan[i]
    BY <1>1, <2>3, ExceptSeq
  <2> HIDE DEF cut
  <2>5. /\ \A i \in 1 .. Len(plan) - 1 : cut[i] = plan[i]
        /\ cut[Len(plan)] = last
    BY <1>1, <2>4
  <2>6. time < last.end
    BY <1>2, <1>3, <2>3
  <2>7. Flown(last, time) = Flown(Back(plan), time)
    BY <2>2, <2>3 DEF Flown
  <2>8. Sample(Append(cut, ref), time) = Sample(plan, time)
    BY <1>1, <1>6, <2>4, <2>5, <2>6, <2>7
  <2>9. QED
    BY <2>1, <2>8
<1>10. QED
  BY <1>7, <1>8, <1>9

\* Numbers in order are divided by any other.
LEMMA Divided ==
  ASSUME NEW N \in Nat, NEW f, \A i \in 1 .. N : f[i] \in Int,
         \A i, j \in 1 .. N : i < j => f[i] <= f[j], NEW bound \in Int
  PROVE  \E n \in 0 .. N : \A i \in 1 .. N : i <= n <=> f[i] <= bound
<1> DEFINE above == {i \in 1 .. N : bound < f[i]}
<1>1. CASE above = {}
  <2>1. \A i \in 1 .. N : i <= N /\ f[i] <= bound
    BY <1>1
  <2>2. N \in 0 .. N
    OBVIOUS
  <2>3. QED
    BY <2>1, <2>2
<1>2. CASE above # {}
  <2>1. above \subseteq Nat
    OBVIOUS
  <2>2. PICK first \in above : \A j \in above : ~(<<j, first>> \in OpToRel(<, Nat))
    BY ZenonT(60), <1>2, <2>1, NatLessThanWellFounded, WFMin
  <2>3. ASSUME NEW j \in above PROVE first <= j
    <3>1. SUFFICES ASSUME j < first PROVE FALSE
      OBVIOUS
    <3>2. <<j, first>> \in OpToRel(<, Nat)
      BY <2>1, <3>1 DEF OpToRel
    <3>3. QED
      BY ZenonT(60), <2>2, <3>2
  <2>4. \A i \in 1 .. N : i <= first - 1 <=> f[i] <= bound
    <3>1. ASSUME NEW i \in 1 .. N, i <= first - 1
          PROVE  f[i] <= bound
      BY <2>3, <3>1
    <3>2. ASSUME NEW i \in 1 .. N, ~(i <= first - 1)
          PROVE  ~(f[i] <= bound)
      <4>1. f[first] <= f[i]
        BY <3>2
      <4>2. QED
        BY <4>1
    <3>3. QED
      BY <3>1, <3>2
  <2>5. first - 1 \in 0 .. N
    OBVIOUS
  <2>6. QED
    BY <2>4, <2>5
<1>3. QED
  BY <1>1, <1>2

-----------------------------------------------------------------------------
\* The cycle's bookkeeping keeps what is planned.
LEMMA RunKeepsPlan ==
  ASSUME PlanInv, Run, refs # <<>>, NEW time \in Times, time >= now',
         Searchable(refs, time)
  PROVE  SameAt(refs, refs', time)
<1>1. PICK n : EndedAt(refs, time, n)
  BY DEF Searchable, EndedAt
<1>2. refs \in Seq(Reference) /\ VelocityEndless(refs)
  BY DEF PlanInv, GoodPlan, OrderedPlan, IsPlan
<1>3. now' \in Nat /\ now' < Inf /\ time \in Int
  BY FlightPlanAssumption, InfAssumption DEF PlanInv, Run, Times
<1> DEFINE moved == MoveStart(refs, now')
<1>4. refs' = Expire(moved, now')
  BY DEF Run
<1>5. /\ moved \in Seq(Reference) /\ moved # <<>> /\ VelocityEndless(moved)
      /\ EndedAt(moved, time, n)
      /\ Sample(moved, time) = Sample(refs, time)
  BY <1>1, <1>2, <1>3, MoveStartFlies
<1> HIDE DEF moved
<1>6. Sample(Expire(moved, now'), time) = Sample(moved, time)
  BY <1>1, <1>3, <1>5, ExpireFlies
<1>7. QED
  BY <1>4, <1>5, <1>6 DEF SameAt

\* Appending keeps what is planned.
LEMMA AddKeepsPlan ==
  ASSUME PlanInv, refs # <<>>, NEW ref \in GoodReference, Add(ref),
         NEW time \in Times, Untouched(refs, ref.start, time), Searchable(refs, time)
  PROVE  SameAt(refs, refs', time)
<1>1. PICK n : EndedAt(refs, time, n)
  BY DEF Searchable, EndedAt
<1>2. refs \in Seq(Reference)
  BY DEF PlanInv, GoodPlan, OrderedPlan, IsPlan
<1>3. time \in Nat /\ time < Inf
  BY FlightPlanAssumption, InfAssumption DEF Times
<1>4. ref \in Reference /\ ref.start <= ref.end
  BY DEF GoodReference, TimedReference
<1>5. Sample(AppendTo(refs, ref), time) = Sample(refs, time)
  BY <1>1, <1>2, <1>3, <1>4, AppendFlies
<1>6. QED
  BY <1>5 DEF Add, SameAt

\* The start of a reference a command builds.
LEMMA Starts ==
  ASSUME NEW time, NEW end, NEW goal
  PROVE  Trajectory(time, end, goal).start = time /\ Hover(time, goal).start = time
BY DEF Trajectory, Hover

\* Whatever the operators command, what is planned is flown: neither dropping the
\* reference that has ended nor appending one changes a setpoint that is still to come,
\* at any time the queue can be searched for.
THEOREM PlansAreKept == Spec => PlanIsKept
<1>1. PlanInv /\ [Next]_vars =>
        [Run /\ refs # <<>> =>
           \A time \in Times :
             time >= now' /\ Searchable(refs, time) => SameAt(refs, refs', time)]_vars
  BY RunKeepsPlan
<1>2. PlanInv /\ [Next]_vars =>
        [\A goal \in Goals, start \in Times, duration \in Durations :
          refs # <<>> /\ (AddTrajectory(start, duration, goal) \/ AddHoverAt(start, goal)) =>
            \A time \in Times :
              time > now /\ Untouched(refs, start, time) /\ Searchable(refs, time)
                => SameAt(refs, refs', time)]_vars
  <2> SUFFICES ASSUME PlanInv, NEW goal \in Goals, NEW start \in Times, refs # <<>>,
                      NEW duration \in Durations,
                      AddTrajectory(start, duration, goal) \/ AddHoverAt(start, goal),
                      NEW time \in Times, Untouched(refs, start, time),
                      Searchable(refs, time)
               PROVE  SameAt(refs, refs', time)
    OBVIOUS
  <2>1. start \in Nat /\ start <= Inf
    BY FlightPlanAssumption, InfAssumption DEF Times
  <2>2. PICK ref \in GoodReference : Add(ref) /\ ref.start = start
    BY <2>1, BuiltGood, Starts DEF AddTrajectory, AddHoverAt
  <2>3. QED
    BY <2>2, AddKeepsPlan
<1>3. Spec => ExpireKeepsPlan
  BY <1>1, PlanInvariant, PTL DEF Spec, ExpireKeepsPlan
<1>4. Spec => AppendKeepsPlan
  BY <1>2, PlanInvariant, PTL DEF Spec, AppendKeepsPlan
<1>5. QED
  BY <1>3, <1>4 DEF PlanIsKept

-----------------------------------------------------------------------------
(***************************************************************************)
(* Two commands                                                            *)
(***************************************************************************)
\* A queue whose ends are in order can be searched at any time.
LEMMA OrderedEnds ==
  ASSUME PlanInv, EndsOrdered, NEW time \in Int
  PROVE  \E n : EndedAt(refs, time, n)
<1>1. refs \in Seq(Reference) /\ Len(refs) \in Nat /\ DOMAIN refs = 1 .. Len(refs)
  BY DEF PlanInv, GoodPlan, OrderedPlan, IsPlan
<1> DEFINE end == [i \in 1 .. Len(refs) |-> refs[i].end]
<1>2. \A i \in 1 .. Len(refs) : end[i] = refs[i].end /\ end[i] \in Int
  BY <1>1, EndTypes
<1>3. \A i, j \in 1 .. Len(refs) : i < j => end[i] <= end[j]
  BY <1>1, <1>2 DEF EndsOrdered
<1> HIDE DEF end
<1>4. \E n \in 0 .. Len(refs) : \A i \in 1 .. Len(refs) : i <= n <=> end[i] <= time
  BY <1>1, <1>2, <1>3, Divided
<1>5. QED
  BY <1>2, <1>4 DEF EndedAt

\* The vehicle flies the last reference: those in front of it have ended.
LEMMA OthersEnded ==
  ASSUME PlanInv, FliesLast, NEW n, EndedAt(refs, now, n)
  PROVE  \A i \in 1 .. Len(refs) - 1 : refs[i].end <= now
<1>1. refs \in Seq(Reference) /\ now \in Int
  BY DEF PlanInv, GoodPlan, OrderedPlan, IsPlan
<1>2. /\ n \in 0 .. Len(refs)
      /\ \A i \in 1 .. Len(refs) : i <= n <=> refs[i].end <= now
  BY DEF EndedAt
<1>3. Search(refs, now) = n
  BY <1>1, <1>2, SearchFinds
<1>4. n >= Len(refs) - 1
  BY <1>3 DEF FliesLast
<1>5. QED
  BY <1>1, <1>2, <1>4

\* The last reference is cut short at a time after its start.
LEMMA CutEnds ==
  ASSUME NEW plan \in Seq(Reference), plan # <<>>, NEW time \in Nat,
         Back(plan).start < time,
         \A i \in 1 .. Len(plan) - 1 : plan[i].end <= time
  PROVE  LET cut == [plan EXCEPT ![Len(plan)] = Truncate(@, time)]
         IN /\ cut \in Seq(Reference) /\ Len(cut) = Len(plan)
            /\ \A i \in 1 .. Len(cut) : cut[i].end <= time
<1> DEFINE last == Truncate(Back(plan), time)
           cut  == [plan EXCEPT ![Len(plan)] = last]
<1>1. /\ Len(plan) \in Nat /\ Len(plan) \in 1 .. Len(plan)
      /\ Back(plan) \in Reference /\ Back(plan) = plan[Len(plan)]
      /\ Back(plan).start \in Nat
  BY EndTypes DEF Back
<1>2. last \in Reference /\ last.end = time
  <2>1. ~(time <= Back(plan).start)
    BY <1>1
  <2>2. QED
    BY <1>1, <2>1 DEF Truncate, Reference
<1> HIDE DEF last
<1>3. /\ cut \in Seq(Reference) /\ Len(cut) = Len(plan)
      /\ \A i \in 1 .. Len(plan) : cut[i] = IF i = Len(plan) THEN last ELSE plan[i]
  BY <1>1, <1>2, ExceptSeq
<1> HIDE DEF cut
<1>4. ASSUME NEW i \in 1 .. Len(cut) PROVE cut[i].end <= time
  <2>1. CASE i = Len(plan)
    BY <1>2, <1>3, <2>1
  <2>2. CASE i # Len(plan)
    <3>1. i \in 1 .. Len(plan) - 1 /\ cut[i] = plan[i]
      BY <1>1, <1>3, <2>2
    <3>2. QED
      BY <3>1
  <2>3. QED
    BY <2>1, <2>2
<1>5. cut = [plan EXCEPT ![Len(plan)] = Truncate(@, time)]
  BY DEF cut, last, Back
<1>6. QED
  BY Zenon, <1>3, <1>4, <1>5

\* forceHover() of a vehicle that flies the last reference.
LEMMA ForceHoverNow ==
  ASSUME PlanInv, NEW goal \in Goals, ForceHover(goal),
         refs # <<>> => FliesLast /\ Searchable(refs, now)
  PROVE  Holds(refs', goal)
<1> DEFINE hover == Hover(now, goal)
<1>1. /\ refs \in Seq(Reference) /\ now \in Nat /\ OrderedPlan(refs)
      /\ hover \in Reference /\ hover.start = now
  <2>1. refs \in Seq(Reference) /\ OrderedPlan(refs)
    BY DEF PlanInv, GoodPlan, OrderedPlan, IsPlan
  <2>2. now \in Nat /\ now <= Inf
    BY CommandTimes
  <2>3. hover \in Reference
    BY <2>2, BuiltGood DEF GoodReference, TimedReference
  <2>4. QED
    BY <2>1, <2>2, <2>3, Starts
<1>2. refs' = InsertInto(refs, hover)
  BY DEF ForceHover
<1> HIDE DEF hover
<1>3. ASSUME NEW front \in Seq(Reference),
             \A i \in 1 .. Len(front) : front[i].end <= now,
             refs' = Append(front, hover)
      PROVE  Holds(refs', goal)
  <2>1. SUFFICES ASSUME NEW time \in Times, time > now
                 PROVE  Sample(refs', time) = [goal |-> goal, arrived |-> TRUE]
    BY DEF Holds
  <2>2. time \in Int
    BY DEF Times
  <2>3. \A i \in 1 .. Len(front) : front[i].end <= time
    BY <1>1, <1>3, <2>1, <2>2, EndTypes
  <2>4. Owner(refs', time) = hover
    BY <1>1, <1>3, <2>2, <2>3, LastOwns
  <2>5. hover.kind = "hover" /\ hover.goal = goal
    BY DEF hover, Hover
  <2>6. QED
    BY <2>4, <2>5 DEF Sample
<1>4. CASE refs = <<>>
  <2>1. refs' = Append(refs, hover)
    BY <1>2, <1>4 DEF InsertInto
  <2>2. \A i \in 1 .. Len(refs) : refs[i].end <= now
    BY <1>4
  <2>3. QED
    BY <1>1, <1>3, <2>1, <2>2
<1>5. CASE refs # <<>>
  <2>1. PICK n : EndedAt(refs, now, n)
    BY <1>5 DEF Searchable, EndedAt
  <2>2. \A i \in 1 .. Len(refs) - 1 : refs[i].end <= now
    BY <1>5, <2>1, OthersEnded
  <2>3. /\ Len(refs) \in Nat /\ Len(refs) \in 1 .. Len(refs)
        /\ Back(refs) = refs[Len(refs)] /\ Back(refs).end \in Nat
        /\ Back(refs).start < now
    BY <1>1, <1>5, EndTypes DEF Back, FliesLast
  <2>4. CASE now >= Back(refs).end
    <3>1. \A i \in 1 .. Len(refs) : refs[i].end <= now
      BY <1>1, <2>2, <2>3, <2>4, EndTypes
    <3>2. refs' = Append(refs, hover)
      BY <1>1, <1>2, <2>4 DEF InsertInto
    <3>3. QED
      BY <1>1, <1>3, <3>1, <3>2
  <2>5. CASE ~(now >= Back(refs).end)
    <3> DEFINE cut == [refs EXCEPT ![Len(refs)] = Truncate(@, now)]
    <3>1. StartsBefore(refs, now) = Len(refs)
      <4>1. /\ StartsBefore(refs, now) \in 0 .. Len(refs)
            /\ Len(refs) <= StartsBefore(refs, now)
        BY <1>1, <2>3, StartsBeforePartitions
      <4>2. QED
        BY <2>3, <4>1
    <3>2. refs' = Append(SubSeq(cut, 1, Len(refs)), hover)
      BY <1>1, <1>2, <1>5, <2>5, <3>1 DEF InsertInto
    <3>3. /\ cut \in Seq(Reference) /\ Len(cut) = Len(refs)
          /\ \A i \in 1 .. Len(cut) : cut[i].end <= now
      BY <1>1, <1>5, <2>2, <2>3, CutEnds
    <3> HIDE DEF cut
    <3>4. SubSeq(cut, 1, Len(refs)) = cut
      BY <3>3
    <3>5. QED
      BY <1>3, <3>2, <3>3, <3>4
  <2>6. QED
    BY <2>4, <2>5
<1>6. QED
  BY <1>4, <1>5

\* goToPose() takes up the plan where it ends, or the last reference it flies.
LEMMA GoToPoseSmooth ==
  ASSUME PlanInv, NEW goal \in Goals, NEW duration \in Durations,
         GoToPose(duration, goal), EndsOrdered,
         IsEndless(Back(refs)) => FliesLast, NoJumpAhead(refs, now)
  PROVE  NoJumpAhead(refs', now)
<1> DEFINE ref == Trajectory(NextStart, NextStart + duration, goal)
<1>1. /\ refs \in Seq(Reference) /\ refs # <<>> /\ now \in Nat /\ now < Inf
      /\ Inf \in Nat /\ duration \in Nat \ {0} /\ MaxTime \in Nat
      /\ MaxDuration \in Nat /\ MaxTime + 2 * MaxDuration < Inf
  BY FlightPlanAssumption, InfAssumption
     DEF Durations, PlanInv, GoodPlan, OrderedPlan, IsPlan, GoToPose
<1>2. /\ Len(refs) \in Nat \ {0} /\ Len(refs) \in 1 .. Len(refs)
      /\ Back(refs) = refs[Len(refs)] /\ Back(refs) \in Reference
      /\ Back(refs).end \in Nat /\ Back(refs).start \in Nat
  BY <1>1, EndTypes DEF Back
<1>3. NextStart \in Nat
  BY <1>1, CommandTimes
<1>4. /\ ref \in Reference /\ ref.start = NextStart
      /\ ref.end = NextStart + duration /\ ref.kind = "trajectory"
      /\ ref.start <= ref.end
  BY <1>1, <1>3 DEF Trajectory, Reference, Kinds
<1>5. refs' = AppendTo(refs, ref)
  BY DEF GoToPose, Add
<1> HIDE DEF ref
<1>6. SUFFICES ASSUME NEW time \in Times, time > now,
                      Sample(refs', time).arrived, Sample(refs', time + 1).arrived
               PROVE  Sample(refs', time).goal = Sample(refs', time + 1).goal
  BY DEF NoJumpAhead
<1>7. time \in Nat /\ time + 1 \in Nat /\ time < Inf
  BY <1>1 DEF Times
\* Behind references that have ended the new one is flown.
<1>8. ASSUME NEW front \in Seq(Reference), refs' = Append(front, ref), NEW t \in Nat,
             \A i \in 1 .. Len(front) : front[i].end <= t
      PROVE  Sample(refs', t) = Flown(ref, t)
  BY <1>4, <1>8, LastOwns, OwnerFlies
<1>9. ASSUME Sample(refs', time) = Flown(ref, time),
             Sample(refs', time + 1) = Flown(ref, time + 1)
      PROVE  Sample(refs', time).goal = Sample(refs', time + 1).goal
  BY <1>9 DEF Flown
<1>10. CASE ~CanAppend(refs, ref)
  BY <1>5, <1>6, <1>10 DEF AppendTo, NoJumpAhead
<1>11. CASE CanAppend(refs, ref) /\ ref.start >= Back(refs).end
  <2>1. refs' = Append(refs, ref)
    BY <1>5, <1>11 DEF AppendTo
  <2>2. ~IsEndless(Back(refs))
    BY <1>1, <1>2, <1>4, <1>11 DEF IsEndless, NextStart
  <2>3. ASSUME NEW t \in Nat, Back(refs).end <= t
        PROVE  Sample(refs', t) = Flown(ref, t)
    <3>1. ASSUME NEW i \in 1 .. Len(refs) PROVE refs[i].end <= t
      <4>1. refs[i].end \in Nat
        BY <1>1, EndTypes
      <4>2. refs[i].end <= Back(refs).end
        <5>1. CASE i = Len(refs)
          BY <1>2, <4>1, <5>1
        <5>2. CASE i # Len(refs)
          <6>1. i \in DOMAIN refs /\ Len(refs) \in DOMAIN refs /\ i < Len(refs)
            BY <1>1, <1>2, <5>2
          <6>2. QED
            BY <1>2, <6>1 DEF EndsOrdered
        <5>3. QED
          BY <5>1, <5>2
      <4>3. QED
        BY <1>2, <2>3, <4>1, <4>2
    <3>2. QED
      BY <1>1, <1>8, <2>1, <3>1
  <2>4. ASSUME NEW t \in Nat, t < Inf, t < Back(refs).end
        PROVE  Sample(refs', t) = Sample(refs, t)
    <3>1. t \in Int
      OBVIOUS
    <3>2. PICK n : EndedAt(refs, t, n)
      BY <3>1, OrderedEnds
    <3>3. t < ref.start
      BY <1>2, <1>3, <1>4, <1>11, <2>4
    <3>4. Untouched(refs, ref.start, t)
      BY <2>2, <2>4, <3>3 DEF Untouched
    <3>5. QED
      BY <1>1, <1>4, <1>5, <2>4, <3>2, <3>4, AppendFlies
  <2>5. CASE Back(refs).end <= time
    <3>1. Back(refs).end <= time + 1
      BY <1>2, <1>7, <2>5
    <3>2. QED
      BY <1>7, <1>9, <2>3, <2>5, <3>1
  <2>6. CASE time + 1 < Back(refs).end
    <3>1. time < Back(refs).end /\ time + 1 < Inf
      BY <1>1, <1>2, <1>7, <2>2, <2>6 DEF IsEndless
    <3>2. /\ Sample(refs', time) = Sample(refs, time)
          /\ Sample(refs', time + 1) = Sample(refs, time + 1)
      BY <1>7, <2>4, <2>6, <3>1
    <3>3. QED
      BY <1>6, <3>2 DEF NoJumpAhead
  <2>7. CASE time < Back(refs).end /\ Back(refs).end <= time + 1
    <3>1. Sample(refs', time + 1) = Flown(ref, time + 1)
      BY <1>7, <2>3, <2>7
    <3>2. time + 1 < ref.end
      BY <1>1, <1>2, <1>3, <1>4, <1>7, <1>11, <2>7
    <3>3. ~Flown(ref, time + 1).arrived
      BY <1>3, <1>1, <1>4, <1>7, <3>2 DEF Flown
    <3>4. QED
      BY <1>6, <3>1, <3>3
  <2>8. QED
    BY <1>2, <1>7, <2>5, <2>6, <2>7
<1>12. CASE CanAppend(refs, ref) /\ ~(ref.start >= Back(refs).end)
  <2>1. IsEndless(Back(refs)) /\ NextStart = now
    BY <1>1, <1>2, <1>4, <1>12 DEF NextStart
  <2>2. PICK n : EndedAt(refs, now, n)
    BY <1>1, OrderedEnds
  <2>3. /\ Back(refs).start < now
        /\ \A i \in 1 .. Len(refs) - 1 : refs[i].end <= now
    BY <2>1, <2>2, OthersEnded DEF FliesLast
  <2> DEFINE cut == [refs EXCEPT ![Len(refs)] = Truncate(@, now)]
  <2>4. refs' = Append(cut, ref)
    BY <1>1, <1>4, <1>5, <1>12, <2>1 DEF AppendTo
  <2>5. /\ cut \in Seq(Reference) /\ Len(cut) = Len(refs)
        /\ \A i \in 1 .. Len(cut) : cut[i].end <= now
    BY <1>1, <2>3, CutEnds
  <2> HIDE DEF cut
  <2>6. ASSUME NEW t \in Nat, t > now
        PROVE  Sample(refs', t) = Flown(ref, t)
    <3>1. \A i \in 1 .. Len(cut) : cut[i].end <= t
      BY <1>1, <2>5, <2>6, EndTypes
    <3>2. QED
      BY <1>8, <2>4, <2>5, <3>1
  <2>7. QED
    BY <1>1, <1>6, <1>7, <1>9, <2>6
<1>13. QED
  BY <1>10, <1>11, <1>12

\* goToPose() makes no jump, and forceHover() is flown from the next cycle on,
\* whatever else is in the queue, if it can be searched and the vehicle flies the last
\* reference of it.
THEOREM CommandsAreFlown == Spec => CommandsTakeEffect
<1>1. PlanInv /\ [Next]_vars =>
        [\A goal \in Goals, duration \in Durations :
           /\ GoToPose(duration, goal)
           /\ EndsOrdered
           /\ IsEndless(Back(refs)) => FliesLast
           /\ NoJumpAhead(refs, now)
           => NoJumpAhead(refs', now)]_vars
  BY GoToPoseSmooth
<1>2. PlanInv /\ [Next]_vars =>
        [\A goal \in Goals :
           /\ ForceHover(goal)
           /\ refs # <<>> => FliesLast /\ Searchable(refs, now)
           => Holds(refs', goal)]_vars
  BY ForceHoverNow
<1>3. Spec => LateGoToPoseAvoidsJumps
  BY <1>1, PlanInvariant, PTL DEF Spec, LateGoToPoseAvoidsJumps
<1>4. Spec => LastForceHoverTakesOver
  BY <1>2, PlanInvariant, PTL DEF Spec, LastForceHoverTakesOver
<1>5. QED
  BY <1>3, <1>4 DEF CommandsTakeEffect
=============================================================================
