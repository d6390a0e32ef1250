-------------------------- MODULE CtrlBridgeProofs --------------------------
(***************************************************************************)
(* agi::CtrlBridge is a BridgeBase that also reads what the flight         *)
(* controller sends back: the safety of both parts, for every set of       *)
(* client threads, every limit, every message and every size of buffer.    *)
(*                                                                         *)
(* The invariants of BridgeBase need a strengthening: that the guard is    *)
(* about to count only while the counter is below the limit, and that an   *)
(* active bridge has no history of stale packets.                          *)
(*                                                                         *)
(* The feedback is about what is in flight: the invariant follows every    *)
(* byte of every message from the flight controller through the line into  *)
(* the buffer, and says of the messages that must be decoded (those that   *)
(* neither the line nor an early end has spoiled) that the reading thread  *)
(* will cut them out whole, however the bytes are split between its reads. *)
(* What the stuffing yields is proved for every block, by taking the       *)
(* shortest block it would be wrong for.                                   *)
(***************************************************************************)
EXTENDS BridgeBase, CtrlFeedback, TLAPS, FiniteSetTheorems, SequenceTheorems,
        WellFoundedInduction

-----------------------------------------------------------------------------
\* The state of BridgeBase keeps its types, the counter its sign: send()
\* decrements it only while it is positive.
THEOREM TypeCorrect == Spec => []TypeOK
<1>1. Init => TypeOK
  <2> SUFFICES ASSUME Init PROVE TypeOK
    OBVIOUS
  <2>1. pc \in [Clients -> ClientPcs] /\ sees \in [Clients -> BOOLEAN]
    BY DEF Init, ClientPcs
  <2>2. QED
    BY <2>1 DEF Init, TypeOK, GuardPcs, Packets
<1>2. TypeOK /\ [Next]_vars => TypeOK'
  <2> SUFFICES ASSUME TypeOK, [Next]_vars PROVE TypeOK'
    OBVIOUS
  <2> USE DEF TypeOK, ClientPcs, GuardPcs, Packets
  <2>1. ASSUME NEW c \in Clients, Send(c) PROVE TypeOK'
    <3>1. CASE SendChecks(c)
      BY <3>1 DEF SendChecks, Goto, guardVars
    <3>2. CASE SendMarks(c)
      BY <3>2 DEF SendMarks, Goto, guardVars
    <3>3. CASE SendLoads(c)
      BY <3>3 DEF SendLoads, Goto, guardVars
    <3>4. ASSUME NEW valid \in BOOLEAN, NEW o \in Outcomes,
                 SendTransmits(c, valid, o)
          PROVE TypeOK'
      <4>1. receiver' \in Packets /\ stale' \subseteq Threads
        BY <3>4 DEF SendTransmits, Transmit, Packet, Threads
      <4>2. QED
        BY <3>4, <4>1 DEF SendTransmits, Goto, guardVars
    <3>5. CASE SendSettles(c)
      BY <3>5 DEF SendSettles, Goto, guardVars
    <3>6. QED
      BY <2>1, <3>1, <3>2, <3>3, <3>4, <3>5 DEF Send
  <2>2. ASSUME NEW c \in Clients, Activate(c) PROVE TypeOK'
    BY <2>2 DEF Activate, ActivateChecks, ActivateStores, Goto, guardVars
  <2>3. ASSUME NEW c \in Clients, Deactivate(c) PROVE TypeOK'
    BY <2>3 DEF Deactivate, Disarm, clientVars, guardVars
  <2>4. ASSUME NEW c \in Clients, Reset(c) PROVE TypeOK'
    <3>1. CASE ResetClears(c)
      BY <3>1 DEF ResetClears, Goto, guardVars
    <3>2. CASE ResetForgets(c)
      BY <3>2 DEF ResetForgets, Goto, guardVars
    <3>3. QED
      BY <2>4, <3>1, <3>2 DEF Reset
  <2>5. CASE GuardStep
    <3>1. CASE GuardNotified \/ GuardTimesOut \/ GuardLoads \/ GuardDecides
      BY <3>1 DEF GuardNotified, GuardTimesOut, GuardLoads, GuardDecides,
                  GuardMoves, clientVars, guardVars
    <3>2. CASE GuardChecksHeard \/ GuardChecksLimit \/ GuardCounts
      BY <3>2 DEF GuardChecksHeard, GuardChecksLimit, GuardCounts, GuardMoves,
                  clientVars
    <3>3. CASE GuardDisarms \/ GuardReloads
      BY <3>3 DEF GuardDisarms, GuardReloads, Disarm, GuardMoves, clientVars
    <3>4. ASSUME NEW o \in Outcomes, GuardSends(o) PROVE TypeOK'
      <4>1. receiver' \in Packets /\ stale' \subseteq Threads
        BY <3>4 DEF GuardSends, Transmit, Packet, Threads
      <4>2. QED
        BY <3>4, <4>1 DEF GuardSends, GuardMoves, clientVars
    <3>5. QED
      BY <2>5, <3>1, <3>2, <3>3, <3>4 DEF GuardStep
  <2>6. CASE UNCHANGED vars
    BY <2>6 DEF vars
  <2>7. QED
    BY <2>1, <2>2, <2>3, <2>4, <2>5, <2>6 DEF Next, ClientStep
<1>3. QED
  BY <1>1, <1>2, PTL DEF Spec

-----------------------------------------------------------------------------
\* The guard has found the bridge unlocked and not counted yet; nobody else
\* increments the counter in between.
AboutToCount == guardPc = "count" => nTimeouts < MaxTimeouts

\* Past the first condition of guardTimeout the lockout is switched on.
LockoutOn ==
  guardPc \in {"heard", "limit", "count", "disarm", "reload"} => MaxTimeouts > 0

CountInv == CountBounded /\ AboutToCount /\ LockoutOn

\* The timeout counter of a bridge never passes the limit, however sends,
\* resets and the guard's check and increment interleave.
THEOREM CountIsBounded == Spec => []CountBounded
<1> USE DEF CountInv, CountBounded, AboutToCount, LockoutOn
<1>1. Init => CountInv
  BY MaxTimeoutsAssumption DEF Init
<1>2. TypeOK /\ CountInv /\ [Next]_vars => CountInv'
  <2> SUFFICES ASSUME TypeOK, CountInv, [Next]_vars PROVE CountInv'
    OBVIOUS
  <2> USE MaxTimeoutsAssumption DEF TypeOK
  <2>1. ASSUME NEW c \in Clients, Send(c) PROVE CountInv'
    <3>1. nTimeouts' = nTimeouts \/ nTimeouts' = nTimeouts - 1 \/ nTimeouts' = 0
      BY <2>1 DEF Send, SendChecks, SendMarks, SendLoads, SendTransmits,
                  SendSettles
    <3>2. nTimeouts' <= nTimeouts /\ nTimeouts' \in Int
      BY <3>1
    <3>3. guardPc' = guardPc
      BY <2>1 DEF Send, SendChecks, SendMarks, SendLoads, SendTransmits,
                  SendSettles, guardVars
    <3>4. QED
      BY <3>2, <3>3
  <2>2. ASSUME NEW c \in Clients, Activate(c) \/ Deactivate(c) PROVE CountInv'
    BY <2>2 DEF Activate, ActivateChecks, ActivateStores, Deactivate, guardVars
  <2>3. ASSUME NEW c \in Clients, Reset(c) PROVE CountInv'
    BY <2>3 DEF Reset, ResetClears, ResetForgets, guardVars
  <2>4. CASE GuardNotified \/ GuardTimesOut \/ GuardLoads \/ GuardDecides
    BY <2>4 DEF GuardNotified, GuardTimesOut, GuardLoads, GuardDecides,
                GuardMoves, guardVars
  <2>5. CASE GuardChecksHeard
    BY <2>5 DEF GuardChecksHeard, GuardMoves
  <2>6. CASE GuardChecksLimit
    BY <2>6 DEF GuardChecksLimit, GuardMoves, locked
  <2>7. CASE GuardCounts
    BY <2>7 DEF GuardCounts, GuardMoves
  <2>8. CASE GuardDisarms \/ GuardReloads \/ (\E o \in Outcomes : GuardSends(o))
    BY <2>8 DEF GuardDisarms, GuardReloads, GuardSends, GuardMoves
  <2>9. CASE UNCHANGED vars
    BY <2>9 DEF vars
  <2>10. QED
    BY <2>1, <2>2, <2>3, <2>4, <2>5, <2>6, <2>7, <2>8, <2>9
       DEF Next, ClientStep, GuardStep
<1>3. CountInv => CountBounded
  OBVIOUS
<1>4. QED
  BY <1>1, <1>2, <1>3, TypeCorrect, PTL DEF Spec

-----------------------------------------------------------------------------
\* A rise of active_ ends the history of the fall before it.
HistoryOfFall == active => stale = {}

StaleInv == HistoryOfFall /\ AtMostOneStale

\* After a deactivate() no thread transmits a second armed packet before the
\* next activate(): what is in hand when active_ falls is all that can leave.
THEOREM StaleAtMostOnce == Spec => []AtMostOneStale
<1> USE DEF StaleInv, HistoryOfFall, AtMostOneStale, CarriesArmed
<1>1. Init => StaleInv
  BY DEF Init
<1>2. TypeOK /\ StaleInv /\ [Next]_vars => StaleInv'
  <2> SUFFICES ASSUME TypeOK, StaleInv, [Next]_vars PROVE StaleInv'
    OBVIOUS
  <2> USE GuardIsNoClient DEF TypeOK, Threads
  <2>1. ASSUME NEW c \in Clients, Send(c) PROVE StaleInv'
    <3>1. CASE SendChecks(c) \/ SendMarks(c) \/ SendSettles(c)
      BY <3>1 DEF SendChecks, SendMarks, SendSettles, Goto, guardVars
    <3>2. CASE SendLoads(c)
      BY <3>2 DEF SendLoads, Goto, guardVars
    <3>3. ASSUME NEW valid \in BOOLEAN, NEW o \in Outcomes,
                 SendTransmits(c, valid, o)
          PROVE StaleInv'
      <4>1. pc'[c] # "transmit" /\ \A d \in Clients \ {c} : pc'[d] = pc[d]
        BY <3>3 DEF SendTransmits, Goto
      <4>2. UNCHANGED <<active, sees, guardPc, guardSees>>
        BY <3>3 DEF SendTransmits, guardVars
      <4>3. stale' \subseteq stale \cup {c} /\ (active => stale' = stale)
        BY <3>3 DEF SendTransmits, Transmit
      <4>4. QED
        BY <4>1, <4>2, <4>3
    <3>4. QED
      BY <2>1, <3>1, <3>2, <3>3 DEF Send
  <2>2. ASSUME NEW c \in Clients, Activate(c) PROVE StaleInv'
    BY <2>2 DEF Activate, ActivateChecks, ActivateStores, Goto, guardVars
  <2>3. ASSUME NEW c \in Clients, Deactivate(c) PROVE StaleInv'
    BY <2>3 DEF Deactivate, Disarm, clientVars, guardVars
  <2>4. ASSUME NEW c \in Clients, Reset(c) PROVE StaleInv'
    BY <2>4 DEF Reset, ResetClears, ResetForgets, Goto, guardVars
  <2>5. CASE GuardNotified \/ GuardTimesOut \/ GuardLoads \/ GuardDecides
    BY <2>5 DEF GuardNotified, GuardTimesOut, GuardLoads, GuardDecides,
                GuardMoves, clientVars, guardVars
  <2>6. CASE GuardChecksHeard \/ GuardChecksLimit \/ GuardCounts
    BY <2>6 DEF GuardChecksHeard, GuardChecksLimit, GuardCounts, GuardMoves,
                clientVars
  <2>7. CASE GuardDisarms \/ GuardReloads
    BY <2>7 DEF GuardDisarms, GuardReloads, Disarm, GuardMoves, clientVars
  <2>8. ASSUME NEW o \in Outcomes, GuardSends(o) PROVE StaleInv'
    <3>1. guardPc' = "waiting" /\ UNCHANGED <<active, pc, sees, guardSees>>
      BY <2>8 DEF GuardSends, GuardMoves, clientVars
    <3>2. stale' \subseteq stale \cup {Guard} /\ (active => stale' = stale)
      BY <2>8 DEF GuardSends, Transmit
    <3>3. QED
      BY <3>1, <3>2
  <2>9. CASE UNCHANGED vars
    BY <2>9 DEF vars
  <2>10. QED
    BY <2>1, <2>2, <2>3, <2>4, <2>5, <2>6, <2>7, <2>8, <2>9
       DEF Next, ClientStep, GuardStep
<1>3. StaleInv => AtMostOneStale
  OBVIOUS
<1>4. QED
  BY <1>1, <1>2, <1>3, TypeCorrect, PTL DEF Spec

-----------------------------------------------------------------------------
(***************************************************************************)
(* Recursion along a sequence                                              *)
(***************************************************************************)
LEMMA Least ==
  ASSUME NEW S, S \subseteq Nat, S # {}
  PROVE  \E n \in S : \A m \in S : n <= m
<1> DEFINE Less == OpToRel(<, Nat)
<1>1. \E n \in S : \A m \in S : <<m, n>> \notin Less
  BY ZenonT(60), NatLessThanWellFounded, WFMin
<1>2. \A m, n \in Nat : m < n => <<m, n>> \in Less
  BY DEF OpToRel
<1> HIDE DEF Less
<1>3. \A m, n \in Nat : ~(m < n) => n <= m
  OBVIOUS
<1>4. QED
  BY ZenonT(60), <1>1, <1>2, <1>3

\* Induction, for a set instead of a predicate.
LEMMA AllNaturals ==
  ASSUME NEW S, 0 \in S, \A n \in Nat : n \in S => n + 1 \in S
  PROVE  Nat \subseteq S
<1>1. SUFFICES ASSUME Nat \ S # {} PROVE FALSE
  OBVIOUS
<1>2. PICK n \in Nat \ S : \A m \in Nat \ S : n <= m
  <2>1. Nat \ S \subseteq Nat
    OBVIOUS
  <2>2. QED
    BY <1>1, <2>1, Least
<1>3. n # 0
  BY <1>2
<1>4. n - 1 \in Nat /\ (n - 1) + 1 = n /\ ~(n <= n - 1)
  BY <1>2, <1>3
<1>5. n - 1 \in S
  BY <1>2, <1>4
<1>6. QED
  BY <1>2, <1>4, <1>5

\* The values of a recursion along 1 .. N: g takes one and a position to the next.
Runs(N, T, a, g) ==
  {st \in [0 .. N -> T] : st[0] = a /\ \A i \in 1 .. N : st[i] = g[<<st[i - 1], i>>]}

\* A recursion with steps that keep a type has a solution.
LEMMA Recursion ==
  ASSUME NEW N \in Nat, NEW T, NEW a \in T, NEW g \in [T \X (1 .. N) -> T]
  PROVE  Runs(N, T, a, g) # {}
<1> DEFINE Solves(st, n) ==
             st = [i \in 0 .. n |-> IF i = 0 THEN a ELSE g[<<st[i - 1], i>>]]
           S == {n \in Nat : n <= N => \E st \in [0 .. n -> T] : Solves(st, n)}
<1>1. 0 \in S
  <2>1. Solves([i \in 0 .. 0 |-> a], 0)
    OBVIOUS
  <2>2. [i \in 0 .. 0 |-> a] \in [0 .. 0 -> T]
    OBVIOUS
  <2>3. QED
    BY <2>1, <2>2
<1>2. ASSUME NEW n \in Nat, n \in S PROVE n + 1 \in S
  <2>1. SUFFICES ASSUME n + 1 <= N
                 PROVE  \E st \in [0 .. n + 1 -> T] : Solves(st, n + 1)
    OBVIOUS
  <2>2. PICK f \in [0 .. n -> T] : Solves(f, n)
    BY <1>2, <2>1
  <2> DEFINE next == g[<<f[n], n + 1>>]
             h == [i \in 0 .. n + 1 |-> IF i = n + 1 THEN next ELSE f[i]]
  <2>3. next \in T
    BY <2>1
  <2>4. h \in [0 .. n + 1 -> T]
    BY <2>3
  <2>5. \A i \in 0 .. n + 1 : h[i] = IF i = 0 THEN a ELSE g[<<h[i - 1], i>>]
    <3>1. SUFFICES ASSUME NEW i \in 0 .. n + 1
                   PROVE  h[i] = IF i = 0 THEN a ELSE g[<<h[i - 1], i>>]
      OBVIOUS
    <3>2. CASE i = n + 1
      <4>1. h[i - 1] = f[n] /\ i # 0
        BY <3>2
      <4>2. QED
        BY <3>2, <4>1
    <3>3. CASE i \in 0 .. n
      <4>1. f[i] = IF i = 0 THEN a ELSE g[<<f[i - 1], i>>]
        BY <2>2, <3>3
      <4>2. i # 0 => h[i - 1] = f[i - 1]
        BY <3>3
      <4>3. h[i] = f[i]
        BY <3>3
      <4>4. QED
        BY <4>1, <4>2, <4>3
    <3>4. QED
      BY <3>2, <3>3
  <2>6. Solves(h, n + 1)
    BY <2>4, <2>5
  <2>7. QED
    BY <2>4, <2>6
<1>3. N \in S
  <2> HIDE DEF S
  <2>1. QED
    BY <1>1, <1>2, AllNaturals
<1>4. QED
  <2>1. PICK st \in [0 .. N -> T] : Solves(st, N)
    BY <1>3
  <2>2. st[0] = a /\ \A i \in 1 .. N : st[i] = g[<<st[i - 1], i>>]
    BY <2>1
  <2>3. QED
    BY <2>2 DEF Runs

-----------------------------------------------------------------------------
(***************************************************************************)
(* Byte stuffing                                                           *)
(***************************************************************************)
\* Position j of what src is stuffed to holds a count, or is where one would be
\* behind it; otherwise it holds byte j - 1.
IsCount(src, j) == j = 1 \/ j = Len(src) + 2 \/ src[j - 1] = Delimiter

\* k is the next such position behind j.
NextCount(src, j, k) ==
  /\ k \in j + 1 .. Len(src) + 2 /\ IsCount(src, k)
  /\ \A l \in j + 1 .. k - 1 : ~IsCount(src, l)

\* msg is what src is stuffed to.
Stuffed(src, msg) ==
  /\ msg \in Seq(Byte) /\ Len(msg) = Len(src) + 1
  /\ \A j \in 1 .. Len(src) + 1 : ~IsCount(src, j) => msg[j] = src[j - 1]
  /\ \A j \in 1 .. Len(src) + 1 : \A k \in 1 .. Len(src) + 2 :
       IsCount(src, j) /\ NextCount(src, j, k) => msg[j] = CountByte(k - j)

LEMMA CountIsByte ==
  ASSUME NEW n \in Nat
  PROVE  CountByte(n) \in Byte
BY CobsAssumption DEF CountByte, Byte

\* There always is a next count.
LEMMA CountComes ==
  ASSUME NEW src \in Seq(Byte), NEW j \in 1 .. Len(src) + 1
  PROVE  \E k \in 1 .. Len(src) + 2 : NextCount(src, j, k)
<1> DEFINE N == Len(src)
           S == {k \in j + 1 .. N + 2 : IsCount(src, k)}
<1>1. N \in Nat
  OBVIOUS
<1>2. N + 2 \in S
  BY <1>1 DEF IsCount
<1>3. S \subseteq Nat
  BY <1>1
<1>4. PICK k \in S : \A m \in S : k <= m
  <2> HIDE DEF S
  <2>1. QED
    BY <1>2, <1>3, Least
<1>5. \A l \in j + 1 .. k - 1 : l \notin S
  BY <1>1, <1>4
<1>6. \A l \in j + 1 .. k - 1 : ~IsCount(src, l)
  BY <1>1, <1>4, <1>5
<1>7. QED
  BY <1>1, <1>4, <1>6 DEF NextCount

\* A byte at the end of a message, and one instead of another.
LEMMA Appended ==
  ASSUME NEW s \in Seq(Byte), NEW c \in Byte
  PROVE  /\ Append(s, c) \in Seq(Byte) /\ Len(Append(s, c)) = Len(s) + 1
         /\ Append(s, c)[Len(s) + 1] = c
         /\ \A j \in 1 .. Len(s) : Append(s, c)[j] = s[j]
OBVIOUS

LEMMA Overwritten ==
  ASSUME NEW s \in Seq(Byte), NEW c \in Byte, NEW at
  PROVE  /\ [s EXCEPT ![at] = c] \in Seq(Byte) /\ Len([s EXCEPT ![at] = c]) = Len(s)
         /\ at \in 1 .. Len(s) => [s EXCEPT ![at] = c][at] = c
         /\ \A j \in 1 .. Len(s) : j # at => [s EXCEPT ![at] = c][j] = s[j]
<1> DEFINE new == [s EXCEPT ![at] = c]
<1>1. s \in [1 .. Len(s) -> Byte] /\ Len(s) \in Nat
  OBVIOUS
<1>2. new \in [1 .. Len(s) -> Byte]
  BY <1>1
<1>3. new \in Seq(Byte) /\ Len(new) = Len(s)
  <2> HIDE DEF new
  <2>1. QED
    BY <1>1, <1>2
<1>4. QED
  BY <1>1, <1>3

\* What the first i bytes are stuffed to: the count at last is not written yet.
Stuffing(src, i, st) ==
  /\ st \in [dst : Seq(Byte), last : Nat, count : Nat]
  /\ Len(st.dst) = i + 1 /\ st.last \in 1 .. i + 1 /\ st.count = i + 2 - st.last
  /\ IsCount(src, st.last)
  /\ \A l \in st.last + 1 .. i + 1 : ~IsCount(src, l)
  /\ \A j \in 1 .. i + 1 : ~IsCount(src, j) => st.dst[j] = src[j - 1]
  /\ \A j \in 1 .. st.last - 1 : \A k \in 1 .. Len(src) + 2 :
       IsCount(src, j) /\ NextCount(src, j, k) => st.dst[j] = CountByte(k - j)

LEMMA StuffsNext ==
  ASSUME NEW src \in Seq(Byte), NEW i \in 0 .. Len(src) - 1, NEW st,
         Stuffing(src, i, st)
  PROVE  Stuffing(src, i + 1, StuffNext(st, src[i + 1]))
<1> DEFINE N == Len(src)
           c == src[i + 1]
           new == StuffNext(st, c)
<1>1. N \in Nat /\ i \in 0 .. N - 1 /\ i + 1 \in 1 .. N
  OBVIOUS
<1>2. /\ st.dst \in Seq(Byte) /\ Len(st.dst) = i + 1
      /\ st.last \in 1 .. i + 1 /\ st.count = i + 2 - st.last
      /\ st = [dst |-> st.dst, last |-> st.last, count |-> st.count]
  BY DEF Stuffing
<1>3. IsCount(src, i + 2) <=> c = Delimiter
  BY <1>1 DEF IsCount
<1>4. c \in Byte /\ 0 \in Byte
  BY <1>1, CobsAssumption DEF Byte
<1>5. /\ (i + 1) + 1 = i + 2 /\ (i + 1) + 2 = i + 3 /\ (i + 2) - 1 = i + 1
      /\ i + 2 \in 1 .. i + 2 /\ (i + 2) + 1 .. i + 2 = {}
      /\ i \in Nat /\ 1 .. i + 1 \subseteq 1 .. i + 2
  BY <1>1
<1>6. CASE c # Delimiter
  <2>1. new = [dst |-> Append(st.dst, c), last |-> st.last, count |-> st.count + 1]
    BY <1>2, <1>6 DEF StuffNext
  <2>2. new \in [dst : Seq(Byte), last : Nat, count : Nat]
    <3>1. Append(st.dst, c) \in Seq(Byte) /\ st.last \in Nat /\ st.count + 1 \in Nat
      BY <1>1, <1>2, <1>4, Appended
    <3>2. QED
      BY <2>1, <3>1
  <2>3. /\ Len(new.dst) = i + 2
        /\ new.dst[i + 2] = c
        /\ \A j \in 1 .. i + 1 : new.dst[j] = st.dst[j]
    <3>1. new.dst = Append(st.dst, c)
      BY <2>1
    <3>2. Len(st.dst) + 1 = i + 2 /\ 1 .. Len(st.dst) = 1 .. i + 1
      BY <1>2, <1>5
    <3> HIDE DEF new, c
    <3>3. /\ Len(Append(st.dst, c)) = Len(st.dst) + 1
          /\ Append(st.dst, c)[Len(st.dst) + 1] = c
          /\ \A j \in 1 .. Len(st.dst) : Append(st.dst, c)[j] = st.dst[j]
      BY <1>2, <1>4, Appended
    <3>4. QED
      BY <3>1, <3>2, <3>3
  <2>4. new.last = st.last /\ new.count = i + 3 - new.last
    BY <1>1, <1>2, <2>1
  <2>5. \A l \in st.last + 1 .. i + 2 : ~IsCount(src, l)
    BY <1>1, <1>2, <1>3, <1>6 DEF Stuffing
  <2>6. ASSUME NEW j \in 1 .. i + 2, ~IsCount(src, j)
        PROVE  new.dst[j] = src[j - 1]
    <3>1. CASE j = i + 2
      BY <1>5, <2>3, <3>1
    <3>2. CASE j \in 1 .. i + 1
      BY <2>3, <2>6, <3>2 DEF Stuffing
    <3>3. QED
      BY <1>1, <3>1, <3>2
  <2>7. ASSUME NEW j \in 1 .. st.last - 1, NEW k \in 1 .. N + 2,
               IsCount(src, j), NextCount(src, j, k)
        PROVE  new.dst[j] = CountByte(k - j)
    <3>1. j \in 1 .. i + 1
      <4>1. \A l \in 1 .. i + 1 : 1 .. l - 1 \subseteq 1 .. i + 1
        BY <1>1
      <4>2. QED
        BY <1>2, <4>1
    <3>2. st.dst[j] = CountByte(k - j)
      BY <2>7 DEF Stuffing
    <3>3. QED
      BY <2>3, <3>1, <3>2
  <2>8. IsCount(src, st.last) /\ st.last \in 1 .. i + 2
    BY <1>2, <1>5 DEF Stuffing
  <2> HIDE DEF new, c
  <2>9. /\ \A l \in new.last + 1 .. (i + 1) + 1 : ~IsCount(src, l)
        /\ \A j \in 1 .. (i + 1) + 1 : ~IsCount(src, j) => new.dst[j] = src[j - 1]
    BY <1>5, <2>4, <2>5, <2>6
  <2>10. \A j \in 1 .. new.last - 1 : \A k \in 1 .. N + 2 :
           IsCount(src, j) /\ NextCount(src, j, k) => new.dst[j] = CountByte(k - j)
    BY <2>4, <2>7
  <2>11. /\ Len(new.dst) = (i + 1) + 1 /\ new.last \in 1 .. (i + 1) + 1
         /\ new.count = (i + 1) + 2 - new.last /\ IsCount(src, new.last)
    BY <1>5, <2>3, <2>4, <2>8
  <2>12. QED
    BY <2>2, <2>9, <2>10, <2>11 DEF Stuffing, new, c
<1>7. CASE c = Delimiter
  <2> DEFINE old == [st.dst EXCEPT ![st.last] = CountByte(st.count)]
  <2>1. new = [dst |-> Append(old, 0), last |-> i + 2, count |-> 1]
    <3>1. Len(st.dst) + 1 = i + 2
      BY <1>2, <1>5
    <3>2. QED
      BY <1>7, <3>1 DEF StuffNext
  <2>2. CountByte(st.count) \in Byte
    <3>1. st.count \in Nat
      BY <1>1, <1>2
    <3>2. QED
      BY <3>1, CountIsByte
  <2>3. /\ old \in Seq(Byte) /\ Len(old) = i + 1
        /\ old[st.last] = CountByte(st.count)
        /\ \A j \in 1 .. i + 1 : j # st.last => old[j] = st.dst[j]
    BY <1>2, <2>2, Overwritten
  <2> HIDE DEF old
  <2>4. new \in [dst : Seq(Byte), last : Nat, count : Nat]
    <3>1. Append(old, 0) \in Seq(Byte) /\ i + 2 \in Nat /\ 1 \in Nat
      BY <1>4, <1>5, <2>3, Appended
    <3>2. QED
      BY <2>1, <3>1
  <2>5. /\ Len(new.dst) = i + 2
        /\ \A j \in 1 .. i + 1 : new.dst[j] = old[j]
    <3>1. new.dst = Append(old, 0)
      BY <2>1
    <3> HIDE DEF new
    <3>2. QED
      BY <1>4, <1>5, <2>3, <3>1, Appended
  <2>6. new.last = i + 2 /\ new.count = i + 3 - new.last
    BY <1>1, <2>1
  <2>7. IsCount(src, i + 2)
    BY <1>3, <1>7
  <2>8. ASSUME NEW j \in 1 .. i + 2, ~IsCount(src, j)
        PROVE  new.dst[j] = src[j - 1]
    <3>1. j \in 1 .. i + 1 /\ j # st.last
      <4>1. j # st.last /\ j # i + 2
        BY <2>7, <2>8 DEF Stuffing
      <4>2. QED
        BY <1>1, <4>1
    <3>2. st.dst[j] = src[j - 1]
      BY <2>8, <3>1 DEF Stuffing
    <3>3. QED
      BY <2>3, <2>5, <3>1, <3>2
  <2>9. ASSUME NEW j \in 1 .. i + 1, NEW k \in 1 .. N + 2,
               IsCount(src, j), NextCount(src, j, k)
        PROVE  new.dst[j] = CountByte(k - j)
    <3>1. new.dst[j] = old[j]
      BY <2>5
    <3>2. CASE j \in 1 .. st.last - 1
      <4>1. st.dst[j] = CountByte(k - j)
        BY <2>9, <3>2 DEF Stuffing
      <4>2. j # st.last
        <5>1. \A l \in 1 .. i + 1 : l \notin 1 .. l - 1
          BY <1>1
        <5>2. QED
          BY <1>2, <3>2, <5>1
      <4>3. QED
        BY <2>3, <3>1, <4>1, <4>2
    <3>3. CASE j = st.last
      <4>1. k = i + 2
        <5>1. /\ k \in j + 1 .. N + 2 /\ IsCount(src, k)
              /\ \A l \in j + 1 .. k - 1 : ~IsCount(src, l)
          BY <2>9 DEF NextCount
        <5>2. \A l \in j + 1 .. i + 1 : ~IsCount(src, l)
          BY <3>3 DEF Stuffing
        <5>3. i + 2 \notin j + 1 .. k - 1
          BY <2>7, <5>1
        <5>4. k \notin j + 1 .. i + 1
          BY <5>1, <5>2
        <5>5. QED
          BY <1>1, <5>1, <5>3, <5>4
      <4>2. k - j = st.count
        BY <1>1, <1>2, <3>3, <4>1
      <4>3. QED
        BY <2>3, <3>1, <3>3, <4>2
    <3>4. CASE j \in st.last + 1 .. i + 1
      BY <2>9, <3>4 DEF Stuffing
    <3>5. j \in 1 .. st.last - 1 \/ j = st.last \/ j \in st.last + 1 .. i + 1
      <4>1. \A l, m \in 1 .. i + 1 : m \in 1 .. l - 1 \/ m = l \/ m \in l + 1 .. i + 1
        BY <1>1
      <4>2. QED
        BY <1>2, <4>1
    <3>6. QED
      BY <3>2, <3>3, <3>4, <3>5
  <2> HIDE DEF new, c
  <2>10. QED
    BY <1>5, <2>4, <2>5, <2>6, <2>7, <2>8, <2>9 DEF Stuffing, new, c
<1>8. QED
  BY <1>6, <1>7

LEMMA StuffEnds ==
  ASSUME NEW src \in Seq(Byte), NEW st, Stuffing(src, Len(src), st)
  PROVE  Stuffed(src, [st.dst EXCEPT ![st.last] = CountByte(st.count)])
<1> DEFINE N == Len(src)
           msg == [st.dst EXCEPT ![st.last] = CountByte(st.count)]
<1>1. N \in Nat
  OBVIOUS
<1>2. /\ st.dst \in Seq(Byte) /\ Len(st.dst) = N + 1
      /\ st.last \in 1 .. N + 1 /\ st.count = N + 2 - st.last
  BY DEF Stuffing
<1>3. CountByte(st.count) \in Byte
  <2>1. st.count \in Nat
    BY <1>1, <1>2
  <2>2. QED
    BY <2>1, CountIsByte
<1>4. /\ msg \in Seq(Byte) /\ Len(msg) = N + 1
      /\ msg[st.last] = CountByte(st.count)
      /\ \A j \in 1 .. N + 1 : j # st.last => msg[j] = st.dst[j]
  BY <1>2, <1>3, Overwritten
<1> HIDE DEF msg
<1>5. ASSUME NEW j \in 1 .. N + 1, ~IsCount(src, j)
      PROVE  msg[j] = src[j - 1]
  <2>1. j # st.last
    BY <1>5 DEF Stuffing
  <2>2. st.dst[j] = src[j - 1]
    BY <1>5 DEF Stuffing
  <2>3. QED
    BY <1>4, <2>1, <2>2
<1>6. ASSUME NEW j \in 1 .. N + 1, NEW k \in 1 .. N + 2,
             IsCount(src, j), NextCount(src, j, k)
      PROVE  msg[j] = CountByte(k - j)
  <2>1. CASE j \in 1 .. st.last - 1
    <3>1. st.dst[j] = CountByte(k - j)
      BY <1>6, <2>1 DEF Stuffing
    <3>2. j # st.last
      <4>1. \A l \in 1 .. N + 1 : l \notin 1 .. l - 1
        BY <1>1
      <4>2. QED
        BY <1>2, <2>1, <4>1
    <3>3. QED
      BY <1>4, <3>1, <3>2
  <2>2. CASE j = st.last
    <3>1. k \in j + 1 .. N + 2 /\ IsCount(src, k)
      BY <1>6 DEF NextCount
    <3>2. k \notin j + 1 .. N + 1
      BY <2>2, <3>1 DEF Stuffing
    <3>3. k - j = st.count
      <4>1. \A l \in 1 .. N + 1 : \A m \in l + 1 .. N + 2 :
              m \notin l + 1 .. N + 1 => m - l = N + 2 - l
        BY <1>1
      <4>2. k - j = N + 2 - j
        BY <3>1, <3>2, <4>1
      <4>3. QED
        BY <1>2, <2>2, <4>2
    <3>4. QED
      BY <1>4, <2>2, <3>3
  <2>3. CASE j \in st.last + 1 .. N + 1
    BY <1>6, <2>3 DEF Stuffing
  <2>4. j \in 1 .. st.last - 1 \/ j = st.last \/ j \in st.last + 1 .. N + 1
    <3>1. \A l, m \in 1 .. N + 1 : m \in 1 .. l - 1 \/ m = l \/ m \in l + 1 .. N + 1
      BY <1>1
    <3>2. QED
      BY <1>2, <3>1
  <2>5. QED
    BY <2>1, <2>2, <2>3, <2>4
<1>7. QED
  BY <1>4, <1>5, <1>6 DEF Stuffed, msg

LEMMA StuffRuns ==
  ASSUME NEW src \in Seq(Byte)
  PROVE  Stuffed(src, Stuff(src))
<1> DEFINE N == Len(src)
           T == [dst : Seq(Byte), last : Nat, count : Nat]
           a == [dst |-> <<0>>, last |-> 1, count |-> 1]
           IsRun(st) == st = [i \in 0 .. N |-> IF i = 0 THEN a
                                               ELSE StuffNext(st[i - 1], src[i])]
           st == CHOOSE st : IsRun(st)
<1>1. N \in Nat
  OBVIOUS
<1>2. a \in T
  BY CobsAssumption DEF Byte
<1>3. ASSUME NEW u \in T, NEW c \in Byte
      PROVE  StuffNext(u, c) \in T
  <2> DEFINE old == [u.dst EXCEPT ![u.last] = CountByte(u.count)]
  <2>1. 0 \in Byte
    BY CobsAssumption DEF Byte
  <2>2. old \in Seq(Byte)
    BY CountIsByte, Overwritten
  <2> HIDE DEF old
  <2>3. Append(old, 0) \in Seq(Byte) /\ Append(u.dst, c) \in Seq(Byte)
    BY <2>1, <2>2
  <2>4. CASE c # Delimiter
    <3>1. StuffNext(u, c)
            = [dst |-> Append(u.dst, c), last |-> u.last, count |-> u.count + 1]
      BY <2>4 DEF StuffNext
    <3>2. QED
      BY <2>3, <3>1
  <2>5. CASE c = Delimiter
    <3>1. StuffNext(u, c)
            = [dst |-> Append(old, 0), last |-> Len(u.dst) + 1, count |-> 1]
      BY <2>5 DEF StuffNext, old
    <3>2. Len(u.dst) \in Nat
      OBVIOUS
    <3>3. QED
      BY <2>3, <3>1, <3>2
  <2>6. QED
    BY <2>4, <2>5
<1>4. \E u : IsRun(u)
  <2> DEFINE g == [p \in T \X (1 .. N) |-> StuffNext(p[1], src[p[2]])]
  <2>1. \A i \in 1 .. N : src[i] \in Byte
    OBVIOUS
  <2>2. g \in [T \X (1 .. N) -> T]
    <3> HIDE DEF T
    <3>1. QED
      BY <1>3, <2>1
  <2>3. PICK u \in [0 .. N -> T] :
               u[0] = a /\ \A i \in 1 .. N : u[i] = g[<<u[i - 1], i>>]
    <3> HIDE DEF T, a, g, N
    <3>1. Runs(N, T, a, g) # {}
      BY ZenonT(60), <1>1, <1>2, <2>2, Recursion
    <3>2. QED
      BY <3>1 DEF Runs
  <2>4. \A i \in 1 .. N : g[<<u[i - 1], i>>] = StuffNext(u[i - 1], src[i])
    <3> HIDE DEF T
    <3>1. \A i \in 1 .. N : i - 1 \in 0 .. N
      BY <1>1
    <3>2. QED
      BY <3>1
  <2>5. IsRun(u)
    <3>1. \A i \in 0 .. N : i # 0 => i \in 1 .. N
      BY <1>1
    <3> HIDE DEF T, g, a, N
    <3>2. u = [i \in 0 .. N |-> u[i]]
      OBVIOUS
    <3>3. \A i \in 0 .. N : u[i] = IF i = 0 THEN a ELSE StuffNext(u[i - 1], src[i])
      BY <2>3, <2>4, <3>1
    <3>4. QED
      BY <3>2, <3>3
  <2>6. QED
    BY <2>5
<1>5. IsRun(st)
  <2> HIDE DEF IsRun
  <2>1. QED
    BY <1>4
<1>6. Stuff(src) = [st[N].dst EXCEPT ![st[N].last] = CountByte(st[N].count)]
  BY DEF Stuff, Along
<1> HIDE DEF st
<1>7. st[0] = a /\ \A i \in 1 .. N : st[i] = StuffNext(st[i - 1], src[i])
  BY <1>1, <1>5
<1> DEFINE S == {i \in Nat : i <= N => Stuffing(src, i, st[i])}
<1>8. 0 \in S
  <2>1. /\ a.dst = <<0>> /\ Len(<<0>>) = 1 /\ a.last = 1 /\ a.count = 1
        /\ \A j \in 1 .. 1 : j = 1
    OBVIOUS
  <2>2. IsCount(src, 1)
    BY DEF IsCount
  <2>3. Stuffing(src, 0, a)
    <3> HIDE DEF a
    <3>1. 2 .. 1 = {} /\ 1 .. 0 = {} /\ 0 + 1 = 1 /\ 0 + 2 = 2 /\ 1 + 1 = 2
      OBVIOUS
    <3>2. QED
      BY <1>2, <2>1, <2>2, <3>1 DEF Stuffing
  <2>4. QED
    BY <1>7, <2>3
<1>9. ASSUME NEW i \in Nat, i \in S PROVE i + 1 \in S
  <2>1. SUFFICES ASSUME i + 1 <= N PROVE Stuffing(src, i + 1, st[i + 1])
    OBVIOUS
  <2>2. i \in 0 .. N - 1 /\ Stuffing(src, i, st[i])
    BY <1>1, <1>9, <2>1
  <2>3. st[i + 1] = StuffNext(st[i], src[i + 1])
    BY <1>1, <1>7, <2>1
  <2>4. QED
    BY <2>2, <2>3, StuffsNext
<1>10. Stuffing(src, N, st[N])
  <2>1. N \in S
    <3> HIDE DEF S
    <3>1. QED
      BY <1>1, <1>8, <1>9, AllNaturals
  <2>2. QED
    BY <1>1, <2>1
<1>11. Stuffed(src, [st[N].dst EXCEPT ![st[N].last] = CountByte(st[N].count)])
  BY <1>10, StuffEnds
<1>12. QED
  BY <1>6, <1>11

\* What is left of a block whose count fits into a byte.
LEMMA LeftOfCount ==
  ASSUME NEW n \in 1 .. Base - 1
  PROVE  Left(CountByte(n)) = n - 1 /\ CountByte(n) # Delimiter
<1>1. n % Base = n
  BY CobsAssumption
<1>2. QED
  BY <1>1, CobsAssumption DEF Left, CountByte

\* What was unstuffed of the first i + 1 bytes: the next count is as far as is left.
Unstuffing(src, i, st) ==
  /\ st \in [dst : Seq(Byte), count : Nat]
  /\ Len(st.dst) = i /\ \A j \in 1 .. i : st.dst[j] = src[j]
  /\ NextCount(src, i + 1, i + 2 + st.count)

LEMMA UnstuffsNext ==
  ASSUME NEW src \in Seq(Byte), Len(src) + 1 < Base, NEW msg, Stuffed(src, msg),
         NEW i \in 0 .. Len(src) - 1, NEW st, Unstuffing(src, i, st)
  PROVE  Unstuffing(src, i + 1, UnstuffNext(st, msg[i + 2]))
<1> DEFINE N == Len(src)
           c == msg[i + 2]
           new == UnstuffNext(st, c)
<1>1. N \in Nat /\ i \in 0 .. N - 1 /\ i + 1 \in 1 .. N /\ i + 2 \in 1 .. N + 1
      /\ i \in Nat /\ (i + 2) - 1 = i + 1 /\ (i + 1) + 1 = i + 2
      /\ N + 1 < Base
  OBVIOUS
<1>2. /\ st.dst \in Seq(Byte) /\ Len(st.dst) = i /\ st.count \in Nat
      /\ \A j \in 1 .. i : st.dst[j] = src[j]
      /\ i + 2 + st.count \in i + 2 .. N + 2 /\ IsCount(src, i + 2 + st.count)
      /\ \A l \in i + 2 .. i + 1 + st.count : ~IsCount(src, l)
  <2>1. NextCount(src, i + 1, i + 2 + st.count)
    BY DEF Unstuffing
  <2>2. /\ i + 2 + st.count \in (i + 1) + 1 .. N + 2 /\ IsCount(src, i + 2 + st.count)
        /\ \A l \in (i + 1) + 1 .. (i + 2 + st.count) - 1 : ~IsCount(src, l)
    BY <2>1 DEF NextCount
  <2>3. st.count \in Nat /\ st.dst \in Seq(Byte) /\ Len(st.dst) = i
        /\ \A j \in 1 .. i : st.dst[j] = src[j]
    BY DEF Unstuffing
  <2>4. \A n \in Nat : (i + 2 + n) - 1 = i + 1 + n
    BY <1>1
  <2>5. QED
    BY <1>1, <2>2, <2>3, <2>4
<1>3. src[i + 1] \in Byte /\ c \in Byte
  <2>1. msg \in Seq(Byte) /\ Len(msg) = N + 1
    BY DEF Stuffed
  <2>2. msg[i + 2] \in Byte
    BY <1>1, <2>1
  <2>3. QED
    BY <1>1, <2>2
<1>4. ASSUME NEW b \in Byte, new.dst = Append(st.dst, b), b = src[i + 1]
      PROVE  /\ new.dst \in Seq(Byte) /\ Len(new.dst) = i + 1
             /\ \A j \in 1 .. i + 1 : new.dst[j] = src[j]
  <2> HIDE DEF new
  <2>1. /\ Append(st.dst, b) \in Seq(Byte) /\ Len(Append(st.dst, b)) = i + 1
        /\ Append(st.dst, b)[i + 1] = b
        /\ \A j \in 1 .. i : Append(st.dst, b)[j] = st.dst[j]
    BY <1>2, Appended
  <2>2. \A j \in 1 .. i + 1 : j \in 1 .. i \/ j = i + 1
    BY <1>1
  <2>3. QED
    BY <1>2, <1>4, <2>1, <2>2
<1>5. CASE st.count # 0
  <2>1. new = [dst |-> Append(st.dst, c), count |-> st.count - 1]
    BY <1>5 DEF UnstuffNext
  <2>2. ~IsCount(src, i + 2)
    BY <1>1, <1>2, <1>5
  <2>3. c = src[i + 1]
    BY <1>1, <2>2 DEF Stuffed
  <2>4. st.count - 1 \in Nat /\ (i + 1) + 2 + (st.count - 1) = i + 2 + st.count
        /\ i + 2 + st.count \in (i + 2) + 1 .. N + 2
    <3>1. \A n \in Nat : n # 0 =>
            /\ n - 1 \in Nat /\ (i + 1) + 2 + (n - 1) = i + 2 + n
            /\ i + 2 + n \in i + 2 .. N + 2 => i + 2 + n \in (i + 2) + 1 .. N + 2
      BY <1>1
    <3>2. QED
      BY <1>2, <1>5, <3>1
  <2>5. NextCount(src, (i + 1) + 1, (i + 1) + 2 + (st.count - 1))
    <3>1. \A l \in (i + 2) + 1 .. (i + 2 + st.count) - 1 : ~IsCount(src, l)
      BY <1>1, <1>2
    <3>2. QED
      BY <1>1, <1>2, <2>4, <3>1 DEF NextCount
  <2>6. new.dst = Append(st.dst, c) /\ new.count = st.count - 1
        /\ new = [dst |-> new.dst, count |-> new.count]
    BY <2>1
  <2>7. /\ new.dst \in Seq(Byte) /\ Len(new.dst) = i + 1
        /\ \A j \in 1 .. i + 1 : new.dst[j] = src[j]
    BY <1>3, <1>4, <2>3, <2>6
  <2> HIDE DEF new, c
  <2>8. QED
    BY <2>4, <2>5, <2>6, <2>7 DEF Unstuffing, new, c
<1>6. CASE st.count = 0
  <2>1. new = [dst |-> Append(st.dst, Delimiter), count |-> Left(c)]
    BY <1>6 DEF UnstuffNext
  <2>2. IsCount(src, i + 2)
    BY <1>1, <1>2, <1>6
  <2>3. src[i + 1] = Delimiter
    BY <1>1, <2>2 DEF IsCount
  <2>4. PICK k \in 1 .. N + 2 : NextCount(src, i + 2, k)
    BY <1>1, CountComes
  <2>5. c = CountByte(k - (i + 2))
    BY <1>1, <2>2, <2>4 DEF Stuffed
  <2>6. k \in (i + 2) + 1 .. N + 2
    BY <2>4 DEF NextCount
  <2>7. k - (i + 2) \in 1 .. Base - 1
    BY <1>1, <2>6, CobsAssumption
  <2>8. Left(c) = k - (i + 2) - 1
    BY <2>5, <2>7, LeftOfCount
  <2>9. Left(c) \in Nat /\ (i + 1) + 2 + Left(c) = k
    BY <1>1, <2>6, <2>8
  <2>10. NextCount(src, (i + 1) + 1, (i + 1) + 2 + Left(c))
    BY <1>1, <2>4, <2>9
  <2>11. new.dst = Append(st.dst, Delimiter) /\ new.count = Left(c)
         /\ new = [dst |-> new.dst, count |-> new.count]
    BY <2>1
  <2>12. /\ new.dst \in Seq(Byte) /\ Len(new.dst) = i + 1
         /\ \A j \in 1 .. i + 1 : new.dst[j] = src[j]
    BY <1>3, <1>4, <2>3, <2>11
  <2> HIDE DEF new, c
  <2>13. QED
    BY <2>9, <2>10, <2>11, <2>12 DEF Unstuffing, new, c
<1>7. QED
  BY <1>2, <1>5, <1>6

\* The message that was stuffed, if no count of it is more than a byte can hold.
LEMMA Unstuffed ==
  ASSUME NEW src \in Seq(Byte), Len(src) + 1 < Base, NEW msg, Stuffed(src, msg)
  PROVE  Unstuff(msg) = src /\ ~Contains(msg, Delimiter)
<1> DEFINE N == Len(src)
           T == [dst : Seq(Byte), count : Nat]
           rest == Tail(msg)
           a == [dst |-> <<>>, count |-> Left(msg[1])]
           IsRun(st) == st = [i \in 0 .. Len(rest) |->
                                IF i = 0 THEN a ELSE UnstuffNext(st[i - 1], rest[i])]
           st == CHOOSE st : IsRun(st)
<1>1. N \in Nat /\ N + 1 < Base
  OBVIOUS
<1>2. /\ rest \in Seq(Byte) /\ Len(rest) = N
      /\ \A i \in 1 .. N : rest[i] = msg[i + 1]
  BY <1>1 DEF Stuffed
<1>3. ASSUME NEW j \in 1 .. N + 1
      PROVE  msg[j] # Delimiter
  <2>1. CASE ~IsCount(src, j)
    <3>1. msg[j] = src[j - 1] /\ j # 1 /\ src[j - 1] # Delimiter
      BY <1>1, <2>1 DEF Stuffed, IsCount
    <3>2. QED
      BY <3>1
  <2>2. CASE IsCount(src, j)
    <3>1. PICK k \in 1 .. N + 2 : NextCount(src, j, k)
      BY CountComes
    <3>2. k - j \in 1 .. Base - 1
      BY <1>1, <3>1, CobsAssumption DEF NextCount
    <3>3. msg[j] = CountByte(k - j)
      BY <2>2, <3>1 DEF Stuffed
    <3>4. QED
      BY <3>2, <3>3, LeftOfCount
  <2>3. QED
    BY <2>1, <2>2
<1>4. ~Contains(msg, Delimiter) /\ ~Contains(rest, Delimiter)
  <2>1. Len(msg) = N + 1
    BY DEF Stuffed
  <2>2. ~Contains(msg, Delimiter)
    BY <1>3, <2>1 DEF Contains
  <2>3. \A i \in 1 .. N : i + 1 \in 1 .. N + 1
    BY <1>1
  <2>4. \A i \in 1 .. Len(rest) : rest[i] # Delimiter
    <3> HIDE DEF rest
    <3>1. QED
      BY <1>2, <1>3, <2>3
  <2> HIDE DEF rest
  <2>5. QED
    BY <2>2, <2>4 DEF Contains
<1>5. Unstuffing(src, 0, a)
  <2>1. PICK k \in 1 .. N + 2 : NextCount(src, 1, k)
    <3>1. 1 \in 1 .. N + 1
      BY <1>1
    <3>2. QED
      BY <3>1, CountComes
  <2>2. IsCount(src, 1)
    BY DEF IsCount
  <2>3. msg[1] = CountByte(k - 1)
    BY <1>1, <2>1, <2>2 DEF Stuffed
  <2>4. k \in 1 + 1 .. N + 2
    BY <2>1 DEF NextCount
  <2>5. k - 1 \in 1 .. Base - 1
    BY <1>1, <2>4, CobsAssumption
  <2>6. Left(msg[1]) = k - 1 - 1
    BY <2>3, <2>5, LeftOfCount
  <2>7. Left(msg[1]) \in Nat /\ 0 + 2 + Left(msg[1]) = k /\ 0 + 1 = 1 /\ 1 .. 0 = {}
    BY <1>1, <2>4, <2>6
  <2>8. a.dst = <<>> /\ a.count = Left(msg[1]) /\ <<>> \in Seq(Byte) /\ Len(<<>>) = 0
        /\ a = [dst |-> a.dst, count |-> a.count]
    OBVIOUS
  <2> HIDE DEF a
  <2>9. QED
    BY <2>1, <2>7, <2>8 DEF Unstuffing
<1>6. ASSUME NEW u \in T, NEW c \in Byte, Left(c) \in Nat
      PROVE  UnstuffNext(u, c) \in T
  <2>1. Delimiter \in Byte
    BY CobsAssumption DEF Byte
  <2>2. Append(u.dst, c) \in Seq(Byte) /\ Append(u.dst, Delimiter) \in Seq(Byte)
    BY <2>1
  <2>3. u.count # 0 => u.count - 1 \in Nat
    OBVIOUS
  <2>4. QED
    BY <1>6, <2>2, <2>3 DEF UnstuffNext
<1>7. \A c \in Byte : Left(c) \in Nat
  <2>1. \A c \in Byte : c = 0 \/ c - 1 \in Nat
    BY CobsAssumption DEF Byte
  <2>2. Delimiter - 1 \in Nat
    BY CobsAssumption
  <2>3. QED
    BY <2>1, <2>2 DEF Left
<1>8. \E u : IsRun(u)
  <2> DEFINE g == [p \in T \X (1 .. N) |-> UnstuffNext(p[1], rest[p[2]])]
  <2>1. \A i \in 1 .. N : rest[i] \in Byte
    <3> HIDE DEF rest
    <3>1. QED
      BY <1>2
  <2>2. g \in [T \X (1 .. N) -> T]
    <3> HIDE DEF T, rest
    <3>1. QED
      BY <1>6, <1>7, <2>1
  <2>3. PICK u \in [0 .. N -> T] :
               u[0] = a /\ \A i \in 1 .. N : u[i] = g[<<u[i - 1], i>>]
    <3>1. a \in T
      BY <1>5 DEF Unstuffing
    <3> HIDE DEF T, a, g, N
    <3>2. Runs(N, T, a, g) # {}
      BY ZenonT(60), <1>1, <2>2, <3>1, Recursion
    <3>3. QED
      BY <3>2 DEF Runs
  <2>4. \A i \in 1 .. N : g[<<u[i - 1], i>>] = UnstuffNext(u[i - 1], rest[i])
    <3> HIDE DEF T, rest
    <3>1. \A i \in 1 .. N : i - 1 \in 0 .. N
      BY <1>1
    <3>2. QED
      BY <3>1
  <2>5. IsRun(u)
    <3>1. \A i \in 0 .. N : i # 0 => i \in 1 .. N
      BY <1>1
    <3> HIDE DEF T, g, a, N, rest
    <3>2. u = [i \in 0 .. N |-> u[i]]
      OBVIOUS
    <3>3. \A i \in 0 .. N :
            u[i] = IF i = 0 THEN a ELSE UnstuffNext(u[i - 1], rest[i])
      BY <2>3, <2>4, <3>1
    <3>4. QED
      BY <1>2, <3>2, <3>3
  <2>6. QED
    BY <2>5
<1>9. IsRun(st)
  <2> HIDE DEF IsRun
  <2>1. QED
    BY <1>8
<1>10. Unstuff(msg) = IF Contains(rest, Delimiter) \/ st[Len(rest)].count # 0
                      THEN Garbage ELSE st[Len(rest)].dst
  BY DEF Unstuff, Along
<1> HIDE DEF st
<1>11. st[0] = a /\ \A i \in 1 .. N : st[i] = UnstuffNext(st[i - 1], rest[i])
  <2> HIDE DEF a, rest
  <2>1. QED
    BY <1>1, <1>2, <1>9
<1> DEFINE S == {i \in Nat : i <= N => Unstuffing(src, i, st[i])}
<1>12. 0 \in S
  BY <1>5, <1>11
<1>13. ASSUME NEW i \in Nat, i \in S PROVE i + 1 \in S
  <2>1. SUFFICES ASSUME i + 1 <= N PROVE Unstuffing(src, i + 1, st[i + 1])
    OBVIOUS
  <2>2. i \in 0 .. N - 1 /\ Unstuffing(src, i, st[i])
    BY <1>1, <1>13, <2>1
  <2>3. i + 1 \in 1 .. N /\ (i + 1) - 1 = i /\ (i + 1) + 1 = i + 2
    BY <1>1, <2>1
  <2>4. st[i + 1] = UnstuffNext(st[i], msg[i + 2])
    <3> HIDE DEF rest
    <3>1. QED
      BY <1>2, <1>11, <2>3
  <2>5. QED
    BY <2>2, <2>4, UnstuffsNext
<1>14. Unstuffing(src, N, st[N])
  <2>1. N \in S
    <3> HIDE DEF S
    <3>1. QED
      BY <1>1, <1>12, <1>13, AllNaturals
  <2>2. QED
    BY <1>1, <2>1
<1>15. st[N].count = 0
  <2>1. /\ st[N].count \in Nat
        /\ N + 2 + st[N].count \in (N + 1) + 1 .. N + 2
    BY <1>14 DEF Unstuffing, NextCount
  <2>2. \A n \in Nat : N + 2 + n \in (N + 1) + 1 .. N + 2 => n = 0
    BY <1>1
  <2>3. QED
    BY <2>1, <2>2
<1>16. st[N].dst = src
  <2>1. /\ st[N].dst \in Seq(Byte) /\ Len(st[N].dst) = N
        /\ \A j \in 1 .. N : st[N].dst[j] = src[j]
    BY <1>14 DEF Unstuffing
  <2>2. src \in Seq(Byte) /\ Len(src) = N
    OBVIOUS
  <2>3. QED
    BY <2>1, <2>2, SeqEqual
<1>17. QED
  <2> HIDE DEF rest
  <2>1. QED
    BY <1>2, <1>4, <1>10, <1>15, <1>16

\* Stuff() is what Reference says.
LEMMA StuffedOnce ==
  ASSUME NEW src \in Seq(Byte), NEW msg, Stuffed(src, msg)
  PROVE  msg = Reference(src)
<1> DEFINE N == Len(src)
           framed == <<Delimiter>> \o src \o <<Delimiter>>
           behind(i) == {j \in i + 1 .. Len(framed) : framed[j] = Delimiter}
<1>1. N \in Nat /\ src \in Seq(Int) /\ Delimiter \in Int
  BY CobsAssumption DEF Byte
<1>2. /\ Len(framed) = N + 2
      /\ \A j \in 1 .. N + 2 : framed[j] = IF j = 1 \/ j = N + 2 THEN Delimiter
                                           ELSE src[j - 1]
  BY <1>1
<1> HIDE DEF framed
<1>3. \A j \in 1 .. N + 2 : framed[j] = Delimiter <=> IsCount(src, j)
  BY <1>1, <1>2 DEF IsCount
<1>4. ASSUME NEW j \in 1 .. N + 1
      PROVE  msg[j] = IF framed[j] = Delimiter THEN CountByte(Min(behind(j)) - j)
                      ELSE framed[j]
  <2>1. j \in 1 .. N + 2 /\ j # N + 2
    BY <1>1
  <2>2. CASE ~IsCount(src, j)
    <3>1. msg[j] = src[j - 1] /\ j # 1
      BY <2>2 DEF Stuffed, IsCount
    <3>2. framed[j] = src[j - 1] /\ framed[j] # Delimiter
      BY <1>2, <1>3, <2>1, <2>2, <3>1
    <3>3. QED
      BY <3>1, <3>2
  <2>3. CASE IsCount(src, j)
    <3>1. PICK k \in 1 .. N + 2 : NextCount(src, j, k)
      BY CountComes
    <3>2. /\ k \in j + 1 .. N + 2 /\ IsCount(src, k)
          /\ \A l \in j + 1 .. k - 1 : ~IsCount(src, l)
      BY <3>1 DEF NextCount
    <3>3. k \in behind(j)
      BY <1>2, <1>3, <3>2
    <3>4. \A m \in behind(j) : m \in Nat /\ k <= m
      <4>1. \A m \in j + 1 .. N + 2 : m \in 1 .. N + 2 /\ m \in Nat
        BY <1>1
      <4>2. \A m \in behind(j) : m \in j + 1 .. N + 2 /\ IsCount(src, m)
        BY <1>2, <1>3, <4>1
      <4>3. \A m \in behind(j) : m \notin j + 1 .. k - 1
        BY <3>2, <4>2
      <4> HIDE DEF behind
      <4>4. \A m \in j + 1 .. N + 2 : m \notin j + 1 .. k - 1 => k <= m
        BY <1>1, <3>2
      <4>5. QED
        BY <4>1, <4>2, <4>3, <4>4
    <3> HIDE DEF behind
    <3>5. Min(behind(j)) = k
      <4>1. \A m, n \in Nat : m <= n /\ n <= m => m = n
        OBVIOUS
      <4>2. QED
        BY <3>3, <3>4, <4>1 DEF Min
    <3>6. msg[j] = CountByte(k - j)
      BY <2>3, <3>1 DEF Stuffed
    <3>7. QED
      BY <1>3, <2>1, <2>3, <3>5, <3>6
  <2>4. QED
    BY <2>2, <2>3
<1>5. Reference(src) = [j \in 1 .. N + 1 |->
                          IF framed[j] = Delimiter THEN CountByte(Min(behind(j)) - j)
                          ELSE framed[j]]
  BY DEF Reference, framed
<1>6. msg = [j \in 1 .. N + 1 |-> msg[j]]
  BY DEF Stuffed
<1> HIDE DEF behind
<1>7. QED
  BY <1>4, <1>5, <1>6

\* Stuffing computes what it is meant to, leaves no delimiter, and unstuffing undoes
\* it, for every message short enough that its counts fit into a byte.  The longest
\* container has 238 bytes.
THEOREM StuffingCorrect ==
  ASSUME NEW src \in Seq(Byte), Len(src) + 1 < Base
  PROVE  StuffingIsRight(src)
BY StuffRuns, StuffedOnce, Unstuffed DEF StuffingIsRight

-----------------------------------------------------------------------------
(***************************************************************************)
(* What is on the line                                                     *)
(***************************************************************************)
LEMMA ContainerBytes ==
  ASSUME NEW c \in Containers
  PROVE  /\ c \in Seq(Byte) /\ Len(c) \in 1 .. 2
         /\ \A i \in 1 .. Len(c) : c[i] \in Messages
<1>1. PICK n \in 1 .. 2 : c \in [1 .. n -> Messages]
  BY DEF Containers
<1>2. Messages \subseteq Byte
  BY FeedbackAssumption, CobsAssumption DEF Messages, NoFeedback, Byte
<1>3. c \in [1 .. n -> Byte]
  BY <1>1, <1>2
<1>4. n \in Nat /\ c \in Seq(Byte) /\ Len(c) = n
  BY <1>1, <1>3
<1>5. QED
  BY <1>1, <1>4

\* What a container is encoded to, and decoded to again.
LEMMA EncodingIs ==
  ASSUME NEW c \in Containers
  PROVE  /\ Encoding(c).bytes \in Seq(Byte)
         /\ Len(Encoding(c).bytes) \in 2 .. 3
         /\ \A j \in 1 .. Len(Encoding(c).bytes) : Encoding(c).bytes[j] # Delimiter
         /\ Encoding(c).decoded = c
<1> DEFINE e == [of |-> c, bytes |-> Stuff(c), decoded |-> Unstuff(Stuff(c))]
<1>1. e \in Encodings
  BY DEF Encodings
<1>2. \A d \in Encodings : d.of = c => d = e
  BY DEF Encodings
<1>3. Encoding(c) = e
  <2>1. e.of = c
    OBVIOUS
  <2> HIDE DEF e
  <2>2. QED
    BY <1>1, <1>2, <2>1 DEF Encoding
<1>4. c \in Seq(Byte) /\ Len(c) \in 1 .. 2
  BY ContainerBytes
<1>5. Len(c) + 1 < Base
  <2>1. Base \in Nat /\ 3 < Base
    BY FeedbackAssumption, CobsAssumption
  <2>2. \A n \in 1 .. 2 : n + 1 < Base /\ n + 1 \in 2 .. 3
    BY <2>1
  <2>3. QED
    BY <1>4, <2>2
<1>6. Stuff(c) \in Seq(Byte) /\ Len(Stuff(c)) = Len(c) + 1
  BY <1>4, StuffRuns DEF Stuffed
<1>7. Unstuff(Stuff(c)) = c /\ ~Contains(Stuff(c), Delimiter)
  BY <1>4, <1>5, StuffRuns, Unstuffed
<1>8. Encoding(c).bytes = Stuff(c) /\ Encoding(c).decoded = c
  BY <1>3, <1>7
<1>9. Len(Stuff(c)) \in 2 .. 3
  <2>1. \A n \in 1 .. 2 : n + 1 \in 2 .. 3
    OBVIOUS
  <2>2. QED
    BY <1>4, <1>6, <2>1
<1>10. \A j \in 1 .. Len(Stuff(c)) : Stuff(c)[j] # Delimiter
  BY <1>7 DEF Contains
<1> HIDE DEF e
<1>11. QED
  BY <1>6, <1>8, <1>9, <1>10

\* A frame: a delimiter, what the container is encoded to, and delimiters.
LEMMA FrameIs ==
  ASSUME NEW c \in Containers
  PROVE  LET body == Encoding(c).bytes
             L    == Len(body)
         IN /\ Frame(c) \in Seq(Byte) /\ Len(Frame(c)) >= L + 2
            /\ Frame(c)[1] = Delimiter
            /\ \A j \in 2 .. L + 1 : Frame(c)[j] = body[j - 1]
            /\ \A j \in L + 2 .. Len(Frame(c)) : Frame(c)[j] = Delimiter
<1> DEFINE body == Encoding(c).bytes
           L    == Len(body)
           fill == Padding - ((Len(body) + 1) % Padding)
           tail == [i \in 1 .. fill |-> Delimiter]
<1>1. body \in Seq(Byte) /\ L \in 2 .. 3
  BY EncodingIs
<1>2. Delimiter \in Byte
  BY CobsAssumption DEF Byte
<1>3. fill \in Nat /\ fill >= 1
  <2>1. Padding \in Nat \ {0}
    BY FeedbackAssumption
  <2>2. \A n \in Nat : n % Padding \in 0 .. Padding - 1
    BY <2>1
  <2>3. Len(body) + 1 \in Nat
    BY <1>1
  <2>4. (Len(body) + 1) % Padding \in 0 .. Padding - 1
    BY <2>2, <2>3
  <2>5. \A n \in 0 .. Padding - 1 : Padding - n \in Nat /\ Padding - n >= 1
    BY <2>1
  <2>6. QED
    BY <2>4, <2>5
<1>4. Frame(c) = <<Delimiter>> \o body \o tail
  BY DEF Frame
<1> HIDE DEF body, fill
<1>5. tail \in Seq(Byte) /\ Len(tail) = fill /\ \A i \in 1 .. fill : tail[i] = Delimiter
  <2>1. tail \in [1 .. fill -> Byte]
    BY <1>2
  <2>2. tail \in Seq(Byte)
    BY <1>3, <2>1
  <2>3. Len(tail) = fill
    BY <1>3
  <2>4. QED
    BY <2>2, <2>3
<1> HIDE DEF tail
<1> DEFINE head == <<Delimiter>> \o body
<1>6. /\ head \in Seq(Byte) /\ Len(head) = L + 1
      /\ head[1] = Delimiter
      /\ \A j \in 2 .. L + 1 : head[j] = body[j - 1]
  BY <1>1, <1>2
<1> HIDE DEF head
<1>7. /\ head \o tail \in Seq(Byte) /\ Len(head \o tail) = L + 1 + fill
      /\ \A j \in 1 .. L + 1 : (head \o tail)[j] = head[j]
      /\ \A j \in L + 2 .. L + 1 + fill : (head \o tail)[j] = tail[j - (L + 1)]
  <2> HIDE DEF L
  <2>1. L \in Nat /\ fill \in Nat /\ Len(tail) = fill
    BY <1>1, <1>3, <1>5
  <2>2. /\ head \o tail \in Seq(Byte) /\ Len(head \o tail) = L + 1 + fill
        /\ \A i \in 1 .. L + 1 + fill : (head \o tail)[i] =
             IF i <= L + 1 THEN head[i] ELSE tail[i - (L + 1)]
    <3>1. /\ head \o tail \in Seq(Byte) /\ Len(head \o tail) = Len(head) + Len(tail)
          /\ \A i \in 1 .. Len(head) + Len(tail) : (head \o tail)[i] =
               IF i <= Len(head) THEN head[i] ELSE tail[i - Len(head)]
      BY <1>5, <1>6, ConcatProperties
    <3>2. Len(head) = L + 1 /\ Len(tail) = fill
      BY <1>5, <1>6
    <3>3. QED
      BY Zenon, <3>1, <3>2
  <2>3. /\ \A j \in 1 .. L + 1 : j \in 1 .. L + 1 + fill /\ j <= L + 1
        /\ \A j \in L + 2 .. L + 1 + fill : j \in 1 .. L + 1 + fill /\ ~(j <= L + 1)
    BY <2>1
  <2>4. QED
    BY <2>2, <2>3
<1>8. \A j \in L + 2 .. L + 1 + fill : j - (L + 1) \in 1 .. fill
  BY <1>1, <1>3
<1>9. L + 1 + fill >= L + 2 /\ 1 \in 1 .. L + 1 /\ 2 .. L + 1 \subseteq 1 .. L + 1
  BY <1>1, <1>3
<1>10. Frame(c) = head \o tail
  BY <1>4 DEF head
<1>11. QED
  <2> HIDE DEF L
  <2>1. /\ Frame(c) \in Seq(Byte) /\ Len(Frame(c)) >= L + 2
        /\ Frame(c)[1] = Delimiter
        /\ \A j \in 2 .. L + 1 : Frame(c)[j] = body[j - 1]
    BY <1>6, <1>7, <1>9, <1>10
  <2>2. \A j \in L + 2 .. Len(Frame(c)) : Frame(c)[j] = Delimiter
    BY <1>5, <1>7, <1>8, <1>10
  <2>3. QED
    BY <2>1, <2>2 DEF L, body

\* On the line its message is marked.
LEMMA OnLineIs ==
  ASSUME NEW c \in Containers
  PROVE  LET body == Encoding(c).bytes
             L    == Len(body)
             on   == OnLine(Frame(c))
         IN /\ on \in Seq(WireByte) /\ Len(on) = Len(Frame(c))
            /\ Len(on) >= L + 2
            /\ on[1] = Raw(Delimiter)
            /\ on[2] = [v |-> body[1], mark |-> "first"]
            /\ \A j \in 3 .. L + 1 : on[j] = [v |-> body[j - 1], mark |-> "later"]
            /\ \A j \in L + 2 .. Len(on) : on[j] = Raw(Delimiter)
<1> DEFINE body == Encoding(c).bytes
           L    == Len(body)
           f    == Frame(c)
           on   == OnLine(f)
<1>1. /\ body \in Seq(Byte) /\ L \in 2 .. 3
      /\ \A j \in 1 .. L : body[j] # Delimiter
  BY EncodingIs
<1>2. /\ f \in Seq(Byte) /\ Len(f) >= L + 2
      /\ f[1] = Delimiter
      /\ \A j \in 2 .. L + 1 : f[j] = body[j - 1]
      /\ \A j \in L + 2 .. Len(f) : f[j] = Delimiter
  BY FrameIs
<1>3. \A b \in Byte : /\ Raw(b) \in WireByte
                      /\ [v |-> b, mark |-> "first"] \in WireByte
                      /\ [v |-> b, mark |-> "later"] \in WireByte
  BY DEF Raw, WireByte
<1> HIDE DEF body, f
<1>4. \A i \in 1 .. Len(f) : f[i] \in Byte
  BY <1>2
<1>5. on = [i \in 1 .. Len(f) |->
              CASE f[i] = Delimiter -> Raw(f[i])
                [] i = 2            -> [v |-> f[i], mark |-> "first"]
                [] OTHER            -> [v |-> f[i], mark |-> "later"]]
  BY DEF OnLine
<1>6. Len(f) \in Nat
  BY <1>2
<1> HIDE DEF on
<1>7. \A i \in 1 .. Len(f) :
        on[i] = IF f[i] = Delimiter THEN Raw(f[i])
                ELSE IF i = 2 THEN [v |-> f[i], mark |-> "first"]
                ELSE [v |-> f[i], mark |-> "later"]
  <2>1. SUFFICES ASSUME NEW i \in 1 .. Len(f)
                 PROVE  on[i] = IF f[i] = Delimiter THEN Raw(f[i])
                                ELSE IF i = 2 THEN [v |-> f[i], mark |-> "first"]
                                ELSE [v |-> f[i], mark |-> "later"]
    OBVIOUS
  <2>2. on[i] = CASE f[i] = Delimiter -> Raw(f[i])
                  [] i = 2            -> [v |-> f[i], mark |-> "first"]
                  [] OTHER            -> [v |-> f[i], mark |-> "later"]
    BY <1>5
  <2>3. i = 2 => f[i] # Delimiter
    BY <1>1, <1>2
  <2>4. QED
    BY <2>2, <2>3
<1>8. on \in [1 .. Len(f) -> WireByte]
  <2>1. on = [i \in 1 .. Len(f) |-> on[i]]
    BY <1>5
  <2>2. \A i \in 1 .. Len(f) : on[i] \in WireByte
    BY <1>3, <1>4, <1>7
  <2>3. QED
    BY <2>1, <2>2
<1>9. on \in Seq(WireByte) /\ Len(on) = Len(f)
  BY <1>6, <1>8
<1>10. /\ 1 \in 1 .. Len(f) /\ 2 \in 1 .. Len(f) /\ 2 \in 2 .. L + 1 /\ 2 - 1 = 1
       /\ 1 \in 1 .. L
       /\ \A j \in 3 .. L + 1 : j \in 2 .. L + 1 /\ j # 2 /\ j \in 1 .. Len(f)
                                /\ j - 1 \in 1 .. L
       /\ \A j \in L + 2 .. Len(f) : j \in 1 .. Len(f)
  <2>1. \A n \in Nat : \A l \in 2 .. 3 : n >= l + 2 =>
          /\ 1 \in 1 .. n /\ 2 \in 1 .. n /\ 2 \in 2 .. l + 1 /\ 2 - 1 = 1
          /\ 1 \in 1 .. l
          /\ \A j \in 3 .. l + 1 : j \in 2 .. l + 1 /\ j # 2 /\ j \in 1 .. n
                                   /\ j - 1 \in 1 .. l
          /\ \A j \in l + 2 .. n : j \in 1 .. n
    OBVIOUS
  <2> HIDE DEF L
  <2>2. QED
    BY <1>1, <1>2, <1>6, <2>1
<1> HIDE DEF L
<1>11. /\ on[1] = Raw(Delimiter)
       /\ on[2] = [v |-> body[1], mark |-> "first"]
  BY <1>1, <1>2, <1>7, <1>10
<1>12. \A j \in 3 .. L + 1 : on[j] = [v |-> body[j - 1], mark |-> "later"]
  <2>1. SUFFICES ASSUME NEW j \in 3 .. L + 1
                 PROVE  on[j] = [v |-> body[j - 1], mark |-> "later"]
    OBVIOUS
  <2>2. j \in 2 .. L + 1 /\ j # 2 /\ j \in 1 .. Len(f) /\ j - 1 \in 1 .. L
    BY <1>10
  <2>3. f[j] = body[j - 1] /\ body[j - 1] # Delimiter
    BY <1>1, <1>2, <2>2
  <2>4. QED
    BY <1>7, <2>2, <2>3
<1>13. \A j \in L + 2 .. Len(on) : on[j] = Raw(Delimiter)
  BY <1>2, <1>7, <1>9, <1>10
<1>14. QED
  BY <1>2, <1>9, <1>11, <1>12, <1>13 DEF on, f, body, L

-----------------------------------------------------------------------------
(***************************************************************************)
(* Counting messages                                                       *)
(***************************************************************************)
LEMMA FirstsType ==
  ASSUME NEW s \in Seq(WireByte)
  PROVE  Firsts(s) \in Nat /\ IsFiniteSet({i \in 1 .. Len(s) : s[i].mark = "first"})
<1> DEFINE S == {i \in 1 .. Len(s) : s[i].mark = "first"}
<1>1. IsFiniteSet(1 .. Len(s))
  <2>1. 1 \in Int /\ Len(s) \in Int
    OBVIOUS
  <2>2. QED
    BY <2>1, FS_Interval
<1>2. S \in SUBSET (1 .. Len(s))
  OBVIOUS
<1>3. IsFiniteSet(S)
  <2> HIDE DEF S
  <2>1. QED
    BY <1>1, <1>2, FS_Subset
<1>4. Cardinality(S) \in Nat
  <2> HIDE DEF S
  <2>1. QED
    BY <1>3, FS_CardinalityType
<1>5. QED
  BY <1>3, <1>4 DEF Firsts

LEMMA NoFirsts ==
  ASSUME NEW s, \A i \in 1 .. Len(s) : s[i].mark # "first"
  PROVE  Firsts(s) = 0
<1>1. {i \in 1 .. Len(s) : s[i].mark = "first"} = {}
  OBVIOUS
<1>2. QED
  BY <1>1, FS_EmptySet DEF Firsts

LEMMA OneFirst ==
  ASSUME NEW s, NEW k \in 1 .. Len(s),
         \A i \in 1 .. Len(s) : s[i].mark = "first" <=> i = k
  PROVE  Firsts(s) = 1
<1>1. {i \in 1 .. Len(s) : s[i].mark = "first"} = {k}
  OBVIOUS
<1>2. QED
  BY <1>1, FS_Singleton DEF Firsts

LEMMA FirstsAdd ==
  ASSUME NEW s \in Seq(WireByte), NEW t \in Seq(WireByte)
  PROVE  Firsts(s \o t) = Firsts(s) + Firsts(t)
<1> DEFINE A == {i \in 1 .. Len(s) : s[i].mark = "first"}
           B == {i \in 1 .. Len(t) : t[i].mark = "first"}
           C == {i \in 1 .. Len(s \o t) : (s \o t)[i].mark = "first"}
           D == {i \in Len(s) + 1 .. Len(s \o t) : (s \o t)[i].mark = "first"}
           f == [i \in B |-> i + Len(s)]
<1>1. Len(s) \in Nat /\ Len(t) \in Nat /\ Len(s \o t) = Len(s) + Len(t)
  OBVIOUS
<1>2. /\ \A i \in 1 .. Len(s) : (s \o t)[i] = s[i]
      /\ \A i \in Len(s) + 1 .. Len(s) + Len(t) : (s \o t)[i] = t[i - Len(s)]
      /\ \A i \in 1 .. Len(t) : (s \o t)[i + Len(s)] = t[i]
  OBVIOUS
<1>3. C = A \cup D /\ A \cap D = {}
  BY <1>1, <1>2
<1>4. f \in Bijection(B, D)
  <2>1. \A i \in B : i + Len(s) \in D
    BY <1>1, <1>2
  <2>2. \A i, j \in B : i + Len(s) = j + Len(s) => i = j
    BY <1>1
  <2>3. \A i \in D : i - Len(s) \in B /\ (i - Len(s)) + Len(s) = i
    BY <1>1, <1>2
  <2> HIDE DEF B, D
  <2>4. f \in [B -> D] /\ \A i \in B : f[i] = i + Len(s)
    BY <2>1
  <2> HIDE DEF f
  <2>5. f \in Injection(B, D)
    BY <2>2, <2>4 DEF Injection, IsInjective
  <2>6. f \in Surjection(B, D)
    BY <2>3, <2>4 DEF Surjection
  <2>7. QED
    BY <2>5, <2>6 DEF Bijection
<1>5. IsFiniteSet(A) /\ IsFiniteSet(B) /\ Firsts(s) = Cardinality(A)
      /\ Firsts(t) = Cardinality(B) /\ Firsts(s \o t) = Cardinality(C)
  BY FirstsType DEF Firsts
<1> HIDE DEF A, B, C, D, f
<1>6. ExistsBijection(B, D)
  BY <1>4 DEF ExistsBijection
<1>7. IsFiniteSet(D) /\ Cardinality(D) = Cardinality(B)
  BY <1>5, <1>6, FS_Bijection
<1>8. Cardinality(A \cup D) = Cardinality(A) + Cardinality(D) - Cardinality(A \cap D)
  BY <1>5, <1>7, FS_Union
<1>9. Cardinality(A \cap D) = 0 /\ Cardinality(A) \in Nat /\ Cardinality(D) \in Nat
  BY <1>3, <1>5, <1>7, FS_EmptySet, FS_CardinalityType
<1>10. QED
  BY <1>3, <1>5, <1>7, <1>8, <1>9

\* The two parts of a sequence of bytes.
LEMMA Parts ==
  ASSUME NEW s \in Seq(WireByte), NEW m \in 0 .. Len(s)
  PROVE  /\ SubSeq(s, 1, m) \in Seq(WireByte) /\ Len(SubSeq(s, 1, m)) = m
         /\ \A i \in 1 .. m : SubSeq(s, 1, m)[i] = s[i]
         /\ SubSeq(s, m + 1, Len(s)) \in Seq(WireByte)
         /\ Len(SubSeq(s, m + 1, Len(s))) = Len(s) - m
         /\ \A i \in 1 .. Len(s) - m : SubSeq(s, m + 1, Len(s))[i] = s[i + m]
         /\ s = SubSeq(s, 1, m) \o SubSeq(s, m + 1, Len(s))
         /\ Firsts(s) = Firsts(SubSeq(s, 1, m)) + Firsts(SubSeq(s, m + 1, Len(s)))
<1>1. /\ SubSeq(s, 1, m) \in Seq(WireByte) /\ Len(SubSeq(s, 1, m)) = m
      /\ \A i \in 1 .. m : SubSeq(s, 1, m)[i] = s[i]
  OBVIOUS
<1>2. /\ SubSeq(s, m + 1, Len(s)) \in Seq(WireByte)
      /\ Len(SubSeq(s, m + 1, Len(s))) = Len(s) - m
      /\ \A i \in 1 .. Len(s) - m : SubSeq(s, m + 1, Len(s))[i] = s[i + m]
  OBVIOUS
<1>3. s = SubSeq(s, 1, m) \o SubSeq(s, m + 1, Len(s))
  <2>1. /\ 1 \in 1 .. Len(s) + 1 /\ m \in 1 - 1 .. Len(s) /\ Len(s) \in m .. Len(s)
    OBVIOUS
  <2>2. SubSeq(s, 1, m) \o SubSeq(s, m + 1, Len(s)) = SubSeq(s, 1, Len(s))
    BY <2>1, ConcatAdjacentSubSeq
  <2>3. QED
    BY <2>2, SubSeqFull
<1>4. QED
  BY ZenonT(60), <1>1, <1>2, <1>3, FirstsAdd

LEMMA SomeFirsts ==
  ASSUME NEW s \in Seq(WireByte), NEW k \in 1 .. Len(s), s[k].mark = "first"
  PROVE  Firsts(s) >= 1
<1> DEFINE S == {i \in 1 .. Len(s) : s[i].mark = "first"}
<1>1. k \in S
  OBVIOUS
<1>2. Firsts(s) = Cardinality(S) /\ Firsts(s) \in Nat /\ IsFiniteSet(S)
  BY FirstsType DEF Firsts
<1> HIDE DEF S
<1>3. Firsts(s) # 0
  BY <1>1, <1>2, FS_EmptySet
<1>4. QED
  BY <1>2, <1>3

\* The end of a sequence with another behind it, and the end of an end.
LEMMA EndWithMore ==
  ASSUME NEW s \in Seq(WireByte), NEW t \in Seq(WireByte), NEW m \in 0 .. Len(s)
  PROVE  SubSeq(s, m + 1, Len(s)) \o t = SubSeq(s \o t, m + 1, Len(s \o t))
<1> DEFINE a == SubSeq(s, m + 1, Len(s))
           b == SubSeq(s \o t, m + 1, Len(s \o t))
<1>1. /\ s \o t \in Seq(WireByte) /\ Len(s \o t) = Len(s) + Len(t)
      /\ \A i \in 1 .. Len(s) + Len(t) :
           (s \o t)[i] = IF i <= Len(s) THEN s[i] ELSE t[i - Len(s)]
  BY ConcatProperties
<1>2. Len(s) \in Nat /\ Len(t) \in Nat /\ m \in Nat /\ m <= Len(s)
      /\ m \in 0 .. Len(s \o t)
  BY <1>1
<1>3. /\ a \in Seq(WireByte) /\ Len(a) = Len(s) - m
      /\ \A i \in 1 .. Len(s) - m : a[i] = s[i + m]
  BY Parts
<1>4. /\ b \in Seq(WireByte) /\ Len(b) = Len(s) + Len(t) - m
      /\ \A i \in 1 .. Len(s) + Len(t) - m : b[i] = (s \o t)[i + m]
  BY <1>1, <1>2, Parts
<1> HIDE DEF a, b
<1>5. /\ a \o t \in Seq(WireByte) /\ Len(a \o t) = Len(a) + Len(t)
      /\ \A i \in 1 .. Len(a) + Len(t) :
           (a \o t)[i] = IF i <= Len(a) THEN a[i] ELSE t[i - Len(a)]
  BY <1>3, ConcatProperties
<1>6. ASSUME NEW i \in 1 .. Len(s) + Len(t) - m
      PROVE  (a \o t)[i] = b[i]
  <2>1. i \in 1 .. Len(a) + Len(t) /\ i + m \in 1 .. Len(s) + Len(t)
    <3>1. \A j, k \in Nat : \A g \in 0 .. j : \A h \in 1 .. j + k - g :
            h \in 1 .. (j - g) + k /\ h + g \in 1 .. j + k
      OBVIOUS
    <3>2. QED
      BY <1>2, <1>3, <3>1
  <2>2. CASE i <= Len(a)
    <3>1. i + m <= Len(s) /\ i \in 1 .. Len(s) - m
      BY <1>2, <1>3, <2>2
    <3>2. QED
      BY <1>1, <1>3, <1>4, <1>5, <2>1, <2>2, <3>1
  <2>3. CASE ~(i <= Len(a))
    <3>1. ~(i + m <= Len(s)) /\ i - Len(a) = (i + m) - Len(s)
      BY <1>2, <1>3, <2>3
    <3>2. QED
      BY <1>1, <1>4, <1>5, <2>1, <2>3, <3>1
  <2>4. QED
    BY <2>2, <2>3
<1>7. Len(a) + Len(t) = Len(s) + Len(t) - m
  BY <1>2, <1>3
<1>8. a \o t = b
  BY <1>4, <1>5, <1>6, <1>7, SeqEqual
<1>9. QED
  BY <1>8 DEF a, b

LEMMA EndOfEnd ==
  ASSUME NEW s \in Seq(WireByte), NEW m \in 0 .. Len(s), NEW n \in 0 .. Len(s) - m,
         NEW t, t = SubSeq(s, m + 1, Len(s))
  PROVE  SubSeq(t, n + 1, Len(t)) = SubSeq(s, m + n + 1, Len(s))
<1> DEFINE a == SubSeq(t, n + 1, Len(t))
           b == SubSeq(s, m + n + 1, Len(s))
<1>1. Len(s) \in Nat /\ m \in Nat /\ n \in Nat /\ m + n \in 0 .. Len(s)
  OBVIOUS
<1>2. /\ t \in Seq(WireByte) /\ Len(t) = Len(s) - m
      /\ \A i \in 1 .. Len(s) - m : t[i] = s[i + m]
  BY Parts
<1>3. /\ a \in Seq(WireByte) /\ Len(a) = Len(s) - m - n
      /\ \A i \in 1 .. Len(s) - m - n : a[i] = t[i + n]
  BY <1>2, Parts
<1>4. /\ b \in Seq(WireByte) /\ Len(b) = Len(s) - (m + n)
      /\ \A i \in 1 .. Len(s) - (m + n) : b[i] = s[i + (m + n)]
  BY <1>1, Parts
<1> HIDE DEF a, b
<1>5. /\ Len(s) - (m + n) = Len(s) - m - n
      /\ \A i \in 1 .. Len(s) - m - n : /\ i + n \in 1 .. Len(s) - m
                                        /\ (i + n) + m = i + (m + n)
  BY <1>1
<1>6. \A i \in 1 .. Len(s) - m - n : a[i] = b[i]
  BY <1>2, <1>3, <1>4, <1>5
<1>7. Len(a) = Len(s) - m - n /\ Len(b) = Len(a)
  BY <1>3, <1>4, <1>5
<1>8. a = b
  BY <1>3, <1>4, <1>6, <1>7, SeqEqual
<1>9. QED
  BY <1>8 DEF a, b

-----------------------------------------------------------------------------
(***************************************************************************)
(* A message on its way                                                    *)
(***************************************************************************)
\* The message of container c as it was sent begins at p, between delimiters.
Placed(bytes, p, c) ==
  LET L == Len(Encoding(c).bytes)
  IN /\ p \in 2 .. Len(bytes) - L
     /\ \A j \in 1 .. L + 2 : bytes[p - 2 + j] = OnLine(Frame(c))[j]

\* The messages behind p.
Behind(bytes, p) == Firsts(SubSeq(bytes, p + 1, Len(bytes)))

\* Its bytes, and the delimiters around them.
AsSent(bytes, p, c) ==
  LET body == Encoding(c).bytes
      L    == Len(body)
  IN /\ L \in 2 .. 3 /\ p \in 2 .. Len(bytes) - L /\ p \in 2 .. Len(bytes)
     /\ bytes[p - 1].v = Delimiter
     /\ bytes[p].mark = "first"
     /\ \A j \in p .. p + L - 1 : bytes[j].v # Delimiter
     /\ \A j \in p + 1 .. p + L - 1 : bytes[j].mark = "later"
     /\ \A j \in p .. p + L - 1 : bytes[j].v = body[j - p + 1]
     /\ bytes[p + L].v = Delimiter

LEMMA PlacedIs ==
  ASSUME NEW bytes \in Seq(WireByte), NEW p, NEW c \in Containers, Placed(bytes, p, c)
  PROVE  AsSent(bytes, p, c)
<1> DEFINE body == Encoding(c).bytes
           L    == Len(body)
           on   == OnLine(Frame(c))
<1>1. /\ body \in Seq(Byte) /\ L \in 2 .. 3
      /\ \A j \in 1 .. L : body[j] # Delimiter
  BY EncodingIs
<1>2. /\ Len(on) >= L + 2
      /\ on[1] = Raw(Delimiter)
      /\ on[2] = [v |-> body[1], mark |-> "first"]
      /\ \A j \in 3 .. L + 1 : on[j] = [v |-> body[j - 1], mark |-> "later"]
      /\ \A j \in L + 2 .. Len(on) : on[j] = Raw(Delimiter)
      /\ on \in Seq(WireByte)
  BY OnLineIs
<1>3. /\ p \in 2 .. Len(bytes) - L
      /\ \A j \in 1 .. L + 2 : bytes[p - 2 + j] = on[j]
  BY DEF Placed
<1>4. Len(bytes) \in Nat /\ p \in Nat /\ p >= 2 /\ p + L <= Len(bytes)
      /\ Len(on) \in Nat
  BY <1>1, <1>2, <1>3
<1> HIDE DEF body, L, on
<1>5. /\ 1 \in 1 .. L + 2 /\ p - 2 + 1 = p - 1
      /\ 2 \in 1 .. L + 2 /\ p - 2 + 2 = p /\ 1 \in 1 .. L
      /\ L + 2 \in 1 .. L + 2 /\ p - 2 + (L + 2) = p + L
      /\ L + 2 \in L + 2 .. Len(on)
      /\ p \in 2 .. Len(bytes)
  BY <1>1, <1>2, <1>4
<1>6. bytes[p - 1].v = Delimiter /\ bytes[p + L].v = Delimiter
  <2>1. bytes[p - 1] = on[1] /\ bytes[p + L] = on[L + 2]
    BY <1>3, <1>5
  <2>2. on[L + 2] = Raw(Delimiter)
    BY <1>2, <1>5
  <2>3. QED
    BY <1>2, <2>1, <2>2 DEF Raw
<1>7. bytes[p] = [v |-> body[1], mark |-> "first"]
  BY <1>2, <1>3, <1>5
<1>8. ASSUME NEW j \in p + 1 .. p + L - 1
      PROVE  /\ bytes[j].v = body[j - p + 1] /\ bytes[j].mark = "later"
             /\ j - p + 1 \in 1 .. L
  <2>1. /\ j - p + 2 \in 3 .. L + 1 /\ j - p + 2 \in 1 .. L + 2
        /\ p - 2 + (j - p + 2) = j /\ (j - p + 2) - 1 = j - p + 1
        /\ j - p + 1 \in 1 .. L
    BY <1>1, <1>4
  <2>2. bytes[j] = [v |-> body[j - p + 1], mark |-> "later"]
    BY <1>2, <1>3, <2>1
  <2>3. QED
    BY <2>1, <2>2
<1>9. \A j \in p .. p + L - 1 : j = p \/ j \in p + 1 .. p + L - 1
  BY <1>1, <1>4
<1>10. p - p + 1 = 1
  BY <1>4
<1>11. \A j \in p .. p + L - 1 : bytes[j].v = body[j - p + 1] /\ bytes[j].v # Delimiter
  <2>1. bytes[p].v = body[1] /\ body[1] # Delimiter
    BY <1>1, <1>5, <1>7
  <2>2. \A j \in p + 1 .. p + L - 1 :
          bytes[j].v = body[j - p + 1] /\ body[j - p + 1] # Delimiter
    BY <1>1, <1>8
  <2>3. QED
    BY <1>9, <1>10, <2>1, <2>2
<1>12. bytes[p].mark = "first"
  BY <1>7
<1>13. \A j \in p + 1 .. p + L - 1 : bytes[j].mark = "later"
  BY <1>8
<1>14. QED
  BY <1>1, <1>3, <1>5, <1>6, <1>11, <1>12, <1>13 DEF AsSent, body, L

\* When the first d bytes are gone, end is left.
StillComes(bytes, p, c, d, end) ==
  /\ Placed(end, p - d, c)
  /\ Behind(end, p - d) = Behind(bytes, p)
  /\ Behind(bytes, p) < Firsts(end)

\* It still comes when what was in front of it is gone, and was not the last then.
LEMMA PlacedInEnd ==
  ASSUME NEW bytes \in Seq(WireByte), NEW p, NEW c \in Containers,
         Placed(bytes, p, c), NEW d \in 0 .. Len(bytes), d <= p - 2,
         NEW end, end = SubSeq(bytes, d + 1, Len(bytes))
  PROVE  StillComes(bytes, p, c, d, end)
<1> DEFINE L == Len(Encoding(c).bytes)
           q == p - d
<1>1. /\ L \in 2 .. 3 /\ p \in 2 .. Len(bytes) - L /\ p \in 2 .. Len(bytes)
      /\ bytes[p].mark = "first"
  BY PlacedIs DEF AsSent
<1>2. /\ end \in Seq(WireByte) /\ Len(end) = Len(bytes) - d
      /\ \A i \in 1 .. Len(bytes) - d : end[i] = bytes[i + d]
  BY Parts
<1>3. \A j \in 1 .. L + 2 : bytes[p - 2 + j] = OnLine(Frame(c))[j]
  BY DEF Placed
<1> HIDE DEF L
<1>4. /\ Len(bytes) \in Nat /\ d \in Nat /\ p \in Nat
      /\ q \in 2 .. Len(end) - L /\ q \in 1 .. Len(end) /\ q \in 0 .. Len(end)
      /\ q + d = p /\ q \in 0 .. Len(bytes) - d /\ q \in 1 .. Len(bytes) - d
  BY <1>1, <1>2
<1>5. \A j \in 1 .. L + 2 : q - 2 + j \in 1 .. Len(bytes) - d
                            /\ (q - 2 + j) + d = p - 2 + j
  BY <1>1, <1>4
<1> HIDE DEF q
<1>6. Placed(end, q, c)
  BY <1>2, <1>3, <1>4, <1>5 DEF Placed, L
<1>7. SubSeq(end, q + 1, Len(end)) = SubSeq(bytes, d + q + 1, Len(bytes))
  BY <1>4, EndOfEnd
<1>8. Behind(end, q) = Behind(bytes, p)
  <2>1. d + q = p
    BY <1>4
  <2>2. QED
    BY <1>7, <2>1 DEF Behind
<1>9. Behind(end, q) < Firsts(end)
  <2> DEFINE front == SubSeq(end, 1, q)
             rear  == SubSeq(end, q + 1, Len(end))
  <2>1. /\ front \in Seq(WireByte) /\ Len(front) = q
        /\ \A i \in 1 .. q : front[i] = end[i]
        /\ rear \in Seq(WireByte) /\ Firsts(end) = Firsts(front) + Firsts(rear)
    BY <1>2, <1>4, Parts
  <2>2. end[q].mark = "first"
    BY <1>1, <1>2, <1>4
  <2>3. q \in 1 .. q
    BY <1>4
  <2> HIDE DEF front, rear
  <2>4. Firsts(front) >= 1
    BY <2>1, <2>2, <2>3, SomeFirsts
  <2>5. Firsts(front) \in Nat /\ Firsts(rear) \in Nat
    BY <2>1, FirstsType
  <2>6. \A m, n \in Nat : m >= 1 => n < m + n
    OBVIOUS
  <2>7. Firsts(rear) < Firsts(end)
    BY <2>1, <2>4, <2>5, <2>6
  <2>8. QED
    BY <2>7 DEF Behind, rear
<1>10. QED
  BY <1>6, <1>8, <1>9 DEF StillComes, q

\* It stays where it is when more is sent.
LEMMA PlacedWithMore ==
  ASSUME NEW bytes \in Seq(WireByte), NEW p, NEW c \in Containers,
         Placed(bytes, p, c), NEW more \in Seq(WireByte)
  PROVE  /\ Placed(bytes \o more, p, c)
         /\ Behind(bytes \o more, p) = Behind(bytes, p) + Firsts(more)
<1> DEFINE L == Len(Encoding(c).bytes)
<1>1. L \in 2 .. 3 /\ p \in 2 .. Len(bytes) - L /\ p \in 2 .. Len(bytes)
  BY PlacedIs DEF AsSent
<1>2. \A j \in 1 .. L + 2 : bytes[p - 2 + j] = OnLine(Frame(c))[j]
  BY DEF Placed
<1>3. /\ bytes \o more \in Seq(WireByte) /\ Len(bytes \o more) = Len(bytes) + Len(more)
      /\ \A i \in 1 .. Len(bytes) : (bytes \o more)[i] = bytes[i]
  OBVIOUS
<1> HIDE DEF L
<1>4. /\ Len(bytes) \in Nat /\ Len(more) \in Nat /\ p \in 0 .. Len(bytes)
      /\ p \in 2 .. Len(bytes) + Len(more) - L
      /\ \A j \in 1 .. L + 2 : p - 2 + j \in 1 .. Len(bytes)
  BY <1>1
<1>5. Placed(bytes \o more, p, c)
  BY <1>2, <1>3, <1>4 DEF Placed, L
<1> DEFINE rear == SubSeq(bytes, p + 1, Len(bytes))
<1>6. rear \in Seq(WireByte)
  BY <1>4, Parts
<1>7. rear \o more = SubSeq(bytes \o more, p + 1, Len(bytes \o more))
  BY <1>4, EndWithMore
<1> HIDE DEF rear
<1>8. Firsts(rear \o more) = Firsts(rear) + Firsts(more)
  BY <1>6, FirstsAdd
<1>9. QED
  BY <1>5, <1>7, <1>8 DEF Behind, rear

-----------------------------------------------------------------------------
(***************************************************************************)
(* What the reading thread finds                                           *)
(***************************************************************************)
IsDelimiter(bytes, i) == i \in 1 .. Len(bytes) /\ bytes[i].v = Delimiter

\* The buffer from its first delimiter but for those that are followed by another.
StartsAt(got, m) ==
  /\ m \in 1 .. Len(got) /\ got[m].v = Delimiter
  /\ \A i \in 1 .. m - 1 : IsDelimiter(got, i) => IsDelimiter(got, i + 1)

LEMMA StartIs ==
  ASSUME NEW got \in Seq(WireByte)
  PROVE  \/ FromStart(got) = got /\ \A i \in 1 .. Len(got) : got[i].v # Delimiter
         \/ \E m \in 1 .. Len(got) :
              StartsAt(got, m) /\ FromStart(got) = SubSeq(got, m, Len(got))
<1> DEFINE delimiters == {i \in 1 .. Len(got) : got[i].v = Delimiter}
           lasts == {i \in delimiters : i + 1 \notin delimiters}
<1>1. Len(got) \in Nat
  OBVIOUS
<1>2. FromStart(got) = IF lasts = {} THEN got ELSE SubSeq(got, Min(lasts), Len(got))
  BY DEF FromStart
<1>3. \A i : i \in delimiters <=> IsDelimiter(got, i)
  BY DEF IsDelimiter
<1>4. delimiters \subseteq Nat /\ \A i \in delimiters : i \in 1 .. Len(got)
  BY <1>1
<1>5. CASE lasts = {}
  <2>1. delimiters = {}
    <3>1. SUFFICES ASSUME delimiters # {} PROVE FALSE
      OBVIOUS
    <3>2. PICK i \in delimiters : TRUE
      BY <3>1
    <3> DEFINE S == {n \in Nat : n > i /\ n \notin delimiters}
    <3>3. Len(got) + 1 \in S
      BY <1>1, <1>4, <3>2
    <3>4. S \subseteq Nat
      OBVIOUS
    <3>5. PICK n \in S : \A m \in S : n <= m
      <4> HIDE DEF S
      <4>1. QED
        BY <3>3, <3>4, Least
    <3>6. n - 1 \in Nat /\ ~(n <= n - 1) /\ (n - 1) + 1 = n /\ (n - 1 = i \/ n - 1 > i)
      BY <1>4, <3>2, <3>5
    <3>7. n - 1 \in delimiters
      <4> HIDE DEF delimiters
      <4>1. QED
        BY <3>2, <3>5, <3>6
    <3>8. n \notin delimiters
      BY <3>5
    <3> HIDE DEF delimiters
    <3>9. n - 1 \in lasts
      BY <3>6, <3>7, <3>8
    <3>10. QED
      BY <1>5, <3>9
  <2>2. \A i \in 1 .. Len(got) : got[i].v # Delimiter
    BY <2>1
  <2>3. QED
    BY <1>2, <1>5, <2>2
<1>6. CASE lasts # {}
  <2>1. lasts \subseteq Nat
    BY <1>4
  <2> HIDE DEF delimiters
  <2>2. PICK m \in lasts : \A i \in lasts : m <= i
    <3> HIDE DEF lasts
    <3>1. QED
      BY <1>6, <2>1, Least
  <2>3. Min(lasts) = m
    <3>1. \A i, j \in Nat : i <= j /\ j <= i => i = j
      OBVIOUS
    <3> HIDE DEF lasts
    <3>2. QED
      BY <2>1, <2>2, <3>1 DEF Min
  <2>4. m \in 1 .. Len(got) /\ m \in delimiters
    BY <1>4, <2>2
  <2>5. ASSUME NEW i \in 1 .. m - 1, IsDelimiter(got, i)
        PROVE  IsDelimiter(got, i + 1)
    <3>1. ~(m <= i)
      BY <1>1, <2>4
    <3>2. i \in delimiters /\ i \notin lasts
      BY <1>3, <2>2, <2>5, <3>1
    <3>3. QED
      BY <1>3, <3>2
  <2>6. StartsAt(got, m)
    BY <1>3, <2>4, <2>5 DEF StartsAt, IsDelimiter
  <2> HIDE DEF lasts
  <2>7. QED
    BY <1>2, <1>6, <2>3, <2>4, <2>6
<1>7. QED
  BY <1>5, <1>6

LEMMA EndIs ==
  ASSUME NEW from \in Seq(WireByte)
  PROVE  \/ End(from) = 0 /\ \A i \in 2 .. Len(from) : from[i].v # Delimiter
         \/ /\ End(from) \in 2 .. Len(from) /\ from[End(from)].v = Delimiter
            /\ \A i \in 2 .. End(from) - 1 : from[i].v # Delimiter
<1> DEFINE ends == {i \in 2 .. Len(from) : from[i].v = Delimiter}
<1>1. Len(from) \in Nat
  OBVIOUS
<1>2. End(from) = IF ends = {} THEN 0 ELSE Min(ends)
  BY DEF End
<1>3. CASE ends = {}
  BY <1>2, <1>3
<1>4. CASE ends # {}
  <2>1. ends \subseteq Nat /\ \A i \in ends : i \in 2 .. Len(from) /\ from[i].v = Delimiter
    BY <1>1
  <2>2. PICK m \in ends : \A i \in ends : m <= i
    <3> HIDE DEF ends
    <3>1. QED
      BY <1>4, <2>1, Least
  <2>3. Min(ends) = m
    <3>1. \A i, j \in Nat : i <= j /\ j <= i => i = j
      OBVIOUS
    <3> HIDE DEF ends
    <3>2. QED
      BY <2>1, <2>2, <3>1 DEF Min
  <2>4. \A i \in 2 .. m - 1 : i \notin ends
    <3>1. \A i \in 2 .. m - 1 : ~(m <= i)
      BY <2>1, <2>2
    <3> HIDE DEF ends
    <3>2. QED
      BY <2>2, <3>1
  <2>5. \A i \in 2 .. m - 1 : i \in 2 .. Len(from)
    BY <1>1, <2>1, <2>2
  <2>6. \A i \in 2 .. m - 1 : from[i].v # Delimiter
    BY <2>4, <2>5
  <2>7. m \in 2 .. Len(from) /\ from[m].v = Delimiter
    BY <2>1, <2>2
  <2> HIDE DEF ends
  <2>8. QED
    BY <1>2, <1>4, <2>3, <2>6, <2>7
<1>5. QED
  BY <1>3, <1>4

-----------------------------------------------------------------------------
(***************************************************************************)
(* A message is either still to come or found now: got is in the buffer,   *)
(* more on the line.                                                       *)
(***************************************************************************)
LEMMA NotInFront ==
  ASSUME NEW got \in Seq(WireByte), NEW more \in Seq(WireByte), NEW m, StartsAt(got, m),
         NEW p, NEW c \in Containers, Placed(got \o more, p, c)
  PROVE  m <= p - 1
<1> DEFINE L == Len(Encoding(c).bytes)
           all == got \o more
<1>1. /\ all \in Seq(WireByte) /\ Len(all) = Len(got) + Len(more)
      /\ \A i \in 1 .. Len(got) : all[i] = got[i]
  OBVIOUS
<1>2. /\ L \in 2 .. 3 /\ p \in 2 .. Len(all)
      /\ all[p - 1].v = Delimiter
      /\ \A j \in p .. p + L - 1 : all[j].v # Delimiter
  <2>1. Placed(all, p, c)
    OBVIOUS
  <2> HIDE DEF all
  <2>2. AsSent(all, p, c)
    BY <1>1, <2>1, PlacedIs
  <2>3. QED
    BY <2>2 DEF AsSent
<1>3. m \in 1 .. Len(got) /\ Len(got) \in Nat
      /\ \A i \in 1 .. m - 1 : IsDelimiter(got, i) => IsDelimiter(got, i + 1)
  BY DEF StartsAt
<1> HIDE DEF all, L
<1>4. SUFFICES ASSUME ~(m <= p - 1) PROVE FALSE
  OBVIOUS
<1>5. p \in Nat /\ p \in p .. p + L - 1
  BY <1>2
<1>6. p - 1 \in 1 .. m - 1 /\ p - 1 \in 1 .. Len(got) /\ p \in 1 .. Len(got)
      /\ (p - 1) + 1 = p
  BY <1>2, <1>3, <1>4, <1>5
<1>7. IsDelimiter(got, p - 1)
  BY <1>1, <1>2, <1>6 DEF IsDelimiter
<1>8. IsDelimiter(got, p)
  BY <1>3, <1>6, <1>7
<1>9. QED
  BY <1>1, <1>2, <1>5, <1>6, <1>8 DEF IsDelimiter

\* Nothing comes in a buffer without a delimiter.
LEMMA NotWithoutStart ==
  ASSUME NEW got \in Seq(WireByte), NEW more \in Seq(WireByte),
         \A i \in 1 .. Len(got) : got[i].v # Delimiter,
         NEW p, NEW c \in Containers, Placed(got \o more, p, c)
  PROVE  Len(got) <= p - 2
<1> DEFINE L == Len(Encoding(c).bytes)
           all == got \o more
<1>1. /\ all \in Seq(WireByte) /\ Len(all) = Len(got) + Len(more)
      /\ \A i \in 1 .. Len(got) : all[i] = got[i]
  OBVIOUS
<1>2. p \in 2 .. Len(all) /\ all[p - 1].v = Delimiter
  <2>1. Placed(all, p, c)
    OBVIOUS
  <2> HIDE DEF all
  <2>2. AsSent(all, p, c)
    BY <1>1, <2>1, PlacedIs
  <2>3. QED
    BY <2>2 DEF AsSent
<1> HIDE DEF all
<1>3. p - 1 \notin 1 .. Len(got)
  BY <1>1, <1>2
<1>4. QED
  BY <1>1, <1>2, <1>3

\* While no end is found the message stays in the buffer, and if that is full it is
\* not in there yet.
LEMMA NoEndYet ==
  ASSUME NEW got \in Seq(WireByte), NEW more \in Seq(WireByte), NEW m, StartsAt(got, m),
         NEW from, from = SubSeq(got, m, Len(got)), End(from) = 0,
         NEW p, NEW c \in Containers, Placed(got \o more, p, c)
  PROVE  m - 1 <= p - 2 /\ (Len(from) >= 5 => Len(got) <= p - 2)
<1> DEFINE L == Len(Encoding(c).bytes)
           all == got \o more
<1>1. /\ all \in Seq(WireByte) /\ Len(all) = Len(got) + Len(more)
      /\ \A i \in 1 .. Len(got) : all[i] = got[i]
  OBVIOUS
<1>2. /\ L \in 2 .. 3 /\ p \in 2 .. Len(all)
      /\ all[p - 1].v = Delimiter /\ all[p + L].v = Delimiter
  <2>1. Placed(all, p, c)
    OBVIOUS
  <2> HIDE DEF all
  <2>2. AsSent(all, p, c)
    BY <1>1, <2>1, PlacedIs
  <2>3. QED
    BY <2>2 DEF AsSent
<1> HIDE DEF all, L
<1>3. m <= p - 1
  BY NotInFront
<1>4. m \in 1 .. Len(got) /\ Len(got) \in Nat /\ p \in Nat
  BY <1>2 DEF StartsAt
<1>5. m - 1 \in 0 .. Len(got) /\ (m - 1) + 1 = m
  BY <1>4
<1>6. /\ from \in Seq(WireByte) /\ Len(from) = Len(got) - (m - 1)
      /\ \A i \in 1 .. Len(got) - (m - 1) : from[i] = got[i + (m - 1)]
  BY <1>5, Parts
<1>7. \A i \in 2 .. Len(from) : from[i].v # Delimiter
  <2>1. from \in Seq(WireByte) /\ 0 \notin 2 .. Len(from)
    BY <1>6
  <2>2. \/ \A i \in 2 .. Len(from) : from[i].v # Delimiter
        \/ End(from) \in 2 .. Len(from)
    BY Zenon, <2>1, EndIs
  <2>3. QED
    BY <2>1, <2>2
<1>8. \A j \in m + 1 .. Len(got) : all[j].v # Delimiter
  <2>1. SUFFICES ASSUME NEW j \in m + 1 .. Len(got) PROVE all[j].v # Delimiter
    OBVIOUS
  <2>2. /\ j - (m - 1) \in 2 .. Len(from) /\ j - (m - 1) \in 1 .. Len(got) - (m - 1)
        /\ (j - (m - 1)) + (m - 1) = j /\ j \in 1 .. Len(got)
    BY <1>4, <1>6
  <2>3. from[j - (m - 1)] = got[j] /\ all[j] = got[j]
    BY <1>1, <1>6, <2>2
  <2>4. QED
    BY <1>7, <2>2, <2>3
<1>9. ASSUME Len(from) >= 5, ~(Len(got) <= p - 2)
      PROVE  FALSE
  <2>1. p - 1 \notin m + 1 .. Len(got)
    BY <1>2, <1>8
  <2>2. p - 1 = m
    BY <1>3, <1>4, <1>9, <2>1
  <2>3. p + L \in m + 1 .. Len(got)
    BY <1>2, <1>4, <1>6, <1>9, <2>2
  <2>4. QED
    BY <1>2, <1>8, <2>3
<1>10. QED
  BY <1>3, <1>4, <1>9

\* When an end is found it is that of the message, or the message is behind it.
EndsWith(m, e, p, c) ==
  LET L == Len(Encoding(c).bytes)
      d == m + e - 2
  IN d <= p - 2 \/ (p = m + 1 /\ d = p + L - 1)

LEMMA EndFound ==
  ASSUME NEW got \in Seq(WireByte), NEW more \in Seq(WireByte), NEW m, StartsAt(got, m),
         NEW from, from = SubSeq(got, m, Len(got)), End(from) # 0,
         NEW p, NEW c \in Containers, Placed(got \o more, p, c)
  PROVE  EndsWith(m, End(from), p, c)
<1> DEFINE L == Len(Encoding(c).bytes)
           all == got \o more
           e == End(from)
<1>1. /\ all \in Seq(WireByte) /\ Len(all) = Len(got) + Len(more)
      /\ \A i \in 1 .. Len(got) : all[i] = got[i]
  OBVIOUS
<1>2. /\ L \in 2 .. 3 /\ p \in 2 .. Len(all)
      /\ all[p - 1].v = Delimiter /\ all[p + L].v = Delimiter
      /\ \A j \in p .. p + L - 1 : all[j].v # Delimiter
  <2>1. Placed(all, p, c)
    OBVIOUS
  <2> HIDE DEF all
  <2>2. AsSent(all, p, c)
    BY <1>1, <2>1, PlacedIs
  <2>3. QED
    BY <2>2 DEF AsSent
<1> HIDE DEF all, L
<1>3. m <= p - 1
  BY NotInFront
<1>4. m \in 1 .. Len(got) /\ Len(got) \in Nat /\ p \in Nat
  BY <1>2 DEF StartsAt
<1>5. m - 1 \in 0 .. Len(got) /\ (m - 1) + 1 = m
  BY <1>4
<1>6. /\ from \in Seq(WireByte) /\ Len(from) = Len(got) - (m - 1)
      /\ \A i \in 1 .. Len(got) - (m - 1) : from[i] = got[i + (m - 1)]
  BY <1>5, Parts
<1>7. /\ e \in 2 .. Len(from) /\ from[e].v = Delimiter
      /\ \A i \in 2 .. e - 1 : from[i].v # Delimiter
  BY <1>6, EndIs
<1> HIDE DEF e
<1>8. /\ e \in Nat /\ m + e - 1 \in m + 1 .. Len(got) /\ e + (m - 1) = m + e - 1
      /\ e \in 1 .. Len(got) - (m - 1) /\ m + e - 1 \in 1 .. Len(got)
  BY <1>4, <1>6, <1>7
<1>9. all[m + e - 1].v = Delimiter
  BY <1>1, <1>6, <1>7, <1>8
<1>10. ASSUME NEW j \in m + 1 .. m + e - 2
       PROVE  all[j].v # Delimiter
  <2>1. /\ j - (m - 1) \in 2 .. e - 1 /\ j - (m - 1) \in 1 .. Len(got) - (m - 1)
        /\ (j - (m - 1)) + (m - 1) = j /\ j \in 1 .. Len(got)
    BY <1>4, <1>8
  <2>2. QED
    BY <1>1, <1>6, <1>7, <2>1
<1>11. ASSUME ~(m + e - 2 <= p - 2)
       PROVE  p = m + 1 /\ m + e - 2 = p + L - 1
  <2>1. p - 1 \notin m + 1 .. m + e - 2
    BY <1>2, <1>10
  <2>2. p = m + 1
    BY <1>3, <1>4, <1>8, <1>11, <2>1
  <2>3. m + e - 1 \notin p .. p + L - 1
    BY <1>2, <1>9
  <2>4. p + L \notin m + 1 .. m + e - 2
    BY <1>2, <1>10
  <2>5. m + e - 1 = p + L
    BY <1>2, <1>4, <1>8, <2>2, <2>3, <2>4
  <2>6. QED
    BY <1>2, <1>4, <1>8, <2>2, <2>5
<1>12. QED
  BY <1>11 DEF EndsWith, e, L

-----------------------------------------------------------------------------
(***************************************************************************)
(* The inductive invariant: every message on its way is accounted for, and *)
(* those that are owed come as they were sent.                             *)
(***************************************************************************)
Carried ==
  /\ clock \in 0 .. MaxClock
  /\ line \in Seq(WireByte) /\ Len(line) <= MaxUnread
  /\ rx \in Seq(WireByte) /\ Len(rx) < BS
  /\ message \in Seq(WireByte) /\ Len(message) < BS
  /\ bound \in BOOLEAN
  /\ started \in BOOLEAN
  /\ sent \in Seq([content : Containers, owed : BOOLEAN])
  /\ skipped \in BOOLEAN

\* The i-th message of s begins somewhere in bytes, with those after it behind it.
Comes(s, bytes, i) ==
  \E p \in 2 .. Len(bytes) :
    Placed(bytes, p, s[i].content) /\ Behind(bytes, p) = Len(s) - i

Counted == Len(sent) = Firsts(message) + Firsts(rx \o line)

OwedCome ==
  \A i \in 1 .. Len(sent) :
    sent[i].owed => bound /\ Decodable(sent[i].content) /\ Comes(sent, rx \o line, i)

FeedbackInv == Carried /\ Counted /\ NoneSkipped /\ OwedCome

-----------------------------------------------------------------------------
(***************************************************************************)
(* An iteration of serialThread()                                          *)
(***************************************************************************)
LEMMA ReadsIs ==
  ASSUME Carried, NEW k \in Reads
  PROVE  k \in 0 .. Len(line) /\ k + Len(rx) <= BS
<1> DEFINE S == {Len(line), BS - Len(rx)}
<1>1. BS \in Nat /\ Len(line) \in Nat /\ Len(rx) \in Nat /\ BS - Len(rx) \in Nat
  BY FeedbackAssumption DEF Carried
<1>2. Min(S) \in S /\ Min(S) <= Len(line) /\ Min(S) <= BS - Len(rx)
  <2>1. \A a, b \in Nat : \/ Min({a, b}) = a /\ a <= b
                          \/ Min({a, b}) = b /\ b <= a
    <3>1. SUFFICES ASSUME NEW a \in Nat, NEW b \in Nat
                   PROVE  \/ Min({a, b}) = a /\ a <= b
                          \/ Min({a, b}) = b /\ b <= a
      OBVIOUS
    <3>2. \A i, j \in {a, b} : i <= j /\ j <= i => i = j
      OBVIOUS
    <3>3. CASE a <= b
      <4>1. \A j \in {a, b} : a <= j
        BY <3>3
      <4>2. QED
        BY <3>2, <3>3, <4>1 DEF Min
    <3>4. CASE b <= a
      <4>1. \A j \in {a, b} : b <= j
        BY <3>4
      <4>2. QED
        BY <3>2, <3>4, <4>1 DEF Min
    <3>5. QED
      BY <3>3, <3>4
  <2>2. QED
    BY <1>1, <2>1
<1>3. k \in 0 .. Min(S)
  BY DEF Reads
<1> HIDE DEF S
<1>4. Min(S) \in Nat
  BY <1>1, <1>2 DEF S
<1>5. QED
  BY <1>1, <1>2, <1>3, <1>4

LEMMA LengthIsNat ==
  ASSUME NEW s \in Seq(WireByte)
  PROVE  Len(s) \in Nat
OBVIOUS

LEMMA Joined ==
  ASSUME NEW a \in Seq(WireByte), NEW b \in Seq(WireByte), NEW c \in Seq(WireByte)
  PROVE  (a \o b) \o c = a \o (b \o c)
BY ConcatAssociative

\* The bytes in the buffer and those on the line are the same before and after read().
LEMMA ReadMoves ==
  ASSUME Carried, NEW k \in Reads, NEW got, got = rx \o SubSeq(line, 1, k),
         NEW more, more = SubSeq(line, k + 1, Len(line))
  PROVE  /\ got \in Seq(WireByte) /\ Len(got) <= BS
         /\ more \in Seq(WireByte) /\ Len(more) <= MaxUnread
         /\ rx \o line = got \o more
<1>1. k \in 0 .. Len(line) /\ k + Len(rx) <= BS
  BY ReadsIs
<1>2. line \in Seq(WireByte) /\ rx \in Seq(WireByte) /\ Len(line) <= MaxUnread
  BY DEF Carried
<1> DEFINE read == SubSeq(line, 1, k)
<1>3. /\ read \in Seq(WireByte) /\ Len(read) = k
      /\ more \in Seq(WireByte) /\ Len(more) = Len(line) - k
      /\ line = read \o more
  BY <1>1, <1>2, Parts
<1> HIDE DEF read
<1>4. got = rx \o read
  BY DEF read
<1>5. got \in Seq(WireByte) /\ Len(got) = Len(rx) + k
  <2>1. rx \o read \in Seq(WireByte) /\ Len(rx \o read) = Len(rx) + Len(read)
    BY <1>2, <1>3, ConcatProperties
  <2>2. QED
    BY <1>3, <1>4, <2>1
<1>6. (rx \o read) \o more = rx \o (read \o more)
  BY <1>2, <1>3, Joined
<1>7. rx \o line = got \o more
  BY <1>3, <1>4, <1>6
<1>8. Len(got) <= BS
  <2>1. Len(rx) \in Nat /\ BS \in Nat
    BY <1>2, FeedbackAssumption
  <2>2. QED
    BY <1>1, <1>5, <2>1
<1>9. Len(more) <= MaxUnread
  <2>1. Len(line) \in Nat /\ MaxUnread \in Nat
    BY <1>2, FeedbackAssumption
  <2>2. QED
    BY <1>1, <1>2, <1>3, <2>1
<1>10. QED
  BY <1>3, <1>5, <1>7, <1>8, <1>9

LEMMA EndOfSeq ==
  ASSUME NEW S, NEW s \in Seq(S), NEW g \in 0 .. Len(s)
  PROVE  /\ SubSeq(s, g + 1, Len(s)) \in Seq(S)
         /\ Len(SubSeq(s, g + 1, Len(s))) = Len(s) - g
         /\ \A i \in 1 .. Len(s) - g : SubSeq(s, g + 1, Len(s))[i] = s[i + g]
OBVIOUS

LEMMA ContentIs ==
  ASSUME Carried, NEW i \in 1 .. Len(sent)
  PROVE  sent[i].content \in Containers
<1> DEFINE S == [content : Containers, owed : BOOLEAN]
<1>1. \A r \in S : r.content \in Containers
  OBVIOUS
<1>2. sent \in Seq(S)
  BY DEF Carried
<1> HIDE DEF S
<1>3. sent[i] \in S
  BY <1>2
<1>4. QED
  BY <1>1, <1>3

\* What is left when the first d bytes are gone.
Without(d) == SubSeq(rx \o line, d + 1, Len(rx \o line))

\* rest and msg are left of an iteration that read k bytes; what is owed is not in the
\* d bytes that are gone, or has just been accepted.
Goes(k, rest, msg, accepted, d) ==
  /\ rest \in Seq(WireByte) /\ Len(rest) < BS
  /\ msg \in Seq(WireByte) /\ Len(msg) < BS
  /\ d \in 0 .. Len(rx \o line)
  /\ rest \o SubSeq(line, k + 1, Len(line)) = Without(d)
  /\ Firsts(msg) + Firsts(Without(d)) <= Len(sent)
  /\ accepted => msg = <<>>
  /\ \A i \in 1 .. Len(sent), p \in 2 .. Len(rx \o line) :
       sent[i].owed /\ Placed(rx \o line, p, sent[i].content)
                    /\ Behind(rx \o line, p) = Len(sent) - i
         => d <= p - 2 \/ (accepted /\ i = Len(sent) - Firsts(Without(d)))

\* Then what was owed is still owed, and comes, or has been accepted.
LEMMA LeavesKeeps ==
  ASSUME FeedbackInv, NEW k \in Reads, NEW rest, NEW msg, NEW accepted \in BOOLEAN,
         NEW d, Goes(k, rest, msg, accepted, d), Leaves(k, rest, msg, accepted)
  PROVE  FeedbackInv'
<1> DEFINE all == rx \o line
           end == Without(d)
<1>0. /\ rest \in Seq(WireByte) /\ Len(rest) < BS
      /\ msg \in Seq(WireByte) /\ Len(msg) < BS
      /\ d \in 0 .. Len(all)
      /\ end = SubSeq(all, d + 1, Len(all))
      /\ rest \o SubSeq(line, k + 1, Len(line)) = end
      /\ Firsts(msg) + Firsts(end) <= Len(sent)
      /\ accepted => msg = <<>>
      /\ \A i \in 1 .. Len(sent), p \in 2 .. Len(all) :
           sent[i].owed /\ Placed(all, p, sent[i].content) /\ Behind(all, p) = Len(sent) - i
             => d <= p - 2 \/ (accepted /\ i = Len(sent) - Firsts(end))
  BY DEF Goes, Without
<1> HIDE DEF all, end
<1> DEFINE more == SubSeq(line, k + 1, Len(line))
           gone == Len(sent) - Firsts(msg \o rest \o more)
           n    == Len(sent)
<1>1. Carried /\ Counted /\ ~skipped /\ OwedCome
  BY DEF FeedbackInv, NoneSkipped
<1>2. /\ line' = more /\ rx' = rest /\ message' = msg
      /\ sent' = SubSeq(sent, gone + 1, Len(sent))
      /\ skipped' = (skipped \/ \E i \in 1 .. gone : sent[i].owed /\ ~(accepted /\ i = gone))
      /\ UNCHANGED <<clock, bound, started>>
  BY DEF Leaves
<1>3. more \in Seq(WireByte) /\ Len(more) <= MaxUnread
  <2>1. SubSeq(line, k + 1, Len(line)) = more /\ rx \o SubSeq(line, 1, k) = rx \o SubSeq(line, 1, k)
    OBVIOUS
  <2> HIDE DEF more
  <2>2. QED
    BY <1>1, <2>1, ReadMoves
<1>4. all \in Seq(WireByte)
  BY <1>1 DEF Carried, all
<1>5. end \in Seq(WireByte) /\ Firsts(end) \in Nat
  BY <1>0, <1>4, Parts, FirstsType
<1>6. rest \o more = end
  BY <1>0
<1> HIDE DEF more
<1>7. Firsts(msg \o rest \o more) = Firsts(msg) + Firsts(end)
  <2>1. msg \o rest \in Seq(WireByte) /\ msg \in Seq(WireByte) /\ rest \in Seq(WireByte)
    BY <1>0
  <2>2. Firsts((msg \o rest) \o more) = Firsts(msg \o rest) + Firsts(more)
    BY <1>3, <2>1, FirstsAdd
  <2>3. Firsts(msg \o rest) = Firsts(msg) + Firsts(rest)
    BY <2>1, FirstsAdd
  <2>4. Firsts(end) = Firsts(rest) + Firsts(more)
    BY <1>3, <1>6, <2>1, FirstsAdd
  <2>5. Firsts(msg) \in Nat /\ Firsts(rest) \in Nat /\ Firsts(more) \in Nat
    BY <1>3, <2>1, FirstsType
  <2>6. QED
    BY <2>2, <2>3, <2>4, <2>5
<1>8. sent \in Seq([content : Containers, owed : BOOLEAN]) /\ n \in Nat
  BY <1>1 DEF Carried
<1>9. Firsts(msg) \in Nat /\ Firsts(msg) + Firsts(end) <= n
  BY <1>0, FirstsType
<1> HIDE DEF gone
<1>10. gone = n - (Firsts(msg) + Firsts(end))
  BY <1>7 DEF gone
<1> HIDE DEF n
<1> DEFINE there == Firsts(msg) + Firsts(end)
<1>11. there \in Nat /\ there <= n /\ gone \in 0 .. n /\ n - gone = there
       /\ \A i \in 1 .. n : n - i < Firsts(end) => gone < i
  <2>1. \A a, b, c \in Nat : a + b <= c =>
          /\ a + b \in Nat /\ c - (a + b) \in 0 .. c /\ c - (c - (a + b)) = a + b
          /\ \A i \in 1 .. c : c - i < b => c - (a + b) < i
    OBVIOUS
  <2>2. Firsts(msg) \in Nat /\ Firsts(end) \in Nat /\ n \in Nat
    BY <1>5, <1>8, <1>9
  <2>3. QED
    BY <1>9, <1>10, <2>1, <2>2
<1>12. /\ sent' \in Seq([content : Containers, owed : BOOLEAN])
       /\ Len(sent') = n - gone
       /\ \A i \in 1 .. n - gone : sent'[i] = sent[i + gone]
  <2>1. sent' = SubSeq(sent, gone + 1, Len(sent)) /\ gone \in 0 .. Len(sent)
    BY <1>2, <1>11 DEF n
  <2>2. QED
    BY <1>8, <2>1, EndOfSeq DEF n
<1>13. Carried'
  <2>1. skipped' \in BOOLEAN
    BY <1>2
  <2>2. QED
    BY <1>0, <1>1, <1>2, <1>3, <1>12, <2>1 DEF Carried
<1>14. (rx \o line)' = end
  BY <1>2, <1>6
<1>15. Counted'
  <2>1. n - gone = Firsts(msg) + Firsts(end)
    BY <1>11
  <2>2. Firsts((rx \o line)') = Firsts(end) /\ Firsts(message') = Firsts(msg)
    BY <1>2, <1>14
  <2>3. QED
    BY <1>12, <2>1, <2>2 DEF Counted, Firsts
<1>16. ASSUME NEW i \in 1 .. n, sent[i].owed
       PROVE  /\ bound /\ Decodable(sent[i].content)
              /\ \/ accepted /\ i = gone
                 \/ /\ gone < i
                    /\ \E q \in 2 .. Len(end) : /\ Placed(end, q, sent[i].content)
                                                /\ Behind(end, q) = n - i
  <2>1. i \in 1 .. Len(sent)
    BY DEF n
  <2>2. bound /\ Decodable(sent[i].content) /\ Comes(sent, all, i)
    BY <1>1, <1>16, <2>1 DEF OwedCome, all
  <2>3. PICK p \in 2 .. Len(all) : /\ Placed(all, p, sent[i].content)
                                   /\ Behind(all, p) = Len(sent) - i
    BY <2>2 DEF Comes
  <2>4. d <= p - 2 \/ (accepted /\ i = Len(sent) - Firsts(end))
    BY <1>0, <1>16, <2>1, <2>3
  <2>5. sent[i].content \in Containers
    BY <1>1, <2>1, ContentIs
  <2>6. CASE accepted /\ i = Len(sent) - Firsts(end)
    <3>1. Firsts(msg) = 0
      <4>1. msg = <<>> /\ \A j \in 1 .. Len(msg) : msg[j].mark # "first"
        BY <1>0, <2>6
      <4>2. QED
        BY <4>1, NoFirsts
    <3>2. i = gone
      BY <1>5, <1>10, <2>6, <3>1 DEF n
    <3>3. QED
      BY <2>2, <2>6, <3>2
  <2>7. CASE d <= p - 2
    <3>1. /\ Placed(end, p - d, sent[i].content)
          /\ Behind(end, p - d) = Behind(all, p) /\ Behind(all, p) < Firsts(end)
      <4>1. ASSUME NEW c \in Containers, Placed(all, p, c)
            PROVE  StillComes(all, p, c, d, end)
        BY <1>0, <1>4, <2>7, <4>1, PlacedInEnd
      <4>2. QED
        BY <2>3, <2>5, <4>1 DEF StillComes
    <3>2. AsSent(end, p - d, sent[i].content)
      BY <1>5, <2>5, <3>1, PlacedIs
    <3>3. p - d \in 2 .. Len(end)
      BY <3>2 DEF AsSent
    <3>4. Behind(all, p) = n - i
      BY <2>3 DEF n
    <3>5. gone < i
      <4>1. n - i < Firsts(end)
        BY <3>1, <3>4
      <4>2. QED
        BY <1>11, <4>1
    <3>6. QED
      BY <2>2, <3>1, <3>3, <3>4, <3>5
  <2>8. QED
    BY <2>4, <2>6, <2>7
<1>17. NoneSkipped'
  <2>1. SUFFICES ASSUME NEW i \in 1 .. gone, sent[i].owed, ~(accepted /\ i = gone)
                 PROVE  FALSE
    BY <1>1, <1>2 DEF NoneSkipped
  <2>2. i \in 1 .. n /\ ~(gone < i)
    BY <1>8, <1>11
  <2>3. QED
    BY <1>16, <2>1, <2>2
<1>18. OwedCome'
  <2>1. SUFFICES ASSUME NEW j \in 1 .. Len(sent'), sent'[j].owed
                 PROVE  /\ bound' /\ Decodable(sent'[j].content)
                        /\ Comes(sent', (rx \o line)', j)
    BY DEF OwedCome
  <2>2. /\ j + gone \in 1 .. n /\ sent'[j] = sent[j + gone]
        /\ ~(j + gone = gone) /\ n - (j + gone) = (n - gone) - j
    <3>1. \A a \in Nat : \A g \in 0 .. a : \A b \in 1 .. a - g :
            b + g \in 1 .. a /\ ~(b + g = g) /\ a - (b + g) = (a - g) - b
      OBVIOUS
    <3>2. n \in Nat /\ gone \in 0 .. n /\ j \in 1 .. n - gone /\ sent'[j] = sent[j + gone]
      BY <1>8, <1>11, <1>12
    <3>3. QED
      BY <3>1, <3>2
  <2>3. PICK q \in 2 .. Len(end) : /\ Placed(end, q, sent[j + gone].content)
                                   /\ Behind(end, q) = n - (j + gone)
    BY <1>16, <2>1, <2>2
  <2>4. bound /\ Decodable(sent[j + gone].content)
    BY <1>16, <2>1, <2>2
  <2>5. Comes(sent', end, j)
    BY <1>12, <2>2, <2>3 DEF Comes
  <2>6. QED
    BY <1>2, <1>14, <2>2, <2>4, <2>5
<1>19. QED
  BY <1>13, <1>15, <1>17, <1>18 DEF FeedbackInv

LEMMA RestOfLine ==
  ASSUME NEW got \in Seq(WireByte), NEW more \in Seq(WireByte)
  PROVE  SubSeq(got \o more, Len(got) + 1, Len(got \o more)) = more
<1>1. Len(got) \in Nat /\ Len(got) \in 0 .. Len(got)
  OBVIOUS
<1>2. SubSeq(got, Len(got) + 1, Len(got)) = <<>>
  OBVIOUS
<1>3. <<>> \o more = more
  OBVIOUS
<1>4. QED
  BY Zenon, <1>1, <1>2, <1>3, EndWithMore

LEMMA KeptIs ==
  ASSUME Carried, NEW got \in Seq(WireByte), Len(got) <= BS
  PROVE  /\ Kept(got) \in Seq(WireByte) /\ Len(Kept(got)) < BS
         /\ Firsts(Kept(got)) <= Firsts(message)
         /\ Kept(got) # <<>> => Len(got) < BS
<1>1. /\ message \in Seq(WireByte) /\ Len(message) < BS /\ Len(message) \in Nat
      /\ Len(got) \in Nat /\ BS \in Nat /\ BS >= 5
  BY FeedbackAssumption DEF Carried
<1>2. Firsts(message) \in Nat /\ Firsts(<<>>) = 0
  <2>1. \A i \in 1 .. Len(<<>>) : <<>>[i].mark # "first"
    OBVIOUS
  <2>2. QED
    BY <1>1, <2>1, FirstsType, NoFirsts
<1>3. CASE Len(message) >= BS - Len(got)
  <2>1. Kept(got) = <<>>
    BY <1>3 DEF Kept
  <2>2. <<>> \in Seq(WireByte) /\ Len(<<>>) = 0
    OBVIOUS
  <2>3. QED
    BY <1>1, <1>2, <2>1, <2>2
<1>4. CASE ~(Len(message) >= BS - Len(got))
  <2>1. Kept(got) = message
    BY <1>4 DEF Kept
  <2>2. Len(got) < BS
    BY <1>1, <1>4
  <2>3. QED
    BY <1>1, <1>2, <2>1, <2>2
<1>5. QED
  BY <1>3, <1>4

\* Nothing leaves.
LEMMA NothingYetKeeps ==
  ASSUME FeedbackInv, NEW k \in Reads, NEW got, got = rx \o SubSeq(line, 1, k),
         NothingYet(k, got)
  PROVE  FeedbackInv'
<1> DEFINE more == SubSeq(line, k + 1, Len(line))
           all  == rx \o line
<1>1. Carried /\ Counted
  BY DEF FeedbackInv
<1>2. got \in Seq(WireByte) /\ more \in Seq(WireByte) /\ all = got \o more
  BY <1>1, ReadMoves
<1>3. Leaves(k, got, message, FALSE) /\ Len(got) <= 1
  BY DEF NothingYet
<1>4. Len(got) < BS
  <2>1. \A n \in Nat : n <= 1 => n < BS
    BY FeedbackAssumption
  <2>2. Len(got) \in Nat
    BY <1>2
  <2>3. QED
    BY <1>3, <2>1, <2>2
<1>5. all \in Seq(WireByte)
  BY <1>1 DEF Carried
<1> HIDE DEF more
<1>6. Without(0) = all /\ 0 \in 0 .. Len(all) /\ \A p \in 2 .. Len(all) : 0 <= p - 2
  <2>1. SubSeq(all, 0 + 1, Len(all)) = all /\ Len(all) \in Nat
    BY <1>5
  <2>2. QED
    BY <2>1 DEF Without
<1>7. Firsts(message) + Firsts(all) = Len(sent) /\ Len(sent) \in Nat
  BY <1>1 DEF Counted, Carried
<1>8. message \in Seq(WireByte) /\ Len(message) < BS
  BY <1>1 DEF Carried
<1>9. Goes(k, got, message, FALSE, 0)
  <2>1. Firsts(message) + Firsts(all) <= Len(sent)
    BY <1>7
  <2> HIDE DEF all
  <2>2. QED
    BY <1>2, <1>4, <1>6, <1>8, <2>1 DEF Goes, all, more
<1>10. QED
  BY <1>3, <1>9, LeavesKeeps

\* All of the buffer leaves; nothing that is owed was in it.
LEMMA NoStartKeeps ==
  ASSUME FeedbackInv, NEW k \in Reads, NEW got, got = rx \o SubSeq(line, 1, k),
         NEW from, from = FromStart(got), NoStart(k, got, from)
  PROVE  FeedbackInv'
<1> DEFINE more == SubSeq(line, k + 1, Len(line))
           all  == rx \o line
<1>1. Carried /\ Counted
  BY DEF FeedbackInv
<1>2. got \in Seq(WireByte) /\ Len(got) <= BS /\ more \in Seq(WireByte) /\ all = got \o more
  BY <1>1, ReadMoves
<1>3. Leaves(k, <<>>, Kept(got), FALSE) /\ from[1].v # Delimiter
  BY DEF NoStart
<1> HIDE DEF more
<1>4. /\ Kept(got) \in Seq(WireByte) /\ Len(Kept(got)) < BS
      /\ Firsts(Kept(got)) <= Firsts(message)
  BY <1>1, <1>2, KeptIs
<1>5. \A i \in 1 .. Len(got) : got[i].v # Delimiter
  <2>1. SUFFICES ASSUME NEW m \in 1 .. Len(got), StartsAt(got, m),
                        from = SubSeq(got, m, Len(got))
                 PROVE  FALSE
    BY <1>2, StartIs
  <2>2. m - 1 \in 0 .. Len(got) /\ (m - 1) + 1 = m /\ 1 \in 1 .. Len(got) - (m - 1)
        /\ 1 + (m - 1) = m
    BY <1>2
  <2>3. from[1] = got[m]
    <3>1. \A i \in 1 .. Len(got) - (m - 1) :
            SubSeq(got, (m - 1) + 1, Len(got))[i] = got[i + (m - 1)]
      BY <1>2, <2>2, Parts
    <3>2. QED
      BY <2>1, <2>2, <3>1
  <2>4. QED
    BY <1>3, <2>1, <2>3 DEF StartsAt
<1>6. all \in Seq(WireByte) /\ Len(got) \in 0 .. Len(all)
  BY <1>2
<1>7. Without(Len(got)) = more
  BY <1>2, RestOfLine DEF Without
<1>8. Firsts(Kept(got)) + Firsts(more) <= Len(sent)
  <2>1. Firsts(all) = Firsts(got) + Firsts(more)
    BY <1>2, FirstsAdd
  <2>2. message \in Seq(WireByte) /\ Len(sent) = Firsts(message) + Firsts(all)
    BY <1>1 DEF Counted, Carried
  <2>3. /\ Firsts(Kept(got)) \in Nat /\ Firsts(more) \in Nat
        /\ Firsts(got) \in Nat /\ Firsts(message) \in Nat
    BY <1>2, <1>4, <2>2, FirstsType
  <2>4. \A a, b, c, e \in Nat : a <= c => a + b <= c + (e + b)
    OBVIOUS
  <2>5. QED
    BY <1>4, <2>1, <2>2, <2>3, <2>4
<1>9. ASSUME NEW i \in 1 .. Len(sent), NEW p \in 2 .. Len(all),
             Placed(all, p, sent[i].content)
      PROVE  Len(got) <= p - 2
  <2>1. \A c \in Containers : Placed(got \o more, p, c) => Len(got) <= p - 2
    BY <1>2, <1>5, NotWithoutStart
  <2>2. sent[i].content \in Containers
    BY <1>1, ContentIs
  <2>3. QED
    BY <1>2, <1>9, <2>1, <2>2
<1>10. Goes(k, <<>>, Kept(got), FALSE, Len(got))
  <2>1. <<>> \in Seq(WireByte) /\ Len(<<>>) < BS /\ <<>> \o more = more
    BY <1>2, FeedbackAssumption
  <2> HIDE DEF all
  <2>2. QED
    BY <1>4, <1>6, <1>7, <1>8, <1>9, <2>1 DEF Goes, all, more
<1>11. QED
  BY <1>3, <1>10, LeavesKeeps

LEMMA StartFound ==
  ASSUME NEW got \in Seq(WireByte), Len(got) > 1,
         NEW from, from = FromStart(got), from[1].v = Delimiter
  PROVE  \E m : StartsAt(got, m) /\ from = SubSeq(got, m, Len(got))
<1>1. 1 \in 1 .. Len(got)
  OBVIOUS
<1>2. QED
  BY <1>1, StartIs

\* What stays from the start on.
Cut(k, got, m, from) ==
  /\ m \in 1 .. Len(got) /\ m - 1 \in 0 .. Len(got) /\ m - 1 \in 0 .. Len(rx \o line)
  /\ from \in Seq(WireByte) /\ Len(from) = Len(got) - (m - 1)
  /\ \A i \in 1 .. Len(from) : from[i] = got[i + (m - 1)]
  /\ from \o SubSeq(line, k + 1, Len(line)) = Without(m - 1)

LEMMA FromIs ==
  ASSUME FeedbackInv, NEW k \in Reads, NEW got, got = rx \o SubSeq(line, 1, k),
         NEW m, StartsAt(got, m), NEW from, from = SubSeq(got, m, Len(got))
  PROVE  Cut(k, got, m, from)
<1> DEFINE more == SubSeq(line, k + 1, Len(line))
           all  == rx \o line
<1>1. Carried
  BY DEF FeedbackInv
<1>2. got \in Seq(WireByte) /\ more \in Seq(WireByte) /\ all = got \o more
  BY <1>1, ReadMoves
<1> HIDE DEF more
<1>3. m \in 1 .. Len(got) /\ Len(got) \in Nat /\ Len(all) = Len(got) + Len(more)
      /\ Len(more) \in Nat
  <2>1. \A a, b \in Seq(WireByte) : Len(a) \in Nat /\ Len(a \o b) = Len(a) + Len(b)
    OBVIOUS
  <2> HIDE DEF all
  <2>2. QED
    BY <1>2, <2>1 DEF StartsAt
<1> HIDE DEF all
<1>4. m - 1 \in 0 .. Len(got) /\ (m - 1) + 1 = m /\ m - 1 \in 0 .. Len(all)
  <2>1. \A a, b \in Nat : \A i \in 1 .. a :
          i - 1 \in 0 .. a /\ (i - 1) + 1 = i /\ i - 1 \in 0 .. a + b
    OBVIOUS
  <2>2. QED
    BY <1>3, <2>1
<1>5. /\ SubSeq(got, (m - 1) + 1, Len(got)) \in Seq(WireByte)
      /\ Len(SubSeq(got, (m - 1) + 1, Len(got))) = Len(got) - (m - 1)
      /\ \A i \in 1 .. Len(got) - (m - 1) :
           SubSeq(got, (m - 1) + 1, Len(got))[i] = got[i + (m - 1)]
  BY <1>2, <1>4, Parts
<1>6. SubSeq(got, (m - 1) + 1, Len(got)) \o more
        = SubSeq(got \o more, (m - 1) + 1, Len(got \o more))
  BY <1>2, <1>4, EndWithMore
<1>7. SubSeq(got, (m - 1) + 1, Len(got)) = from
  BY <1>4
<1>8. from \o more = Without(m - 1)
  BY <1>2, <1>6, <1>7 DEF Without, all
<1>9. QED
  BY <1>3, <1>4, <1>5, <1>7, <1>8 DEF Cut, more, all

\* Fewer messages are there than were.
LEMMA FewerFirsts ==
  ASSUME FeedbackInv, NEW d \in 0 .. Len(rx \o line)
  PROVE  /\ Firsts(Without(d)) \in Nat /\ Firsts(message) \in Nat
         /\ Firsts(message) + Firsts(Without(d)) <= Len(sent)
<1>1. rx \o line \in Seq(WireByte) /\ message \in Seq(WireByte)
      /\ Len(sent) = Firsts(message) + Firsts(rx \o line)
  BY DEF FeedbackInv, Carried, Counted
<1>2. /\ Firsts(rx \o line) = Firsts(SubSeq(rx \o line, 1, d)) + Firsts(Without(d))
      /\ SubSeq(rx \o line, 1, d) \in Seq(WireByte) /\ Without(d) \in Seq(WireByte)
  BY <1>1, Parts DEF Without
<1>3. /\ Firsts(SubSeq(rx \o line, 1, d)) \in Nat /\ Firsts(Without(d)) \in Nat
      /\ Firsts(message) \in Nat
  BY <1>1, <1>2, FirstsType
<1>4. \A a, b, c \in Nat : a + b <= a + (c + b)
  OBVIOUS
<1>5. QED
  BY <1>1, <1>2, <1>3, <1>4

-----------------------------------------------------------------------------
\* No end is found: the message stays, or is not in the buffer yet.
LEMMA NoEndGoes ==
  ASSUME FeedbackInv, NEW k \in Reads, NEW got, got = rx \o SubSeq(line, 1, k),
         NEW m, StartsAt(got, m), NEW from, from = SubSeq(got, m, Len(got)),
         End(from) = 0, NEW accepted \in BOOLEAN
  PROVE  /\ Len(from) <= BS
         /\ Len(got) < BS => Goes(k, from, <<>>, accepted, m - 1)
         /\ Len(from) < BS => Goes(k, from, Kept(got), FALSE, m - 1)
         /\ Len(from) = BS => Goes(k, <<>>, Kept(got), FALSE, Len(got))
<1> DEFINE more == SubSeq(line, k + 1, Len(line))
           all  == rx \o line
<1>1. Carried /\ Counted
  BY DEF FeedbackInv
<1>2. got \in Seq(WireByte) /\ Len(got) <= BS /\ more \in Seq(WireByte) /\ all = got \o more
  BY <1>1, ReadMoves
<1>3. /\ m \in 1 .. Len(got) /\ m - 1 \in 0 .. Len(all)
      /\ from \in Seq(WireByte) /\ Len(from) = Len(got) - (m - 1)
      /\ from \o more = Without(m - 1)
  <2>1. Cut(k, got, m, from)
    BY FromIs
  <2>2. QED
    BY <2>1 DEF Cut
<1>4. /\ Kept(got) \in Seq(WireByte) /\ Len(Kept(got)) < BS
      /\ Firsts(Kept(got)) <= Firsts(message)
  BY <1>1, <1>2, KeptIs
<1> HIDE DEF more
<1>5. Len(got) \in 0 .. Len(all) /\ Len(got) \in Nat
  <2>1. \A a, b \in Seq(WireByte) : Len(a) \in Nat /\ Len(a) \in 0 .. Len(a \o b)
    OBVIOUS
  <2> HIDE DEF all
  <2>2. QED
    BY <1>2, <2>1
<1>6. Without(Len(got)) = more
  BY <1>2, RestOfLine DEF Without
<1>7. ASSUME NEW i \in 1 .. Len(sent), NEW p \in 2 .. Len(all),
             Placed(all, p, sent[i].content)
      PROVE  m - 1 <= p - 2 /\ (Len(from) >= 5 => Len(got) <= p - 2)
  <2>1. \A c \in Containers : Placed(got \o more, p, c) =>
          m - 1 <= p - 2 /\ (Len(from) >= 5 => Len(got) <= p - 2)
    BY <1>2, NoEndYet
  <2>2. sent[i].content \in Containers
    BY <1>1, ContentIs
  <2>3. QED
    BY <1>2, <1>7, <2>1, <2>2
<1> HIDE DEF all
<1>8. BS \in Nat /\ BS >= 5
  BY FeedbackAssumption
<1>9. /\ Len(from) <= Len(got) /\ Len(from) <= BS /\ Len(from) \in Nat
      /\ Len(got) < BS => Len(from) < BS
  <2>1. \A a, b \in Nat : a <= b => \A i \in 1 .. a :
          /\ a - (i - 1) <= a /\ a - (i - 1) <= b /\ a - (i - 1) \in Nat
          /\ a < b => a - (i - 1) < b
    OBVIOUS
  <2>2. QED
    BY <1>2, <1>3, <1>5, <1>8, <2>1
<1>10. ASSUME NEW d \in 0 .. Len(all)
       PROVE  /\ Firsts(<<>>) + Firsts(Without(d)) <= Len(sent)
              /\ Firsts(Kept(got)) + Firsts(Without(d)) <= Len(sent)
  <2>1. /\ Firsts(Without(d)) \in Nat /\ Firsts(message) \in Nat
        /\ Firsts(message) + Firsts(Without(d)) <= Len(sent)
    BY FewerFirsts DEF all
  <2>2. Firsts(<<>>) = 0
    <3>1. \A i \in 1 .. Len(<<>>) : <<>>[i].mark # "first"
      OBVIOUS
    <3>2. QED
      BY <3>1, NoFirsts
  <2>3. Firsts(Kept(got)) \in Nat /\ Len(sent) \in Nat
    <3>1. sent \in Seq([content : Containers, owed : BOOLEAN])
      BY <1>1 DEF Carried
    <3>2. Len(sent) \in Nat
      BY <3>1
    <3>3. QED
      BY <1>4, <3>2, FirstsType
  <2>4. \A a, b, c, n \in Nat : a <= b /\ b + c <= n => a + c <= n /\ 0 + c <= n
    OBVIOUS
  <2>5. QED
    BY <1>4, <2>1, <2>2, <2>3, <2>4
<1>11. <<>> \in Seq(WireByte) /\ Len(<<>>) < BS /\ <<>> \o more = more
  BY <1>2, <1>8
<1>12. ASSUME Len(got) < BS
       PROVE  Goes(k, from, <<>>, accepted, m - 1)
  <2>1. Len(from) < BS
    BY <1>9, <1>12
  <2>2. QED
    BY <1>3, <1>7, <1>10, <1>11, <2>1 DEF Goes, all, more
<1>13. ASSUME Len(from) < BS
       PROVE  Goes(k, from, Kept(got), FALSE, m - 1)
  BY <1>3, <1>4, <1>7, <1>10, <1>13 DEF Goes, all, more
<1>14. ASSUME Len(from) = BS
       PROVE  Goes(k, <<>>, Kept(got), FALSE, Len(got))
  <2>1. Len(from) >= 5
    BY <1>8, <1>14
  <2>2. QED
    BY <1>4, <1>5, <1>6, <1>7, <1>10, <1>11, <2>1 DEF Goes, all, more
<1>15. QED
  BY <1>9, <1>12, <1>13, <1>14

-----------------------------------------------------------------------------
(***************************************************************************)
(* An end is found                                                         *)
(***************************************************************************)
\* The message between the delimiters, and the rest.
Splits(from, e, msg, rest) ==
  /\ msg \in Seq(WireByte) /\ Len(msg) = e - 2
  /\ \A j \in 1 .. e - 2 : msg[j] = from[j + 1]
  /\ rest \in Seq(WireByte) /\ Len(rest) = Len(from) - (e - 1)
  /\ SubSeq(from, 2, Len(from)) = msg \o rest

LEMMA MessageAndRest ==
  ASSUME NEW from \in Seq(WireByte), NEW e \in 2 .. Len(from),
         NEW msg, msg = SubSeq(from, 2, e - 1), NEW rest, rest = SubSeq(from, e, Len(from))
  PROVE  Splits(from, e, msg, rest)
<1>1. e \in Nat /\ Len(from) \in Nat /\ e >= 2 /\ e <= Len(from)
  OBVIOUS
<1>2. msg \in Seq(WireByte) /\ Len(msg) = e - 2
  OBVIOUS
<1>3. \A j \in 1 .. e - 2 : msg[j] = from[j + 1]
  OBVIOUS
<1>4. rest \in Seq(WireByte) /\ Len(rest) = Len(from) - (e - 1)
  OBVIOUS
<1>5. SubSeq(from, 2, Len(from)) = msg \o rest
  <2>1. 2 \in 1 .. Len(from) + 1 /\ e - 1 \in 2 - 1 .. Len(from) /\ Len(from) \in e - 1 .. Len(from)
        /\ (e - 1) + 1 = e
    BY <1>1
  <2>2. SubSeq(from, 2, e - 1) \o SubSeq(from, (e - 1) + 1, Len(from)) = SubSeq(from, 2, Len(from))
    BY <2>1, ConcatAdjacentSubSeq
  <2>3. QED
    BY <2>1, <2>2
<1>6. QED
  BY <1>2, <1>3, <1>4, <1>5 DEF Splits

\* The end of from, with more behind it, is the end of all.
LEMMA EndOfAll ==
  ASSUME NEW all \in Seq(WireByte), NEW m \in 1 .. Len(all),
         NEW from \in Seq(WireByte), NEW more \in Seq(WireByte),
         from \o more = SubSeq(all, m, Len(all)), NEW e \in 1 .. Len(from)
  PROVE  SubSeq(from, e, Len(from)) \o more = SubSeq(all, m + e - 1, Len(all))
<1> DEFINE x == from \o more
<1>1. Len(x) = Len(from) + Len(more) /\ x \in Seq(WireByte) /\ Len(from) \in Nat
      /\ Len(more) \in Nat /\ Len(all) \in Nat
  <2>1. \A a, b \in Seq(WireByte) : /\ Len(a \o b) = Len(a) + Len(b) /\ a \o b \in Seq(WireByte)
                                    /\ Len(a) \in Nat
    OBVIOUS
  <2>2. QED
    BY <2>1
<1>2. x = SubSeq(all, m, Len(all))
  OBVIOUS
<1> HIDE DEF x
<1>3. m - 1 \in 0 .. Len(all) /\ (m - 1) + 1 = m
  BY <1>1
<1>4. x = SubSeq(all, (m - 1) + 1, Len(all))
  BY <1>2, <1>3
<1>5. Len(x) = Len(all) - (m - 1)
  BY <1>3, <1>4, Parts
<1>6. /\ e - 1 \in 0 .. Len(from) /\ (e - 1) + 1 = e
      /\ e - 1 \in 0 .. Len(all) - (m - 1)
      /\ (m - 1) + (e - 1) + 1 = m + e - 1
  <2>1. \A a, b \in Nat : \A n \in 1 .. a : \A i \in Nat :
          /\ n - 1 \in 0 .. a /\ (n - 1) + 1 = n /\ n - 1 \in 0 .. a + b
          /\ (i - 1) + (n - 1) + 1 = i + n - 1
    OBVIOUS
  <2>2. m \in Nat /\ Len(from) + Len(more) = Len(all) - (m - 1)
    BY <1>1, <1>5
  <2>3. QED
    BY <1>1, <2>1, <2>2
<1>7. SubSeq(x, (e - 1) + 1, Len(x)) = SubSeq(all, (m - 1) + (e - 1) + 1, Len(all))
  BY <1>3, <1>4, <1>6, EndOfEnd
<1>8. SubSeq(from, (e - 1) + 1, Len(from)) \o more = SubSeq(x, (e - 1) + 1, Len(x))
  BY <1>6, EndWithMore DEF x
<1>9. QED
  BY <1>6, <1>7, <1>8

\* The message msg is taken, the rest stays; d bytes have left.
Taken(k, m, e, msg, rest) ==
  LET d == m + e - 2
  IN /\ d \in m .. Len(rx \o line) /\ d \in 0 .. Len(rx \o line)
     /\ rest \in Seq(WireByte) /\ Len(rest) < BS
     /\ msg \in Seq(WireByte) /\ Len(msg) = e - 2 /\ Len(msg) < BS
     /\ \A j \in 1 .. e - 2 : msg[j] = (rx \o line)[m + j]
     /\ rest \o SubSeq(line, k + 1, Len(line)) = Without(d)
     /\ Without(m) = msg \o Without(d)
     /\ Firsts(Without(m)) = Firsts(msg) + Firsts(Without(d))

LEMMA EndCuts ==
  ASSUME FeedbackInv, NEW k \in Reads, NEW got \in Seq(WireByte), Len(got) <= BS,
         rx \o line = got \o SubSeq(line, k + 1, Len(line)),
         SubSeq(line, k + 1, Len(line)) \in Seq(WireByte),
         NEW m, NEW from, Cut(k, got, m, from), NEW e \in 2 .. Len(from)
  PROVE  Taken(k, m, e, SubSeq(from, 2, e - 1), SubSeq(from, e, Len(from)))
<1> DEFINE more == SubSeq(line, k + 1, Len(line))
           all  == rx \o line
           d    == m + e - 2
           msg  == SubSeq(from, 2, e - 1)
           rest == SubSeq(from, e, Len(from))
<1>1. /\ more \in Seq(WireByte) /\ all = got \o more
  OBVIOUS
<1> HIDE DEF more
<1>2. from \in Seq(WireByte) /\ from \o more = Without(m - 1)
      /\ m \in 1 .. Len(got) /\ m - 1 \in 0 .. Len(all)
      /\ Len(from) = Len(got) - (m - 1)
      /\ \A i \in 1 .. Len(from) : from[i] = got[i + (m - 1)]
  BY DEF Cut, more
<1>3. /\ Len(got) \in Nat /\ Len(more) \in Nat /\ Len(all) = Len(got) + Len(more)
      /\ all \in Seq(WireByte) /\ \A i \in 1 .. Len(got) : all[i] = got[i]
  <2>1. \A a, b \in Seq(WireByte) :
          /\ Len(a) \in Nat /\ Len(b) \in Nat /\ Len(a \o b) = Len(a) + Len(b)
          /\ a \o b \in Seq(WireByte) /\ \A i \in 1 .. Len(a) : (a \o b)[i] = a[i]
    OBVIOUS
  <2> HIDE DEF all
  <2>2. QED
    BY <1>1, <2>1
<1>4. /\ msg \in Seq(WireByte) /\ Len(msg) = e - 2
      /\ \A j \in 1 .. e - 2 : msg[j] = from[j + 1]
      /\ rest \in Seq(WireByte) /\ Len(rest) = Len(from) - (e - 1)
      /\ SubSeq(from, 2, Len(from)) = msg \o rest
  <2>1. msg = SubSeq(from, 2, e - 1) /\ rest = SubSeq(from, e, Len(from))
    OBVIOUS
  <2>2. from \in Seq(WireByte)
    BY <1>2
  <2> HIDE DEF msg, rest
  <2>3. Splits(from, e, msg, rest)
    BY <2>1, <2>2, MessageAndRest
  <2>4. QED
    BY <2>3 DEF Splits
<1>5. e \in 2 .. Len(got) - (m - 1) /\ BS \in Nat
  BY <1>2, FeedbackAssumption
<1> HIDE DEF all, msg, rest
<1> DEFINE g == Len(got)
           l == Len(more)
<1>6. /\ d \in m .. Len(all) /\ d \in 0 .. Len(all) /\ (m - 1) + 1 = m
      /\ m \in 1 .. Len(all) /\ m + e - 1 = d + 1 /\ m + 2 - 1 = m + 1
      /\ Len(from) - (e - 1) < BS /\ e - 2 < BS
      /\ 2 \in 1 .. Len(from) /\ e \in 1 .. Len(from)
      /\ \A j \in 1 .. e - 2 : /\ j + 1 \in 1 .. Len(from) /\ (j + 1) + (m - 1) = m + j
                               /\ m + j \in 1 .. Len(got)
  <2>1. \A a, b, c \in Nat : a <= c => \A i \in 1 .. a : \A n \in 2 .. a - (i - 1) :
          /\ i + n - 2 \in i .. a + b /\ i + n - 2 \in 0 .. a + b /\ (i - 1) + 1 = i
          /\ i \in 1 .. a + b /\ i + n - 1 = (i + n - 2) + 1 /\ i + 2 - 1 = i + 1
          /\ (a - (i - 1)) - (n - 1) < c /\ n - 2 < c
          /\ 2 \in 1 .. a - (i - 1) /\ n \in 1 .. a - (i - 1)
          /\ \A h \in 1 .. n - 2 : /\ h + 1 \in 1 .. a - (i - 1) /\ (h + 1) + (i - 1) = i + h
                                   /\ i + h \in 1 .. a
    OBVIOUS
  <2>2. g \in Nat /\ l \in Nat /\ BS \in Nat /\ g <= BS /\ m \in 1 .. g
        /\ e \in 2 .. g - (m - 1)
    BY <1>2, <1>3, <1>5
  <2>3. Len(all) = g + l /\ Len(from) = g - (m - 1)
    BY <1>2, <1>3
  <2> HIDE DEF g, l
  <2>4. /\ m + e - 2 \in m .. g + l /\ m + e - 2 \in 0 .. g + l /\ (m - 1) + 1 = m
        /\ m \in 1 .. g + l /\ m + e - 1 = (m + e - 2) + 1 /\ m + 2 - 1 = m + 1
        /\ (g - (m - 1)) - (e - 1) < BS /\ e - 2 < BS
        /\ 2 \in 1 .. g - (m - 1) /\ e \in 1 .. g - (m - 1)
        /\ \A j \in 1 .. e - 2 : /\ j + 1 \in 1 .. g - (m - 1) /\ (j + 1) + (m - 1) = m + j
                                 /\ m + j \in 1 .. g
    BY Zenon, <2>1, <2>2
  <2>5. QED
    BY Zenon, <2>3, <2>4 DEF d, g
<1>7. from \o more = SubSeq(all, m, Len(all))
  BY <1>2, <1>6 DEF Without, all
<1>8. rest \o more = Without(d)
  <2>1. SubSeq(from, e, Len(from)) \o more = SubSeq(all, m + e - 1, Len(all))
    <3>1. /\ all \in Seq(WireByte) /\ from \in Seq(WireByte) /\ more \in Seq(WireByte)
          /\ m \in 1 .. Len(all) /\ e \in 1 .. Len(from)
      BY <1>1, <1>2, <1>3, <1>6
    <3>2. QED
      BY ZenonT(60), <1>7, <3>1, EndOfAll
  <2>2. QED
    BY <1>6, <2>1 DEF Without, all, rest
<1>9. SubSeq(from, 2, Len(from)) \o more = Without(m)
  <2>1. SubSeq(from, 2, Len(from)) \o more = SubSeq(all, m + 2 - 1, Len(all))
    <3>1. /\ all \in Seq(WireByte) /\ from \in Seq(WireByte) /\ more \in Seq(WireByte)
          /\ m \in 1 .. Len(all) /\ 2 \in 1 .. Len(from)
      BY <1>1, <1>2, <1>3, <1>6
    <3>2. QED
      BY ZenonT(60), <1>7, <3>1, EndOfAll
  <2>2. QED
    BY <1>6, <2>1 DEF Without, all
<1>10. (msg \o rest) \o more = msg \o (rest \o more)
  BY <1>1, <1>4, Joined
<1>11. Without(m) = msg \o Without(d)
  BY <1>4, <1>8, <1>9, <1>10
<1>12. Without(d) \in Seq(WireByte)
  BY <1>3, <1>6, Parts DEF Without, all
<1>13. Firsts(Without(m)) = Firsts(msg) + Firsts(Without(d))
  BY <1>4, <1>11, <1>12, FirstsAdd
<1>14. ASSUME NEW j \in 1 .. e - 2
       PROVE  msg[j] = all[m + j]
  <2>1. /\ j + 1 \in 1 .. Len(from) /\ (j + 1) + (m - 1) = m + j
        /\ m + j \in 1 .. Len(got)
    BY <1>6
  <2>2. msg[j] = from[j + 1] /\ from[j + 1] = got[m + j] /\ all[m + j] = got[m + j]
    BY <1>2, <1>3, <1>4, <2>1
  <2>3. QED
    BY <2>2
<1>15. Len(rest) < BS /\ Len(msg) < BS
  BY <1>4, <1>6
<1>16. QED
  BY <1>4, <1>6, <1>8, <1>11, <1>13, <1>14, <1>15 DEF Taken, all, more, msg, rest

\* The i-th message is the last that leaves, and msg is decoded to it.
DecodedAs(m, e, msg, i) ==
  /\ i = Len(sent) - Firsts(Without(m + e - 2))
  /\ Accepts(msg, sent[i].content) /\ msg # <<>> /\ bound

LEMMA OwnMessage ==
  ASSUME FeedbackInv, NEW k, NEW m \in 1 .. Len(rx \o line), NEW e \in Nat, NEW msg, NEW rest,
         Taken(k, m, e, msg, rest), NEW i \in 1 .. Len(sent), sent[i].owed,
         NEW c, c = sent[i].content, Placed(rx \o line, m + 1, c),
         Behind(rx \o line, m + 1) = Len(sent) - i, e - 2 = Len(Encoding(c).bytes)
  PROVE  DecodedAs(m, e, msg, i)
<1> DEFINE all  == rx \o line
           body == Encoding(c).bytes
           L    == Len(body)
           w    == Without(m)
           d    == m + e - 2
<1>1. all \in Seq(WireByte) /\ Carried /\ OwedCome
  BY DEF FeedbackInv, Carried
<1>2. c \in Containers
  BY <1>1, ContentIs
<1>3. AsSent(all, m + 1, c)
  <2>1. Placed(all, m + 1, c)
    OBVIOUS
  <2> HIDE DEF all
  <2>2. QED
    BY <1>1, <1>2, <2>1, PlacedIs
<1>4. body \in Seq(Byte) /\ Encoding(c).decoded = c
  BY <1>2, EncodingIs
<1>5. bound /\ Decodable(c)
  BY <1>1 DEF OwedCome
<1>6. /\ msg \in Seq(WireByte) /\ Len(msg) = e - 2
      /\ \A j \in 1 .. e - 2 : msg[j] = all[m + j]
      /\ w = msg \o Without(d) /\ Firsts(w) = Firsts(msg) + Firsts(Without(d))
      /\ d \in 0 .. Len(all)
  BY DEF Taken
<1>7. e - 2 = L /\ Behind(all, m + 1) = Len(sent) - i
  OBVIOUS
<1> HIDE DEF all, body, L, w, d
<1>8. /\ L \in 2 .. 3 /\ m + 1 \in 2 .. Len(all)
      /\ all[m + 1].mark = "first"
      /\ \A j \in m + 1 + 1 .. m + 1 + L - 1 : all[j].mark = "later"
      /\ \A j \in m + 1 .. m + 1 + L - 1 : all[j].v = body[j - (m + 1) + 1]
  BY <1>3 DEF AsSent, L, body
<1>9. m \in Nat /\ Len(all) \in Nat /\ m \in 0 .. Len(all) /\ m <= Len(all) - 1
  <2>1. m \in 1 .. Len(all) /\ Len(all) \in Nat
    BY <1>1 DEF all
  <2>2. \A a \in Nat : \A n \in 1 .. a : n + 1 \in 2 .. a => n \in Nat /\ n \in 0 .. a /\ n <= a - 1
    OBVIOUS
  <2>3. QED
    BY <1>8, <2>1, <2>2
<1>10. Len(msg) = L /\ L \in Nat /\ 1 \in 1 .. L
  BY <1>6, <1>7, <1>8
<1>11. ASSUME NEW j \in 1 .. L
       PROVE  msg[j].v = body[j] /\ (msg[j].mark = IF j = 1 THEN "first" ELSE "later")
  <2>1. \A n \in Nat : \A a \in 2 .. 3 : \A h \in 1 .. a :
          /\ n + h \in n + 1 .. n + 1 + a - 1 /\ (n + h) - (n + 1) + 1 = h
          /\ h = 1 \/ n + h \in n + 1 + 1 .. n + 1 + a - 1
    OBVIOUS
  <2>2. /\ m + j \in m + 1 .. m + 1 + L - 1 /\ (m + j) - (m + 1) + 1 = j
        /\ j = 1 \/ m + j \in m + 1 + 1 .. m + 1 + L - 1
    BY <1>8, <1>9, <2>1
  <2>3. msg[j] = all[m + j]
    BY <1>6, <1>7
  <2>4. all[m + j].v = body[j]
    BY <1>8, <2>2
  <2>5. all[m + j].mark = IF j = 1 THEN "first" ELSE "later"
    BY <1>8, <2>2
  <2>6. QED
    BY <2>3, <2>4, <2>5
<1>12. Accepts(msg, c)
  <2>1. \A j \in 1 .. Len(msg) : msg[j].mark # "none"
    BY <1>10, <1>11
  <2>2. Values(msg) = body
    <3>1. Values(msg) = [j \in 1 .. L |-> msg[j].v]
      BY <1>10 DEF Values
    <3>2. [j \in 1 .. L |-> msg[j].v] = [j \in 1 .. L |-> body[j]]
      BY <1>11
    <3>3. body = [j \in 1 .. L |-> body[j]]
      <4>1. body \in [1 .. L -> Byte]
        BY <1>4, LenProperties DEF L
      <4>2. QED
        BY Zenon, <4>1
    <3>4. QED
      BY <3>1, <3>2, <3>3
  <2>3. QED
    BY <1>4, <1>5, <2>1, <2>2 DEF Accepts, body
<1>13. Firsts(msg) = 1
  <2>1. 1 \in 1 .. Len(msg) /\ \A j \in 1 .. Len(msg) : msg[j].mark = "first" <=> j = 1
    BY <1>10, <1>11
  <2>2. QED
    BY <2>1, OneFirst
<1>14. /\ w \in Seq(WireByte) /\ Len(w) = Len(all) - m
       /\ \A j \in 1 .. Len(all) - m : w[j] = all[j + m]
  <2>1. w = SubSeq(all, m + 1, Len(all))
    BY DEF w, Without, all
  <2>2. QED
    BY <1>1, <1>9, <2>1, Parts
<1>15. /\ 1 \in 0 .. Len(w) /\ 1 \in 1 .. Len(all) - m /\ 1 + m = m + 1
       /\ 1 \in 0 .. Len(all) - m
  BY <1>9, <1>14
<1>16. Firsts(w) = 1 + Firsts(SubSeq(w, 1 + 1, Len(w)))
  <2>1. /\ Len(SubSeq(w, 1, 1)) = 1 /\ \A j \in 1 .. 1 : SubSeq(w, 1, 1)[j] = w[j]
        /\ Firsts(w) = Firsts(SubSeq(w, 1, 1)) + Firsts(SubSeq(w, 1 + 1, Len(w)))
    BY <1>14, <1>15, Parts
  <2>2. w[1].mark = "first"
    BY <1>8, <1>14, <1>15
  <2>3. 1 \in 1 .. Len(SubSeq(w, 1, 1))
        /\ \A j \in 1 .. Len(SubSeq(w, 1, 1)) : SubSeq(w, 1, 1)[j].mark = "first" <=> j = 1
    BY <2>1, <2>2
  <2>4. Firsts(SubSeq(w, 1, 1)) = 1
    BY <2>3, OneFirst
  <2>5. QED
    BY <2>1, <2>4
<1>17. Firsts(SubSeq(w, 1 + 1, Len(w))) = Len(sent) - i
  <2>1. w = SubSeq(all, m + 1, Len(all))
    BY DEF w, Without, all
  <2>2. SubSeq(w, 1 + 1, Len(w)) = SubSeq(all, m + 1 + 1, Len(all))
    BY <1>1, <1>9, <1>15, <2>1, EndOfEnd
  <2>3. QED
    BY <1>7, <2>2 DEF Behind
<1>18. Firsts(Without(d)) \in Nat /\ Len(sent) \in Nat /\ i \in Nat
  <2>1. Without(d) \in Seq(WireByte)
    BY <1>1, <1>6, Parts DEF Without, all
  <2>2. sent \in Seq([content : Containers, owed : BOOLEAN])
    BY <1>1 DEF Carried
  <2>3. Len(sent) \in Nat /\ i \in Nat
    BY <2>2
  <2>4. QED
    BY <2>1, <2>3, FirstsType
<1>19. i = Len(sent) - Firsts(Without(d))
  <2>1. \A a, b, n \in Nat : 1 + (n - a) = 1 + b => a = n - b
    OBVIOUS
  <2>2. 1 + (Len(sent) - i) = 1 + Firsts(Without(d))
    BY <1>6, <1>13, <1>16, <1>17
  <2>3. QED
    BY <1>18, <2>1, <2>2
<1>20. msg # <<>>
  BY <1>10
<1>21. QED
  BY <1>5, <1>12, <1>19, <1>20 DEF DecodedAs, d

\* A message that is owed and in front of the end is the one that is taken.
OwedIsTaken(m, e, msg) ==
  \A i \in 1 .. Len(sent), p \in 2 .. Len(rx \o line) :
    sent[i].owed /\ Placed(rx \o line, p, sent[i].content)
                 /\ Behind(rx \o line, p) = Len(sent) - i
      => m + e - 2 <= p - 2 \/ DecodedAs(m, e, msg, i)

LEMMA EndGoes ==
  ASSUME FeedbackInv, NEW k \in Reads, NEW got, got = rx \o SubSeq(line, 1, k),
         NEW m, StartsAt(got, m), NEW from, from = SubSeq(got, m, Len(got)),
         NEW e, e = End(from), e # 0, NEW msg, msg = SubSeq(from, 2, e - 1)
  PROVE  Taken(k, m, e, msg, Rest(from)) /\ OwedIsTaken(m, e, msg)
<1> DEFINE more == SubSeq(line, k + 1, Len(line))
           all  == rx \o line
<1>1. Carried
  BY DEF FeedbackInv
<1>2. /\ got \in Seq(WireByte) /\ Len(got) <= BS
      /\ more \in Seq(WireByte) /\ all = got \o more
  BY <1>1, ReadMoves
<1>3. Cut(k, got, m, from)
  BY FromIs
<1>4. from \in Seq(WireByte) /\ m \in 1 .. Len(got)
  BY <1>3 DEF Cut
<1>5. e \in 2 .. Len(from)
  BY <1>4, EndIs
<1>6. Rest(from) = SubSeq(from, e, Len(from))
  BY DEF Rest
<1>7. Taken(k, m, e, msg, Rest(from))
  <2>1. Taken(k, m, e, SubSeq(from, 2, e - 1), SubSeq(from, e, Len(from)))
    BY <1>2, <1>3, <1>5, EndCuts
  <2>2. QED
    BY <1>6, <2>1
<1> HIDE DEF more, all
<1>8. m \in 1 .. Len(all) /\ e \in Nat
  <2>1. \A a, b \in Seq(WireByte) : 1 .. Len(a) \subseteq 1 .. Len(a \o b)
    OBVIOUS
  <2>2. 1 .. Len(got) \subseteq 1 .. Len(all)
    BY <1>2, <2>1
  <2>3. e \in Nat
    <3>1. \A l \in Nat : \A n \in 2 .. l : n \in Nat
      OBVIOUS
    <3>2. Len(from) \in Nat
      BY Zenon, <1>4, LengthIsNat
    <3>3. QED
      BY Zenon, <1>5, <3>1, <3>2
  <2>4. QED
    BY <1>4, <2>2, <2>3
<1>9. ASSUME NEW i \in 1 .. Len(sent), NEW p \in 2 .. Len(all), sent[i].owed,
             Placed(all, p, sent[i].content), Behind(all, p) = Len(sent) - i
      PROVE  m + e - 2 <= p - 2 \/ DecodedAs(m, e, msg, i)
  <2> DEFINE c == sent[i].content
             L == Len(Encoding(c).bytes)
  <2>1. c \in Containers
    BY <1>1, ContentIs
  <2>2. Placed(got \o more, p, c)
    BY <1>2, <1>9
  <2> HIDE DEF c
  <2>3. m + e - 2 <= p - 2 \/ (p = m + 1 /\ m + e - 2 = p + L - 1)
    <3>1. EndsWith(m, End(from), p, c)
      BY <1>2, <2>1, <2>2, EndFound
    <3>2. QED
      BY Zenon, <3>1 DEF EndsWith, L
  <2>4. CASE p = m + 1 /\ m + e - 2 = p + L - 1
    <3>1. e - 2 = L
      <4>1. m \in Nat /\ e \in Nat /\ L \in Nat
        <5>1. L \in 2 .. 3
          BY <2>1, EncodingIs
        <5>2. m \in Nat
          BY <1>8
        <5>3. \A l \in 2 .. 3 : l \in Nat
          OBVIOUS
        <5>4. QED
          BY Zenon, <1>8, <5>1, <5>2, <5>3
      <4>2. \A n, a, b \in Nat : n + a - 2 = n + 1 + b - 1 => a - 2 = b
        OBVIOUS
      <4>3. QED
        BY <2>4, <4>1, <4>2
    <3>2. Placed(all, m + 1, c) /\ Behind(all, m + 1) = Len(sent) - i
      BY <1>2, <1>9, <2>2, <2>4
    <3>3. QED
      <4>1. c = sent[i].content
        BY DEF c
      <4>2. QED
        BY <1>7, <1>8, <1>9, <3>1, <3>2, <4>1, OwnMessage DEF L, all
  <2>5. QED
    BY <2>3, <2>4
<1>10. QED
  BY <1>7, <1>9 DEF OwedIsTaken, all

-----------------------------------------------------------------------------
LEMMA HandsOverKeeps ==
  ASSUME FeedbackInv, NEW k \in Reads, NEW got, got = rx \o SubSeq(line, 1, k),
         NEW m, StartsAt(got, m), NEW from, from = SubSeq(got, m, Len(got)),
         HandsOver(k, from, Message(got, from))
  PROVE  FeedbackInv'
<1> DEFINE more == SubSeq(line, k + 1, Len(line))
           all  == rx \o line
           msg  == Message(got, from)
           rest == Rest(from)
           last == Len(sent) - Firsts(more \o rest)
<1>1. Carried
  BY DEF FeedbackInv
<1>2. /\ got \in Seq(WireByte) /\ Len(got) <= BS
      /\ more \in Seq(WireByte) /\ all = got \o more
  BY <1>1, ReadMoves
<1>3. bound /\ msg # <<>>
  BY DEF HandsOver
<1>4. PICK accepted \in BOOLEAN :
        /\ accepted <=> (last > 0 /\ Accepts(msg, sent[last].content))
        /\ Leaves(k, rest, <<>>, accepted)
  BY DEF HandsOver
<1>5. CASE End(from) = 0
  <2>1. msg = Kept(got) /\ rest = from
    BY <1>5 DEF Message, Rest
  <2>2. Len(got) < BS
    BY <1>1, <1>2, <1>3, <2>1, KeptIs
  <2>3. Goes(k, from, <<>>, accepted, m - 1)
    BY <1>5, <2>2, NoEndGoes
  <2>4. Leaves(k, from, <<>>, accepted)
    BY <1>4, <2>1
  <2>5. QED
    BY <2>3, <2>4, LeavesKeeps
<1>6. CASE End(from) # 0
  <2> DEFINE e == End(from)
             d == m + e - 2
  <2>1. msg = SubSeq(from, 2, e - 1)
    BY <1>6 DEF Message
  <2>2. Taken(k, m, e, msg, rest) /\ OwedIsTaken(m, e, msg)
    <3> HIDE DEF msg
    <3>1. QED
      BY <1>6, <2>1, EndGoes
  <2> HIDE DEF more, all, msg, rest, last, e, d
  <2>3. /\ d \in 0 .. Len(all) /\ rest \in Seq(WireByte) /\ Len(rest) < BS
        /\ rest \o more = Without(d)
        /\ Firsts(Without(m)) = Firsts(msg) + Firsts(Without(d))
    BY <2>2 DEF Taken, all, more, d
  <2>4. last = Len(sent) - Firsts(Without(d))
    <3>1. Firsts(more \o rest) = Firsts(more) + Firsts(rest)
      BY <1>2, <2>3, FirstsAdd
    <3>2. Firsts(Without(d)) = Firsts(rest) + Firsts(more)
      BY <1>2, <2>3, FirstsAdd
    <3>3. Firsts(more) \in Nat /\ Firsts(rest) \in Nat
      BY <1>2, <2>3, FirstsType
    <3>4. QED
      BY <3>1, <3>2, <3>3 DEF last
  <2>5. <<>> \in Seq(WireByte) /\ Len(<<>>) < BS
    BY FeedbackAssumption
  <2>6. Firsts(<<>>) + Firsts(Without(d)) <= Len(sent)
    <3>1. Firsts(<<>>) = 0
      <4>1. \A i \in 1 .. Len(<<>>) : <<>>[i].mark # "first"
        OBVIOUS
      <4>2. QED
        BY <4>1, NoFirsts
    <3>2. /\ Firsts(Without(d)) \in Nat /\ Firsts(message) \in Nat
          /\ Firsts(message) + Firsts(Without(d)) <= Len(sent)
      BY <2>3, FewerFirsts DEF all
    <3>3. Len(sent) \in Nat
      BY <1>1 DEF Carried
    <3>4. \A a, b, n \in Nat : a + b <= n => 0 + b <= n
      OBVIOUS
    <3>5. QED
      BY <3>1, <3>2, <3>3, <3>4
  <2>7. ASSUME NEW i \in 1 .. Len(sent), NEW p \in 2 .. Len(all), sent[i].owed,
               Placed(all, p, sent[i].content), Behind(all, p) = Len(sent) - i
        PROVE  d <= p - 2 \/ (accepted /\ i = Len(sent) - Firsts(Without(d)))
    <3>1. i > 0
      OBVIOUS
    <3>2. \/ d <= p - 2
          \/ i = last /\ Accepts(msg, sent[i].content)
      BY <2>2, <2>4, <2>7 DEF OwedIsTaken, DecodedAs, all, d
    <3>3. QED
      BY <1>4, <2>4, <3>1, <3>2
  <2>8. Goes(k, rest, <<>>, accepted, d)
    BY <2>3, <2>5, <2>6, <2>7 DEF Goes, all, more
  <2>9. QED
    BY <1>4, <2>8, LeavesKeeps
<1>7. QED
  BY <1>5, <1>6

LEMMA WaitsKeeps ==
  ASSUME FeedbackInv, NEW k \in Reads, NEW got, got = rx \o SubSeq(line, 1, k),
         NEW m, StartsAt(got, m), NEW from, from = SubSeq(got, m, Len(got)),
         Waits(k, from, Message(got, from))
  PROVE  FeedbackInv'
<1> DEFINE more == SubSeq(line, k + 1, Len(line))
           all  == rx \o line
           msg  == Message(got, from)
           rest == Rest(from)
<1>1. Carried
  BY DEF FeedbackInv
<1>2. /\ got \in Seq(WireByte) /\ Len(got) <= BS
      /\ more \in Seq(WireByte) /\ all = got \o more
  BY <1>1, ReadMoves
<1>3. ~bound \/ msg = <<>>
  BY DEF Waits
<1>4. Leaves(k, Trash(rest), msg, FALSE)
  BY DEF Waits
<1>5. CASE End(from) = 0
  <2>1. msg = Kept(got) /\ rest = from
    BY <1>5 DEF Message, Rest
  <2>2. /\ Len(from) <= BS
        /\ Len(from) < BS => Goes(k, from, Kept(got), FALSE, m - 1)
        /\ Len(from) = BS => Goes(k, <<>>, Kept(got), FALSE, Len(got))
    <3>1. FALSE \in BOOLEAN
      OBVIOUS
    <3>2. QED
      BY <1>5, <3>1, NoEndGoes
  <2>3. Leaves(k, Trash(from), Kept(got), FALSE)
    BY <1>4, <2>1
  <2>4. CASE Len(from) = BS
    <3>1. Trash(from) = <<>>
      BY <2>4 DEF Trash
    <3>2. Leaves(k, <<>>, Kept(got), FALSE)
      BY <2>3, <3>1
    <3>3. QED
      BY <2>2, <2>4, <3>2, LeavesKeeps
  <2>5. CASE Len(from) # BS
    <3>1. Trash(from) = from
      BY <2>5 DEF Trash
    <3>2. Leaves(k, from, Kept(got), FALSE)
      BY <2>3, <3>1
    <3>3. Len(from) < BS
      <4>1. Cut(k, got, m, from)
        BY FromIs
      <4>2. Len(from) \in Nat
        BY <4>1, LengthIsNat DEF Cut
      <4>3. \A n \in Nat : n <= BS /\ n # BS => n < BS
        BY FeedbackAssumption
      <4>4. QED
        BY <2>2, <2>5, <4>2, <4>3
    <3>4. QED
      BY <2>2, <3>2, <3>3, LeavesKeeps
  <2>6. QED
    BY <2>4, <2>5
<1>6. CASE End(from) # 0
  <2> DEFINE e == End(from)
             d == m + e - 2
  <2>1. msg = SubSeq(from, 2, e - 1)
    BY <1>6 DEF Message
  <2>2. Taken(k, m, e, msg, rest) /\ OwedIsTaken(m, e, msg)
    <3> HIDE DEF msg
    <3>1. QED
      BY <1>6, <2>1, EndGoes
  <2>3. m \in 0 .. Len(all)
    <3>1. m \in 1 .. Len(got)
      BY DEF StartsAt
    <3>2. \A a, b \in Seq(WireByte) : 1 .. Len(a) \subseteq 0 .. Len(a \o b)
      OBVIOUS
    <3> HIDE DEF all, more
    <3>3. 1 .. Len(got) \subseteq 0 .. Len(all)
      BY <1>2, <3>2
    <3>4. QED
      BY <3>1, <3>3
  <2> HIDE DEF more, all, msg, rest, e, d
  <2>4. /\ d \in 0 .. Len(all) /\ rest \in Seq(WireByte) /\ Len(rest) < BS
        /\ msg \in Seq(WireByte) /\ Len(msg) < BS
        /\ rest \o more = Without(d)
        /\ Firsts(Without(m)) = Firsts(msg) + Firsts(Without(d))
    BY <2>2 DEF Taken, all, more, d
  <2>5. Firsts(msg) + Firsts(Without(d)) <= Len(sent)
    <3>1. /\ Firsts(Without(m)) \in Nat /\ Firsts(message) \in Nat
          /\ Firsts(message) + Firsts(Without(m)) <= Len(sent)
      BY <2>3, FewerFirsts DEF all
    <3>2. Len(sent) \in Nat
      BY <1>1 DEF Carried
    <3>3. \A a, b, n \in Nat : a + b <= n => b <= n
      OBVIOUS
    <3>4. QED
      BY <2>4, <3>1, <3>2, <3>3
  <2>6. ASSUME NEW i \in 1 .. Len(sent), NEW p \in 2 .. Len(all), sent[i].owed,
               Placed(all, p, sent[i].content), Behind(all, p) = Len(sent) - i
        PROVE  d <= p - 2
    <3>1. d <= p - 2 \/ DecodedAs(m, e, msg, i)
      BY <2>2, <2>6 DEF OwedIsTaken, all, d
    <3>2. QED
      BY <1>3, <3>1 DEF DecodedAs
  <2>7. Goes(k, rest, msg, FALSE, d)
    BY <2>4, <2>5, <2>6 DEF Goes, all, more
  <2>8. Trash(rest) = rest
    <3>1. Len(rest) \in Nat /\ BS \in Nat
      BY <2>4, LengthIsNat, FeedbackAssumption
    <3>2. Len(rest) # BS
      BY <2>4, <3>1
    <3>3. QED
      BY <3>2 DEF Trash
  <2>9. Leaves(k, rest, msg, FALSE)
    BY <1>4, <2>8 DEF msg, rest
  <2>10. QED
    BY <2>7, <2>9, LeavesKeeps
<1>7. QED
  BY <1>5, <1>6

LEMMA IterationKeeps ==
  ASSUME FeedbackInv, NEW k \in Reads, Iteration(k)
  PROVE  FeedbackInv'
<1> DEFINE got  == rx \o SubSeq(line, 1, k)
           from == FromStart(got)
<1>1. \/ NothingYet(k, got) \/ NoStart(k, got, from) \/ FindsMessage(k, got, from)
  BY DEF Iteration
<1>2. Carried
  BY DEF FeedbackInv
<1>3. got = rx \o SubSeq(line, 1, k) /\ from = FromStart(got)
  OBVIOUS
<1> HIDE DEF got, from
<1>4. got \in Seq(WireByte)
  BY <1>2, <1>3, ReadMoves
<1>5. CASE NothingYet(k, got)
  BY <1>3, <1>5, NothingYetKeeps
<1>6. CASE NoStart(k, got, from)
  BY <1>3, <1>6, NoStartKeeps
<1>7. CASE FindsMessage(k, got, from)
  <2>1. Len(got) > 1 /\ from[1].v = Delimiter
    BY <1>7 DEF FindsMessage
  <2>2. PICK m : StartsAt(got, m) /\ from = SubSeq(got, m, Len(got))
    BY <1>3, <1>4, <2>1, StartFound
  <2>3. HandsOver(k, from, Message(got, from)) \/ Waits(k, from, Message(got, from))
    BY <1>7 DEF FindsMessage
  <2>4. QED
    BY <1>3, <2>2, <2>3, HandsOverKeeps, WaitsKeeps
<1>8. QED
  BY <1>1, <1>5, <1>6, <1>7

-----------------------------------------------------------------------------
(***************************************************************************)
(* What the flight controller sends                                        *)
(***************************************************************************)
LEMMA PlacedBehind ==
  ASSUME NEW bytes \in Seq(WireByte), NEW more \in Seq(WireByte),
         NEW p, NEW c \in Containers, Placed(more, p, c)
  PROVE  /\ Placed(bytes \o more, Len(bytes) + p, c)
         /\ Behind(bytes \o more, Len(bytes) + p) = Behind(more, p)
         /\ Len(bytes) + p \in 2 .. Len(bytes \o more)
<1> DEFINE L   == Len(Encoding(c).bytes)
           n   == Len(bytes)
           all == bytes \o more
<1>1. L \in 2 .. 3 /\ p \in 2 .. Len(more) - L /\ p \in 2 .. Len(more)
  <2>1. AsSent(more, p, c)
    BY PlacedIs
  <2>2. QED
    BY <2>1 DEF AsSent
<1>2. \A j \in 1 .. L + 2 : more[p - 2 + j] = OnLine(Frame(c))[j]
  BY DEF Placed
<1>3. /\ all \in Seq(WireByte) /\ Len(all) = n + Len(more)
      /\ \A i \in 1 .. Len(more) : all[n + i] = more[i]
      /\ n \in Nat /\ Len(more) \in Nat
  OBVIOUS
<1>4. SubSeq(all, n + 1, Len(all)) = more
  BY RestOfLine
<1> HIDE DEF L, n, all
<1>5. /\ n + p \in 2 .. Len(all) - L /\ n + p \in 2 .. Len(all)
      /\ n \in 0 .. Len(all) /\ p \in 0 .. Len(all) - n
      /\ \A j \in 1 .. L + 2 : /\ p - 2 + j \in 1 .. Len(more)
                               /\ (n + p) - 2 + j = n + (p - 2 + j)
  <2>1. \A i, l \in Nat : \A a \in 2 .. 3 : \A q \in 2 .. l - a :
          /\ i + q \in 2 .. (i + l) - a /\ i + q \in 2 .. i + l
          /\ i \in 0 .. i + l /\ q \in 0 .. (i + l) - i
          /\ \A j \in 1 .. a + 2 : q - 2 + j \in 1 .. l /\ (i + q) - 2 + j = i + (q - 2 + j)
    OBVIOUS
  <2>2. n \in Nat /\ Len(more) \in Nat /\ Len(all) = n + Len(more)
    BY <1>3
  <2>3. QED
    BY <1>1, <2>1, <2>2
<1>6. Placed(all, n + p, c)
  <2>1. \A j \in 1 .. L + 2 : all[(n + p) - 2 + j] = OnLine(Frame(c))[j]
    BY <1>2, <1>3, <1>5
  <2>2. QED
    BY <1>5, <2>1 DEF Placed, L
<1>7. Behind(all, n + p) = Behind(more, p)
  <2>1. more = SubSeq(all, n + 1, Len(all))
    BY <1>4
  <2>2. SubSeq(more, p + 1, Len(more)) = SubSeq(all, n + p + 1, Len(all))
    BY <1>3, <1>5, <2>1, EndOfEnd
  <2>3. QED
    BY <2>2 DEF Behind
<1>8. QED
  BY <1>5, <1>6, <1>7 DEF all, n

\* The containers that are sent with the bytes arriving, in their order.
Announced(arriving, isSent) ==
  /\ isSent \in Seq([content : Containers, owed : BOOLEAN])
  /\ Firsts(arriving) = Len(isSent)
  /\ \A j \in 1 .. Len(isSent) : isSent[j].owed =>
       bound /\ Decodable(isSent[j].content) /\ Comes(isSent, arriving, j)

LEMMA SendsKeeps ==
  ASSUME FeedbackInv, NEW c \in Containers, NEW arriving \in Seq(WireByte),
         Len(arriving) <= Len(Frame(c)), NEW isSent, Announced(arriving, isSent),
         Sends(c, arriving, isSent)
  PROVE  FeedbackInv'
<1> DEFINE S   == [content : Containers, owed : BOOLEAN]
           all == rx \o line
           n   == Len(sent)
           l   == Len(isSent)
<1>1. Carried /\ Counted /\ NoneSkipped /\ OwedCome
  BY DEF FeedbackInv
<1>2. /\ Len(line) + Len(Frame(c)) <= MaxUnread
      /\ line' = line \o arriving /\ sent' = sent \o isSent
      /\ UNCHANGED <<clock, rx, message, bound, started, skipped>>
  BY DEF Sends, readerVars
<1>3. /\ line \in Seq(WireByte) /\ rx \in Seq(WireByte) /\ message \in Seq(WireByte)
      /\ sent \in Seq(S)
  BY <1>1 DEF Carried
<1>4. /\ isSent \in Seq(S) /\ Firsts(arriving) = l
      /\ \A j \in 1 .. l : isSent[j].owed =>
           bound /\ Decodable(isSent[j].content) /\ Comes(isSent, arriving, j)
  BY DEF Announced
<1>5. line \o arriving \in Seq(WireByte) /\ Len(line \o arriving) <= MaxUnread
  <2>1. /\ line \o arriving \in Seq(WireByte)
        /\ Len(line \o arriving) = Len(line) + Len(arriving)
    BY <1>3, ConcatProperties
  <2>2. Len(line) \in Nat /\ Len(arriving) \in Nat /\ Len(Frame(c)) \in Nat
    <3>1. Frame(c) \in Seq(Byte)
      BY FrameIs
    <3>2. QED
      BY <1>3, <3>1
  <2>3. \A a, b, d \in Nat : b <= d /\ a + d <= MaxUnread => a + b <= MaxUnread
    BY FeedbackAssumption
  <2>4. QED
    BY <1>2, <2>1, <2>2, <2>3
<1> HIDE DEF S
<1>6. /\ sent' \in Seq(S) /\ Len(sent') = n + l /\ n \in Nat /\ l \in Nat
      /\ \A i \in 1 .. n : sent'[i] = sent[i]
      /\ \A i \in n + 1 .. n + l : sent'[i] = isSent[i - n]
  <2>1. \A a, b \in Seq(S) :
          /\ a \o b \in Seq(S) /\ Len(a \o b) = Len(a) + Len(b) /\ Len(a) \in Nat
          /\ \A i \in 1 .. Len(a) : (a \o b)[i] = a[i]
          /\ \A i \in Len(a) + 1 .. Len(a) + Len(b) : (a \o b)[i] = b[i - Len(a)]
    OBVIOUS
  <2>2. QED
    BY <1>2, <1>3, <1>4, <2>1
<1>7. Carried'
  BY <1>1, <1>2, <1>5, <1>6 DEF Carried, S
<1>8. all \in Seq(WireByte)
  BY <1>3
<1>9. (rx \o line)' = all \o arriving
  <2>1. rx \o (line \o arriving) = (rx \o line) \o arriving
    BY <1>3, Joined
  <2>2. QED
    BY <1>2, <2>1
<1> HIDE DEF all, n, l
<1>10. Counted'
  <2>1. Firsts(all \o arriving) = Firsts(all) + Firsts(arriving)
    BY <1>8, FirstsAdd
  <2>2. n = Firsts(message) + Firsts(all)
    BY <1>1 DEF Counted, all, n
  <2>3. Firsts(message) \in Nat /\ Firsts(all) \in Nat
    BY <1>3, <1>8, FirstsType
  <2>4. n + l = Firsts(message) + Firsts(all \o arriving)
    <3>1. \A a, b, d \in Nat : (a + b) + d = a + (b + d)
      OBVIOUS
    <3>2. QED
      BY <1>4, <1>6, <2>1, <2>2, <2>3, <3>1
  <2>5. Firsts((rx \o line)') = Firsts(all \o arriving) /\ Firsts(message') = Firsts(message)
    BY <1>2, <1>9
  <2>6. QED
    BY <1>6, <2>4, <2>5 DEF Counted
<1>11. NoneSkipped'
  BY <1>1, <1>2 DEF NoneSkipped
<1>12. ASSUME NEW i \in 1 .. n, sent[i].owed
       PROVE  bound /\ Decodable(sent[i].content) /\ Comes(sent', all \o arriving, i)
  <2> DEFINE d == sent[i].content
  <2>1. bound /\ Decodable(d) /\ Comes(sent, all, i)
    BY <1>1, <1>12 DEF OwedCome, all, n
  <2>2. d \in Containers
    BY <1>1, ContentIs DEF n
  <2>3. PICK p \in 2 .. Len(all) : Placed(all, p, d) /\ Behind(all, p) = n - i
    BY <2>1 DEF Comes, n
  <2> HIDE DEF d
  <2>4. /\ Placed(all \o arriving, p, d)
        /\ Behind(all \o arriving, p) = Behind(all, p) + Firsts(arriving)
    BY <1>8, <2>2, <2>3, PlacedWithMore
  <2>5. p \in 2 .. Len(all \o arriving)
    <3>1. \A a, b \in Seq(WireByte) : 2 .. Len(a) \subseteq 2 .. Len(a \o b)
      OBVIOUS
    <3>2. 2 .. Len(all) \subseteq 2 .. Len(all \o arriving)
      BY <1>8, <3>1
    <3>3. QED
      BY <3>2
  <2>6. Behind(all \o arriving, p) = Len(sent') - i
    <3>1. \A a, b \in Nat : \A j \in 1 .. a : (a - j) + b = (a + b) - j
      OBVIOUS
    <3>2. QED
      BY <1>4, <1>6, <2>3, <2>4, <3>1
  <2>7. sent'[i].content = d
    BY <1>6 DEF d
  <2>8. QED
    BY <2>1, <2>4, <2>5, <2>6, <2>7 DEF Comes, d
<1>13. ASSUME NEW j \in 1 .. l, isSent[j].owed
       PROVE  /\ bound /\ Decodable(isSent[j].content)
              /\ Comes(sent', all \o arriving, n + j)
  <2> DEFINE d == isSent[j].content
  <2>1. bound /\ Decodable(d) /\ Comes(isSent, arriving, j)
    BY <1>4, <1>13
  <2>2. d \in Containers
    <3>1. \A r \in S : r.content \in Containers
      BY DEF S
    <3>2. isSent[j] \in S
      BY <1>4 DEF l
    <3>3. QED
      BY <3>1, <3>2
  <2>3. PICK p \in 2 .. Len(arriving) : Placed(arriving, p, d) /\ Behind(arriving, p) = l - j
    BY <2>1 DEF Comes, l
  <2> HIDE DEF d
  <2>4. /\ Placed(all \o arriving, Len(all) + p, d)
        /\ Behind(all \o arriving, Len(all) + p) = Behind(arriving, p)
        /\ Len(all) + p \in 2 .. Len(all \o arriving)
    BY <1>8, <2>2, <2>3, PlacedBehind
  <2>5. n + j \in n + 1 .. n + l /\ (n + j) - n = j /\ l - j = (n + l) - (n + j)
    <3>1. \A a, b \in Nat : \A i \in 1 .. b :
            a + i \in a + 1 .. a + b /\ (a + i) - a = i /\ b - i = (a + b) - (a + i)
      OBVIOUS
    <3>2. QED
      BY <1>6, <3>1
  <2>6. sent'[n + j].content = d
    BY <1>6, <2>5 DEF d
  <2>7. Behind(all \o arriving, Len(all) + p) = Len(sent') - (n + j)
    BY <1>6, <2>3, <2>4, <2>5
  <2>8. QED
    BY <2>1, <2>4, <2>6, <2>7 DEF Comes, d
<1>14. OwedCome'
  <2>1. SUFFICES ASSUME NEW i \in 1 .. Len(sent'), sent'[i].owed
                 PROVE  /\ bound' /\ Decodable(sent'[i].content)
                        /\ Comes(sent', (rx \o line)', i)
    BY DEF OwedCome
  <2>2. i \in 1 .. n \/ (i \in n + 1 .. n + l /\ i - n \in 1 .. l /\ n + (i - n) = i)
    <3>1. \A a, b \in Nat : \A j \in 1 .. a + b :
            j \in 1 .. a \/ (j \in a + 1 .. a + b /\ j - a \in 1 .. b /\ a + (j - a) = j)
      OBVIOUS
    <3>2. QED
      BY <1>6, <3>1
  <2>3. CASE i \in 1 .. n
    BY <1>2, <1>6, <1>9, <1>12, <2>1, <2>3
  <2>4. CASE i \in n + 1 .. n + l /\ i - n \in 1 .. l /\ n + (i - n) = i
    BY <1>2, <1>6, <1>9, <1>13, <2>1, <2>4
  <2>5. QED
    BY <2>2, <2>3, <2>4
<1>15. QED
  BY <1>7, <1>10, <1>11, <1>14 DEF FeedbackInv

\* The line loses or changes a byte that begins no message.
LEMMA DamagedIs ==
  ASSUME NEW s \in Seq(WireByte), NEW i \in 1 .. Len(s), s[i].mark # "first",
         NEW arriving \in Damages(s, i)
  PROVE  /\ arriving \in Seq(WireByte) /\ Len(arriving) <= Len(s)
         /\ Firsts(arriving) = Firsts(s)
<1>1. i - 1 \in 0 .. Len(s) /\ (i - 1) + 1 = i /\ Len(s) \in Nat /\ 1 \in 0 .. Len(s) - (i - 1)
      /\ (i - 1) + 1 + 1 = i + 1
  OBVIOUS
<1>2. CASE arriving = RemoveAt(s, i)
  <2> DEFINE front == SubSeq(s, 1, i - 1)
             rest  == SubSeq(s, i, Len(s))
             rear  == SubSeq(s, i + 1, Len(s))
  <2>1. /\ front \in Seq(WireByte) /\ Len(front) = i - 1
        /\ rest \in Seq(WireByte) /\ Len(rest) = Len(s) - (i - 1)
        /\ \A j \in 1 .. Len(s) - (i - 1) : rest[j] = s[j + (i - 1)]
        /\ Firsts(s) = Firsts(front) + Firsts(rest)
    <3> DEFINE end == SubSeq(s, (i - 1) + 1, Len(s))
    <3>1. /\ front \in Seq(WireByte) /\ Len(front) = i - 1
          /\ end \in Seq(WireByte) /\ Len(end) = Len(s) - (i - 1)
          /\ \A j \in 1 .. Len(s) - (i - 1) : end[j] = s[j + (i - 1)]
          /\ Firsts(s) = Firsts(front) + Firsts(end)
      BY <1>1, Parts
    <3>2. end = rest
      BY <1>1
    <3> HIDE DEF end, rest, front
    <3>3. QED
      BY <3>1, <3>2
  <2>2. SubSeq(rest, 1 + 1, Len(rest)) = rear
    <3>1. rest = SubSeq(s, (i - 1) + 1, Len(s))
      BY <1>1
    <3>2. SubSeq(rest, 1 + 1, Len(rest)) = SubSeq(s, (i - 1) + 1 + 1, Len(s))
      BY <1>1, <3>1, EndOfEnd
    <3>3. QED
      BY <1>1, <3>2
  <2> HIDE DEF front, rest
  <2>3. 1 \in 0 .. Len(rest) /\ Len(rest) - 1 = Len(s) - i /\ 1 + (i - 1) = i
        /\ 1 \in 1 .. Len(s) - (i - 1)
    BY <1>1, <2>1
  <2>4. /\ Len(SubSeq(rest, 1, 1)) = 1 /\ \A j \in 1 .. 1 : SubSeq(rest, 1, 1)[j] = rest[j]
        /\ SubSeq(rest, 1 + 1, Len(rest)) \in Seq(WireByte)
        /\ Len(SubSeq(rest, 1 + 1, Len(rest))) = Len(rest) - 1
        /\ Firsts(rest) = Firsts(SubSeq(rest, 1, 1)) + Firsts(SubSeq(rest, 1 + 1, Len(rest)))
    BY <2>1, <2>3, Parts
  <2> HIDE DEF rear
  <2>5. rear \in Seq(WireByte) /\ Len(rear) = Len(s) - i
    BY <2>2, <2>3, <2>4
  <2>6. Firsts(rest) = Firsts(rear)
    <3>1. rest[1] = s[i]
      BY <2>1, <2>3
    <3>2. \A j \in 1 .. Len(SubSeq(rest, 1, 1)) : SubSeq(rest, 1, 1)[j].mark # "first"
      BY <2>4, <3>1
    <3>3. Firsts(SubSeq(rest, 1, 1)) = 0
      BY <3>2, NoFirsts
    <3>4. Firsts(rear) \in Nat
      BY <2>5, FirstsType
    <3>5. Firsts(rest) = 0 + Firsts(rear)
      BY Zenon, <2>2, <2>4, <3>3
    <3>6. \A n \in Nat : 0 + n = n
      OBVIOUS
    <3>7. QED
      BY <3>4, <3>5, <3>6
  <2>7. arriving = front \o rear
    BY <1>2 DEF RemoveAt, front, rear
  <2>8. arriving \in Seq(WireByte) /\ Len(arriving) = Len(front) + Len(rear)
    BY <2>1, <2>5, <2>7, ConcatProperties
  <2>9. Firsts(arriving) = Firsts(front) + Firsts(rear)
    BY <2>1, <2>5, <2>7, FirstsAdd
  <2>10. Len(arriving) <= Len(s)
    BY <1>1, <2>1, <2>5, <2>8
  <2>11. QED
    BY <2>1, <2>6, <2>8, <2>9, <2>10
<1>3. CASE \E b \in WireByte : b.mark # "first" /\ arriving = ReplaceAt(s, i, b)
  <2>1. PICK b \in WireByte : b.mark # "first" /\ arriving = [s EXCEPT ![i] = b]
    BY <1>3 DEF ReplaceAt
  <2>2. /\ arriving \in Seq(WireByte) /\ Len(arriving) = Len(s)
        /\ \A j \in 1 .. Len(s) : arriving[j] = IF j = i THEN b ELSE s[j]
    <3> HIDE DEF WireByte
    <3>1. QED
      BY <2>1
  <2>3. \A j \in 1 .. Len(s) : arriving[j].mark = "first" <=> s[j].mark = "first"
    BY <2>1, <2>2
  <2>4. {j \in 1 .. Len(arriving) : arriving[j].mark = "first"}
          = {j \in 1 .. Len(s) : s[j].mark = "first"}
    BY <2>2, <2>3
  <2>5. Firsts(arriving) = Firsts(s)
    BY <2>4 DEF Firsts
  <2>6. QED
    BY <1>1, <2>2, <2>5
<1>4. arriving = RemoveAt(s, i) \/ \E b \in WireByte : b.mark # "first" /\ arriving = ReplaceAt(s, i, b)
  <2>1. Noise \in WireByte /\ Noise.mark # "first"
    BY CobsAssumption DEF Noise, Raw, WireByte, Byte
  <2>2. Raw(Delimiter) \in WireByte /\ Raw(Delimiter).mark # "first"
    BY CobsAssumption DEF Raw, WireByte, Byte
  <2>3. \/ arriving = RemoveAt(s, i) \/ arriving = ReplaceAt(s, i, Noise)
        \/ arriving = ReplaceAt(s, i, Raw(Delimiter))
    BY DEF Damages
  <2>4. QED
    BY <2>1, <2>2, <2>3
<1>5. QED
  BY <1>2, <1>3, <1>4

\* A frame brings one message, ...
LEMMA FrameArrives ==
  ASSUME NEW c \in Containers
  PROVE  LET on == OnLine(Frame(c))
         IN /\ on \in Seq(WireByte) /\ Len(on) = Len(Frame(c)) /\ Firsts(on) = 1
            /\ 2 \in 2 .. Len(on) /\ Placed(on, 2, c) /\ Behind(on, 2) = 0
<1> DEFINE on   == OnLine(Frame(c))
           body == Encoding(c).bytes
           L    == Len(body)
<1>1. /\ on \in Seq(WireByte) /\ Len(on) = Len(Frame(c)) /\ Len(on) >= L + 2
      /\ on[1] = Raw(Delimiter)
      /\ on[2] = [v |-> body[1], mark |-> "first"]
      /\ \A j \in 3 .. L + 1 : on[j] = [v |-> body[j - 1], mark |-> "later"]
      /\ \A j \in L + 2 .. Len(on) : on[j] = Raw(Delimiter)
  BY OnLineIs
<1>2. L \in 2 .. 3
  BY EncodingIs
<1> HIDE DEF L, body
<1>3. /\ Len(on) \in Nat /\ 2 \in 2 .. Len(on) - L /\ 2 \in 2 .. Len(on) /\ 2 \in 0 .. Len(on)
      /\ 2 \in 1 .. Len(on)
      /\ \A j \in 1 .. Len(on) : j = 1 \/ j = 2 \/ j \in 3 .. L + 1 \/ j \in L + 2 .. Len(on)
      /\ \A j \in 1 .. L + 2 : 2 - 2 + j = j
      /\ \A j \in 1 .. Len(on) - 2 : j + 2 \in 1 .. Len(on) /\ j + 2 # 2
  <2>1. \A a \in 2 .. 3 : \A n \in Nat : n >= a + 2 =>
          /\ 2 \in 2 .. n - a /\ 2 \in 2 .. n /\ 2 \in 0 .. n /\ 2 \in 1 .. n
          /\ \A j \in 1 .. n : j = 1 \/ j = 2 \/ j \in 3 .. a + 1 \/ j \in a + 2 .. n
          /\ \A j \in 1 .. a + 2 : 2 - 2 + j = j
          /\ \A j \in 1 .. n - 2 : j + 2 \in 1 .. n /\ j + 2 # 2
    OBVIOUS
  <2>2. Len(on) \in Nat
    BY <1>1, LengthIsNat
  <2> HIDE DEF on
  <2>3. QED
    BY <1>1, <1>2, <2>1, <2>2
<1> HIDE DEF on
<1>4. \A j \in 1 .. Len(on) : on[j].mark = "first" <=> j = 2
  <2>1. SUFFICES ASSUME NEW j \in 1 .. Len(on) PROVE on[j].mark = "first" <=> j = 2
    OBVIOUS
  <2>2. Raw(Delimiter).mark = "none" /\ 1 # 2
    BY DEF Raw
  <2>3. \A k \in 3 .. L + 1 : k # 2
    BY <1>2
  <2>4. \A k \in L + 2 .. Len(on) : k # 2
    BY <1>2
  <2>5. CASE j = 1
    BY <1>1, <2>2, <2>5
  <2>6. CASE j = 2
    BY <1>1, <2>6
  <2>7. CASE j \in 3 .. L + 1
    <3>1. on[j] = [v |-> body[j - 1], mark |-> "later"]
      BY <1>1, <2>7
    <3>2. on[j].mark = "later" /\ j # 2
      BY <2>3, <2>7, <3>1
    <3>3. QED
      BY <3>2
  <2>8. CASE j \in L + 2 .. Len(on)
    BY <1>1, <2>2, <2>4, <2>8
  <2>9. QED
    BY <1>3, <2>5, <2>6, <2>7, <2>8
<1>5. Firsts(on) = 1
  BY <1>3, <1>4, OneFirst
<1>6. Placed(on, 2, c)
  BY <1>3 DEF Placed, on, L, body
<1>7. Behind(on, 2) = 0
  <2> DEFINE rear == SubSeq(on, 2 + 1, Len(on))
  <2>1. Len(rear) = Len(on) - 2 /\ \A j \in 1 .. Len(on) - 2 : rear[j] = on[j + 2]
    BY <1>1, <1>3, Parts
  <2> HIDE DEF rear
  <2>2. \A j \in 1 .. Len(rear) : rear[j].mark # "first"
    BY <1>3, <1>4, <2>1
  <2>3. Firsts(rear) = 0
    BY <2>2, NoFirsts
  <2>4. QED
    BY <2>3 DEF Behind, rear
<1>8. QED
  BY <1>1, <1>3, <1>5, <1>6, <1>7 DEF on

LEMMA ArrivesKeeps ==
  ASSUME FeedbackInv, NEW c \in Containers, Arrives(c)
  PROVE  FeedbackInv'
<1> DEFINE on == OnLine(Frame(c))
           r  == [content |-> c, owed |-> bound /\ Decodable(c)]
<1>1. /\ on \in Seq(WireByte) /\ Len(on) = Len(Frame(c)) /\ Firsts(on) = 1
      /\ 2 \in 2 .. Len(on) /\ Placed(on, 2, c) /\ Behind(on, 2) = 0
  BY FrameArrives
<1>2. Sends(c, on, <<r>>)
  BY DEF Arrives
<1>3. r \in [content : Containers, owed : BOOLEAN]
  BY DEF FeedbackInv, Carried, Decodable
<1>4. r.content = c /\ (r.owed => bound /\ Decodable(c))
  OBVIOUS
<1> HIDE DEF on, r
<1>5. Announced(on, <<r>>)
  <2>1. <<r>> \in Seq([content : Containers, owed : BOOLEAN]) /\ Len(<<r>>) = 1
        /\ \A j \in 1 .. 1 : j = 1 /\ <<r>>[j] = r /\ 1 - 1 = 0
    BY <1>3
  <2>2. Comes(<<r>>, on, 1)
    BY <1>1, <1>4, <2>1 DEF Comes
  <2>3. QED
    BY <1>1, <1>4, <2>1, <2>2 DEF Announced
<1>6. Len(on) <= Len(Frame(c))
  <2>1. Len(on) \in Nat
    BY <1>1, LengthIsNat
  <2>2. QED
    BY <1>1, <2>1
<1>7. QED
  BY <1>1, <1>2, <1>5, <1>6, SendsKeeps

\* ... and one still when it loses a delimiter; ...
LEMMA LosesDelimiterKeeps ==
  ASSUME FeedbackInv, NEW c \in Containers, LosesDelimiter(c)
  PROVE  FeedbackInv'
<1> DEFINE on == OnLine(Frame(c))
           r  == [content |-> c, owed |-> FALSE]
<1>1. on \in Seq(WireByte) /\ Len(on) = Len(Frame(c)) /\ Firsts(on) = 1
  BY FrameArrives
<1>2. PICK i \in 1 .. Len(on) :
        on[i] = Raw(Delimiter) /\ \E arriving \in Damages(on, i) : Sends(c, arriving, <<r>>)
  BY DEF LosesDelimiter
<1> PICK arriving \in Damages(on, i) : Sends(c, arriving, <<r>>)
  BY <1>2
<1>3. r \in [content : Containers, owed : BOOLEAN] /\ ~r.owed
  OBVIOUS
<1> HIDE DEF on, r
<1>4. on[i].mark # "first"
  BY <1>2 DEF Raw
<1>5. /\ arriving \in Seq(WireByte) /\ Len(arriving) <= Len(Frame(c))
      /\ Firsts(arriving) = 1
  BY <1>1, <1>2, <1>4, DamagedIs
<1>6. Announced(arriving, <<r>>)
  <2>1. <<r>> \in Seq([content : Containers, owed : BOOLEAN]) /\ Len(<<r>>) = 1
        /\ \A j \in 1 .. 1 : <<r>>[j] = r
    BY <1>3
  <2>2. QED
    BY <1>3, <1>5, <2>1 DEF Announced
<1>7. QED
  BY <1>2, <1>5, <1>6, SendsKeeps

\* ... none when its message is damaged.
LEMMA IsDamagedKeeps ==
  ASSUME FeedbackInv, NEW c \in Containers, IsDamaged(c)
  PROVE  FeedbackInv'
<1> DEFINE f     == Frame(c)
           frame == [i \in 1 .. Len(f) |-> IF f[i] = Delimiter THEN Raw(Delimiter) ELSE Noise]
<1>1. f \in Seq(Byte) /\ Len(f) \in Nat
  <2>1. f \in Seq(Byte)
    BY FrameIs
  <2>2. \A s \in Seq(Byte) : Len(s) \in Nat
    OBVIOUS
  <2>3. QED
    BY <2>1, <2>2
<1>2. PICK i \in 1 .. Len(frame) :
        frame[i] = Noise /\ \E arriving \in Damages(frame, i) : Sends(c, arriving, <<>>)
  BY DEF IsDamaged
<1> PICK arriving \in Damages(frame, i) : Sends(c, arriving, <<>>)
  BY <1>2
<1> HIDE DEF f
<1>3. /\ frame \in Seq(WireByte) /\ Len(frame) = Len(f)
      /\ \A j \in 1 .. Len(f) : frame[j].mark # "first"
  <2>1. Noise \in WireByte /\ Raw(Delimiter) \in WireByte
        /\ Noise.mark # "first" /\ Raw(Delimiter).mark # "first"
    BY CobsAssumption DEF Noise, Raw, WireByte, Byte
  <2>2. \A j \in 1 .. Len(f) : frame[j] \in WireByte /\ frame[j].mark # "first"
    BY <2>1
  <2>3. frame \in [1 .. Len(f) -> WireByte]
    BY <2>1
  <2>4. frame \in Seq(WireByte) /\ Len(frame) = Len(f)
    <3> HIDE DEF frame
    <3>1. QED
      BY <1>1, <2>3
  <2>5. QED
    BY <2>2, <2>4
<1> HIDE DEF frame
<1>4. Firsts(frame) = 0
  BY <1>3, NoFirsts
<1>5. i \in 1 .. Len(frame) /\ frame[i].mark # "first"
  BY <1>2, <1>3
<1>6. /\ arriving \in Seq(WireByte) /\ Len(arriving) <= Len(Frame(c))
      /\ Firsts(arriving) = 0
  BY <1>2, <1>3, <1>4, <1>5, DamagedIs DEF f
<1>7. Announced(arriving, <<>>)
  <2>1. <<>> \in Seq([content : Containers, owed : BOOLEAN]) /\ Len(<<>>) = 0
    OBVIOUS
  <2>2. QED
    BY <1>6, <2>1 DEF Announced
<1>8. QED
  BY <1>2, <1>6, <1>7, SendsKeeps

-----------------------------------------------------------------------------
(***************************************************************************)
(* What is decoded                                                         *)
(***************************************************************************)
\* A refusal of feedback leaves no time that could refuse the next.
LockInv ==
  /\ newest \in Times \cup {NaN}
  /\ refusals \in 0 .. 1
  /\ refusals > 0 => newest = NaN

FeedbackIn(c, n) == \E i \in 1 .. n : c[i] # NoFeedback

\* The time after n messages of a container: it is set by the first feedback if there
\* was none before.
Decoding(c, n, t) ==
  /\ t \in Times \cup {NaN}
  /\ newest = NaN /\ FeedbackIn(c, n) => t # NaN

LEMMA StampIs ==
  ASSUME started \in BOOLEAN, NEW m \in Messages, m # NoFeedback
  PROVE  Stamp(m) \in Times /\ Stamp(m) # NaN /\ ~(Stamp(m) < NaN)
<1>1. MaxClock \in Nat
  BY FeedbackAssumption
<1>2. m \in 0 .. MaxClock
  BY DEF Messages
<1>3. Stamp(m) = m + IF started THEN MaxClock + 1 ELSE 0
  BY DEF Stamp
<1>4. Stamp(m) \in 0 .. 2 * MaxClock + 1
  <2>1. CASE started
    BY <1>1, <1>2, <1>3, <2>1
  <2>2. CASE ~started
    BY <1>1, <1>2, <1>3, <2>2
  <2>3. QED
    BY <2>1, <2>2
<1>5. QED
  BY <1>1, <1>4 DEF Times, NaN

LEMMA NewerIs ==
  ASSUME started \in BOOLEAN, NEW c \in Containers, NEW n \in 0 .. Len(c) - 1,
         NEW t, Decoding(c, n, t)
  PROVE  Decoding(c, n + 1, Newer(t, c[n + 1]))
<1> DEFINE m == c[n + 1]
<1>1. Len(c) \in Nat /\ m \in Messages /\ n \in Nat
  <2>1. Len(c) \in 1 .. 2 /\ \A i \in 1 .. Len(c) : c[i] \in Messages
    BY ContainerBytes
  <2>2. n + 1 \in 1 .. Len(c) /\ Len(c) \in Nat /\ n \in Nat
    BY <2>1
  <2>3. QED
    BY <2>1, <2>2
<1>2. \A i \in 1 .. n + 1 : i \in 1 .. n \/ i = n + 1
  BY <1>1
<1>3. t \in Times \cup {NaN} /\ (newest = NaN /\ FeedbackIn(c, n) => t # NaN)
  BY DEF Decoding
<1> HIDE DEF m
<1>4. CASE m = NoFeedback
  <2>1. Newer(t, m) = t
    BY <1>4 DEF Newer
  <2>2. FeedbackIn(c, n + 1) => FeedbackIn(c, n)
    BY <1>2, <1>4 DEF FeedbackIn, m
  <2>3. QED
    BY <1>3, <2>1, <2>2 DEF Decoding, m
<1>5. CASE m # NoFeedback
  <2>1. Stamp(m) \in Times /\ Stamp(m) # NaN /\ ~(Stamp(m) < NaN)
    BY <1>1, <1>5, StampIs
  <2>2. Newer(t, m) \in {t, Stamp(m)}
    BY DEF Newer
  <2>3. ASSUME newest = NaN
        PROVE  Newer(t, m) # NaN
    <3>1. CASE t = NaN
      <4>1. Newer(t, m) = Stamp(m)
        BY <1>5, <2>1, <2>3, <3>1 DEF Newer
      <4>2. QED
        BY <2>1, <4>1
    <3>2. CASE t # NaN
      BY <2>1, <2>2, <3>2
    <3>3. QED
      BY <3>1, <3>2
  <2>4. QED
    BY <1>3, <2>1, <2>2, <2>3 DEF Decoding, m
<1>6. QED
  BY <1>4, <1>5

LEMMA NewestIs ==
  ASSUME started \in BOOLEAN, NEW c \in Containers
  PROVE  Decoding(c, Len(c), Newest(c))
<1> DEFINE N == Len(c)
           T == Times \cup {NaN}
           IsRun(st) == st = [i \in 0 .. N |-> IF i = 0 THEN NaN
                                               ELSE Newer(st[i - 1], c[i])]
           st == CHOOSE st : IsRun(st)
<1>1. N \in Nat /\ \A i \in 1 .. N : c[i] \in Messages
  <2>1. N \in 1 .. 2 /\ \A i \in 1 .. N : c[i] \in Messages
    BY ContainerBytes
  <2>2. QED
    BY <2>1
<1>2. NaN \in T
  OBVIOUS
<1>3. ASSUME NEW t \in T, NEW m \in Messages
      PROVE  Newer(t, m) \in T
  <2>1. m # NoFeedback => Stamp(m) \in T
    BY StampIs
  <2>2. Newer(t, m) = IF m = NoFeedback \/ Stamp(m) < newest \/ Stamp(m) < t
                      THEN t ELSE Stamp(m)
    BY DEF Newer
  <2> HIDE DEF T
  <2>3. QED
    BY <2>1, <2>2
<1>4. \E u : IsRun(u)
  <2> DEFINE g == [p \in T \X (1 .. N) |-> Newer(p[1], c[p[2]])]
  <2>1. g \in [T \X (1 .. N) -> T]
    <3> HIDE DEF T
    <3>1. QED
      BY <1>1, <1>3
  <2>2. PICK u \in [0 .. N -> T] :
               u[0] = NaN /\ \A i \in 1 .. N : u[i] = g[<<u[i - 1], i>>]
    <3> HIDE DEF T, g, N
    <3>1. Runs(N, T, NaN, g) # {}
      BY ZenonT(60), <1>1, <1>2, <2>1, Recursion
    <3>2. QED
      BY <3>1 DEF Runs
  <2>3. \A i \in 1 .. N : g[<<u[i - 1], i>>] = Newer(u[i - 1], c[i])
    <3> HIDE DEF T
    <3>1. \A i \in 1 .. N : i - 1 \in 0 .. N
      BY <1>1
    <3>2. QED
      BY <3>1
  <2>4. IsRun(u)
    <3>1. \A i \in 0 .. N : i # 0 => i \in 1 .. N
      BY <1>1
    <3> HIDE DEF T, g, N
    <3>2. u = [i \in 0 .. N |-> u[i]]
      OBVIOUS
    <3>3. \A i \in 0 .. N : u[i] = IF i = 0 THEN NaN ELSE Newer(u[i - 1], c[i])
      BY <2>2, <2>3, <3>1
    <3>4. QED
      BY <3>2, <3>3
  <2>5. QED
    BY <2>4
<1>5. IsRun(st)
  <2> HIDE DEF IsRun
  <2>1. QED
    BY <1>4
<1>6. Newest(c) = st[N]
  BY DEF Newest, Along
<1> HIDE DEF st
<1>7. st[0] = NaN /\ \A i \in 1 .. N : st[i] = Newer(st[i - 1], c[i])
  BY <1>1, <1>5
<1> DEFINE S == {i \in Nat : i <= N => Decoding(c, i, st[i])}
<1>8. 0 \in S
  <2>1. ~FeedbackIn(c, 0)
    BY DEF FeedbackIn
  <2>2. Decoding(c, 0, NaN)
    BY <2>1 DEF Decoding
  <2>3. QED
    BY <1>7, <2>2
<1>9. ASSUME NEW i \in Nat, i \in S PROVE i + 1 \in S
  <2>1. SUFFICES ASSUME i + 1 <= N PROVE Decoding(c, i + 1, st[i + 1])
    OBVIOUS
  <2>2. i \in 0 .. N - 1 /\ Decoding(c, i, st[i])
    BY <1>1, <1>9, <2>1
  <2>3. st[i + 1] = Newer(st[i], c[i + 1])
    BY <1>1, <1>7, <2>1
  <2>4. QED
    BY <2>2, <2>3, NewerIs
<1>10. N \in S
  <2> HIDE DEF S
  <2>1. QED
    BY <1>1, <1>8, <1>9, AllNaturals
<1>11. QED
  BY <1>1, <1>6, <1>10

LEMMA DecodesKeeps ==
  ASSUME started \in BOOLEAN, LockInv, NEW c \in Containers, Decodes(c)
  PROVE  LockInv'
<1> DEFINE t == Newest(c)
<1>1. t \in Times \cup {NaN} /\ (newest = NaN /\ FeedbackIn(c, Len(c)) => t # NaN)
  BY NewestIs DEF Decoding
<1>2. /\ newest' = t
      /\ refusals' = IF t # NaN THEN 0
                     ELSE IF \E m \in Messages : m # NoFeedback /\ Contains(c, m)
                     THEN Min({refusals + 1, 2})
                     ELSE refusals
  BY DEF Decodes, Counts
<1>3. newest \in Times \cup {NaN} /\ refusals \in 0 .. 1 /\ (refusals > 0 => newest = NaN)
  BY DEF LockInv
<1> HIDE DEF t
<1>4. CASE t # NaN
  BY <1>1, <1>2, <1>4 DEF LockInv
<1>5. CASE t = NaN /\ \E m \in Messages : m # NoFeedback /\ Contains(c, m)
  <2>1. FeedbackIn(c, Len(c))
    BY <1>5 DEF FeedbackIn, Contains
  <2>2. newest # NaN
    BY <1>1, <1>5, <2>1
  <2>3. refusals = 0
    BY <1>3, <2>2
  <2>4. Min({refusals + 1, 2}) = 1
    <3>1. {refusals + 1, 2} = {1, 2}
      BY <2>3
    <3>2. Min({1, 2}) = 1
      <4>1. 1 \in {1, 2} /\ \A j \in {1, 2} : 1 <= j
        OBVIOUS
      <4>2. \A i \in {1, 2} : (\A j \in {1, 2} : i <= j) => i = 1
        OBVIOUS
      <4>3. QED
        BY <4>1, <4>2 DEF Min
    <3>3. QED
      BY <3>1, <3>2
  <2>5. refusals' = 1
    BY <1>2, <1>5, <2>4
  <2>6. QED
    BY <1>2, <1>5, <2>5 DEF LockInv
<1>6. CASE t = NaN /\ ~\E m \in Messages : m # NoFeedback /\ Contains(c, m)
  BY <1>2, <1>3, <1>6 DEF LockInv
<1>7. QED
  BY <1>4, <1>5, <1>6

LEMMA RestType ==
  ASSUME NEW got \in Seq(WireByte)
  PROVE  Rest(FromStart(got)) \in Seq(WireByte)
<1> DEFINE from == FromStart(got)
<1>1. \A s \in Seq(WireByte) : \A m \in 1 .. Len(s) : SubSeq(s, m, Len(s)) \in Seq(WireByte)
  OBVIOUS
<1>2. from \in Seq(WireByte)
  <2>1. from = got \/ \E m \in 1 .. Len(got) : from = SubSeq(got, m, Len(got))
    BY StartIs
  <2>2. QED
    BY <1>1, <2>1
<1> HIDE DEF from
<1>3. CASE End(from) = 0
  BY <1>2, <1>3 DEF Rest, from
<1>4. CASE End(from) # 0
  <2>1. End(from) \in 2 .. Len(from)
    BY <1>2, <1>4, EndIs
  <2>2. End(from) \in 1 .. Len(from)
    BY <2>1
  <2>3. QED
    BY <1>1, <1>2, <1>4, <2>2 DEF Rest, from
<1>5. QED
  BY <1>3, <1>4

LEMMA IterationLocks ==
  ASSUME FeedbackInv, LockInv, NEW k \in Reads, Iteration(k)
  PROVE  LockInv'
<1> DEFINE got  == rx \o SubSeq(line, 1, k)
           from == FromStart(got)
           msg  == Message(got, from)
           last == Len(sent) - Firsts(SubSeq(line, k + 1, Len(line)) \o Rest(from))
<1>1. CASE UNCHANGED <<newest, refusals>>
  BY <1>1 DEF LockInv
<1>2. CASE last > 0 /\ Accepts(msg, sent[last].content) /\ Decodes(sent[last].content)
  <2>1. sent[last].content \in Containers
    <3> DEFINE more == SubSeq(line, k + 1, Len(line))
    <3>1. Carried
      BY DEF FeedbackInv
    <3>2. got \in Seq(WireByte) /\ more \in Seq(WireByte)
      BY <3>1, ReadMoves
    <3>3. Rest(from) \in Seq(WireByte)
      <4> HIDE DEF got
      <4>1. QED
        BY <3>2, RestType
    <3> HIDE DEF got, from, more
    <3>4. more \o Rest(from) \in Seq(WireByte)
      BY <3>2, <3>3, ConcatProperties
    <3>5. Firsts(more \o Rest(from)) \in Nat
      BY <3>4, FirstsType
    <3>6. Len(sent) \in Nat
      BY <3>1 DEF Carried
    <3>7. last > 0 /\ last = Len(sent) - Firsts(more \o Rest(from))
      BY <1>2 DEF more
    <3> HIDE DEF last
    <3>8. last \in 1 .. Len(sent)
      <4>1. \A a, b \in Nat : a - b > 0 => a - b \in 1 .. a
        OBVIOUS
      <4>2. QED
        BY <3>5, <3>6, <3>7, <4>1
    <3>9. QED
      BY <3>1, <3>8, ContentIs
  <2>2. started \in BOOLEAN
    BY DEF FeedbackInv, Carried
  <2>3. QED
    BY <1>2, <2>1, <2>2, DecodesKeeps
<1>3. \/ UNCHANGED <<newest, refusals>>
      \/ last > 0 /\ Accepts(msg, sent[last].content) /\ Decodes(sent[last].content)
  <2>1. \/ NothingYet(k, got) \/ NoStart(k, got, from) \/ FindsMessage(k, got, from)
    BY DEF Iteration
  <2>2. FindsMessage(k, got, from) => HandsOver(k, from, msg) \/ Waits(k, from, msg)
    BY DEF FindsMessage
  <2> HIDE DEF got, from, msg
  <2>3. NothingYet(k, got) \/ NoStart(k, got, from) => UNCHANGED <<newest, refusals>>
    BY DEF NothingYet, NoStart
  <2>4. Waits(k, from, msg) => UNCHANGED <<newest, refusals>>
    BY DEF Waits
  <2>5. HandsOver(k, from, msg) =>
          \/ UNCHANGED <<newest, refusals>>
          \/ last > 0 /\ Accepts(msg, sent[last].content) /\ Decodes(sent[last].content)
    BY DEF HandsOver
  <2>6. QED
    BY <2>1, <2>2, <2>3, <2>4, <2>5
<1>4. QED
  BY <1>1, <1>2, <1>3

-----------------------------------------------------------------------------
(***************************************************************************)
(* The theorems                                                            *)
(***************************************************************************)
LEMMA FeedbackInvInit ==
  ASSUME FeedbackInit
  PROVE  FeedbackInv /\ LockInv
<1>1. /\ clock = 0 /\ line = <<>> /\ rx = <<>> /\ message = <<>> /\ bound = FALSE
      /\ started = FALSE /\ newest = NaN /\ sent = <<>> /\ skipped = FALSE /\ refusals = 0
  BY DEF FeedbackInit
<1>2. Carried
  <2>1. /\ <<>> \in Seq(WireByte) /\ Len(<<>>) = 0
        /\ <<>> \in Seq([content : Containers, owed : BOOLEAN])
    OBVIOUS
  <2>2. /\ 0 \in 0 .. MaxClock /\ 0 <= MaxUnread /\ 0 < BS
    BY FeedbackAssumption
  <2>3. QED
    BY <1>1, <2>1, <2>2 DEF Carried
<1>3. rx \o line = <<>> /\ Len(<<>>) = 0
  BY <1>1
<1>4. Firsts(<<>>) = 0
  <2>1. \A i \in 1 .. Len(<<>>) : <<>>[i].mark # "first"
    OBVIOUS
  <2>2. QED
    BY <2>1, NoFirsts
<1>5. Counted /\ NoneSkipped /\ OwedCome
  BY <1>1, <1>3, <1>4 DEF Counted, NoneSkipped, OwedCome
<1>6. LockInv
  BY <1>1 DEF LockInv
<1>7. QED
  BY <1>2, <1>5, <1>6 DEF FeedbackInv

LEMMA FeedbackInvKept ==
  ASSUME FeedbackInv, LockInv, [FeedbackNext]_feedbackVars
  PROVE  FeedbackInv' /\ LockInv'
<1>1. Carried /\ Counted /\ NoneSkipped /\ OwedCome
  BY DEF FeedbackInv
<1>2. ASSUME /\ clock' \in 0 .. MaxClock
             /\ UNCHANGED <<line, readerVars, bound, started, decoderVars>>
      PROVE  FeedbackInv' /\ LockInv'
  <2>1. UNCHANGED <<line, rx, message, bound, started, sent, skipped, newest, refusals>>
    BY <1>2 DEF readerVars, decoderVars
  <2>2. Carried' /\ Counted' /\ NoneSkipped' /\ LockInv'
    BY <1>1, <1>2, <2>1 DEF Carried, Counted, NoneSkipped, LockInv
  <2>3. OwedCome'
    BY <1>1, <2>1 DEF OwedCome
  <2>4. QED
    BY <2>2, <2>3 DEF FeedbackInv
<1>3. MaxClock \in Nat /\ clock \in 0 .. MaxClock
  BY <1>1, FeedbackAssumption DEF Carried
<1>4. CASE Ticks
  BY <1>2, <1>3, <1>4 DEF Ticks
<1>5. CASE Restarts
  BY <1>2, <1>3, <1>5 DEF Restarts
<1>6. ASSUME NEW c \in Sendable, Arrives(c) \/ LosesDelimiter(c) \/ IsDamaged(c)
      PROVE  FeedbackInv' /\ LockInv'
  <2>1. c \in Containers
    <3>1. clock \in Messages /\ NoFeedback \in Messages
      BY <1>3 DEF Messages
    <3>2. \A m \in Messages : <<m>> \in [1 .. 1 -> Messages] /\ <<m, m>> \in [1 .. 2 -> Messages]
      OBVIOUS
    <3>3. c \in [1 .. 1 -> Messages] \/ c \in [1 .. 2 -> Messages]
      BY <3>1, <3>2 DEF Sendable
    <3>4. QED
      BY <3>3 DEF Containers
  <2>2. FeedbackInv'
    BY <1>6, <2>1, ArrivesKeeps, LosesDelimiterKeeps, IsDamagedKeeps
  <2>3. \E arriving, isSent : Sends(c, arriving, isSent)
    BY <1>6 DEF Arrives, LosesDelimiter, IsDamaged
  <2>4. UNCHANGED <<newest, refusals>>
    BY <2>3 DEF Sends
  <2>5. LockInv'
    BY <2>4 DEF LockInv
  <2>6. QED
    BY <2>2, <2>5
<1>7. CASE Iterates
  BY <1>7, IterationKeeps, IterationLocks DEF Iterates
<1>8. CASE Binds
  <2>1. /\ bound' = TRUE
        /\ UNCHANGED <<clock, line, rx, message, started, sent, skipped, newest, refusals>>
    BY <1>8 DEF Binds, readerVars, decoderVars
  <2>2. Carried' /\ Counted' /\ NoneSkipped' /\ LockInv'
    BY <1>1, <2>1 DEF Carried, Counted, NoneSkipped, LockInv
  <2>3. OwedCome'
    BY <1>1, <2>1 DEF OwedCome
  <2>4. QED
    BY <2>2, <2>3 DEF FeedbackInv
<1>9. CASE Starts
  <2>1. /\ started' = TRUE
        /\ UNCHANGED <<clock, line, rx, message, bound, sent, skipped, newest, refusals>>
    BY <1>9 DEF Starts, readerVars, decoderVars
  <2>2. Carried' /\ Counted' /\ NoneSkipped' /\ LockInv'
    BY <1>1, <2>1 DEF Carried, Counted, NoneSkipped, LockInv
  <2>3. OwedCome'
    BY <1>1, <2>1 DEF OwedCome
  <2>4. QED
    BY <2>2, <2>3 DEF FeedbackInv
<1>10. CASE UNCHANGED feedbackVars
  <2>1. clock' = clock /\ UNCHANGED <<line, readerVars, bound, started, decoderVars>>
    BY <1>10 DEF feedbackVars
  <2>2. QED
    BY <1>2, <1>3, <2>1
<1>11. QED
  BY <1>4, <1>5, <1>6, <1>7, <1>8, <1>9, <1>10 DEF FeedbackNext

LEMMA FeedbackInvHolds == FeedbackSpec => [](FeedbackInv /\ LockInv)
BY FeedbackInvInit, FeedbackInvKept, PTL DEF FeedbackSpec

\* The buffers of the reading thread are never filled beyond their size, and the
\* decoder's state keeps its types.
THEOREM FeedbackTypeCorrect == FeedbackSpec => []FeedbackTypeOK
<1>1. FeedbackInv /\ LockInv => FeedbackTypeOK
  <2>1. SUFFICES ASSUME FeedbackInv, LockInv PROVE FeedbackTypeOK
    OBVIOUS
  <2>2. refusals \in 0 .. 2 /\ newest \in Times \cup {NaN}
    BY <2>1 DEF LockInv
  <2>3. skipped \in BOOLEAN
    BY <2>1 DEF FeedbackInv, Carried
  <2>4. QED
    BY ZenonT(60), <2>1, <2>2, <2>3 DEF FeedbackInv, Carried, FeedbackTypeOK
<1>2. QED
  BY <1>1, FeedbackInvHolds, PTL

\* A message that arrives between two delimiters is decoded, to what was sent and in
\* the order of sending.
THEOREM NoMessageSkipped == FeedbackSpec => []NoneSkipped
<1>1. FeedbackInv => NoneSkipped
  BY DEF FeedbackInv
<1>2. QED
  BY <1>1, FeedbackInvHolds, PTL

\* A restart of the flight controller costs one container.
THEOREM NotLockedOut == FeedbackSpec => []NeverLockedOut
<1>1. LockInv => NeverLockedOut
  BY DEF LockInv, NeverLockedOut
<1>2. QED
  BY <1>1, FeedbackInvHolds, PTL
=============================================================================
