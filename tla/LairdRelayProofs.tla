-------------------------- MODULE LairdRelayProofs --------------------------
(***************************************************************************)
(* Safety of the relay between radio and flight controller, for every      *)
(* limit of timeouts, buffer and number of restarts.                       *)
(***************************************************************************)
EXTENDS LairdRelay, TLAPS

-----------------------------------------------------------------------------
\* A step of the bridge by the node's thread or by the watchdog.
BridgeStep ==
  \/ Continues \/ Bridge!GuardStep
  \/ Bridge!SendChecks(Relay) \/ Bridge!ActivateChecks(Relay)
  \/ Bridge!Deactivate(Relay) \/ Bridge!ResetClears(Relay)

\* What a step of the bridge does to the bridge's variables keeps their types.
LEMMA BridgeTypes ==
  ASSUME Bridge!TypeOK, BridgeStep
  PROVE  Bridge!TypeOK'
<1> USE DEF Bridge!TypeOK, Bridge!ClientPcs, Bridge!GuardPcs, Bridge!Packets,
            Bridge!Threads, Bridge!Goto, Bridge!guardVars, Bridge!clientVars
<1>1. CASE Bridge!SendMarks(Relay) \/ Bridge!SendLoads(Relay)
           \/ Bridge!SendSettles(Relay)
  <2>1. CASE Bridge!SendMarks(Relay)
    BY <2>1 DEF Bridge!SendMarks
  <2>2. CASE Bridge!SendLoads(Relay)
    BY <2>2 DEF Bridge!SendLoads
  <2>3. CASE Bridge!SendSettles(Relay)
    BY <2>3 DEF Bridge!SendSettles
  <2>4. QED
    BY <1>1, <2>1, <2>2, <2>3
<1>2. ASSUME NEW o \in Bridge!Outcomes, Bridge!SendTransmits(Relay, TRUE, o)
      PROVE  Bridge!TypeOK'
  <2>1. receiver' \in Bridge!Packets /\ stale' \subseteq Bridge!Threads
    BY <1>2 DEF Bridge!SendTransmits, Bridge!Transmit, Bridge!Packet
  <2>2. QED
    BY <1>2, <2>1 DEF Bridge!SendTransmits
<1>3. CASE Bridge!ActivateStores(Relay) \/ Bridge!ResetForgets(Relay)
           \/ Bridge!Deactivate(Relay)
  BY <1>3 DEF Bridge!ActivateStores, Bridge!ResetForgets, Bridge!Deactivate,
     Bridge!Disarm
<1>4. CASE Bridge!SendChecks(Relay) \/ Bridge!ActivateChecks(Relay)
           \/ Bridge!ResetClears(Relay)
  BY <1>4 DEF Bridge!SendChecks, Bridge!ActivateChecks, Bridge!ResetClears
<1>5. CASE Bridge!GuardStep
  <2> USE DEF Bridge!GuardMoves
  <2>1. CASE Bridge!GuardNotified \/ Bridge!GuardTimesOut \/ Bridge!GuardLoads
             \/ Bridge!GuardDecides
    BY <2>1 DEF Bridge!GuardNotified, Bridge!GuardTimesOut, Bridge!GuardLoads,
                Bridge!GuardDecides
  <2>2. CASE Bridge!GuardChecksHeard \/ Bridge!GuardChecksLimit
             \/ Bridge!GuardCounts
    BY <2>2 DEF Bridge!GuardChecksHeard, Bridge!GuardChecksLimit,
                Bridge!GuardCounts
  <2>3. CASE Bridge!GuardDisarms \/ Bridge!GuardReloads
    BY <2>3 DEF Bridge!GuardDisarms, Bridge!GuardReloads, Bridge!Disarm
  <2>4. ASSUME NEW o \in Bridge!Outcomes, Bridge!GuardSends(o)
        PROVE  Bridge!TypeOK'
    <3>1. receiver' \in Bridge!Packets /\ stale' \subseteq Bridge!Threads
      BY <2>4 DEF Bridge!GuardSends, Bridge!Transmit, Bridge!Packet
    <3>2. QED
      BY <2>4, <3>1 DEF Bridge!GuardSends
  <2>5. QED
    BY <1>5, <2>1, <2>2, <2>3, <2>4 DEF Bridge!GuardStep
<1>6. QED
  BY <1>1, <1>2, <1>3, <1>4, <1>5 DEF Continues, BridgeStep

\* The rest of a plan, and a plan.
LEMMA Rest ==
  ASSUME NEW s \in Seq(Calls), s # <<>>
  PROVE  Tail(s) \in Seq(Calls)
OBVIOUS

LEMMA Plans ==
  ASSUME NEW f
  PROVE  CallsFor(f) \in Seq(Calls)
<1>1. /\ <<"activate", "send">> \in Seq(Calls)
      /\ <<"deactivate", "reset", "send">> \in Seq(Calls)
      /\ <<"send">> \in Seq(Calls)
  BY DEF Calls
<1>2. QED
  BY <1>1 DEF CallsFor

\* What stays in the buffer when the first frames are taken out of it.
LEMMA Remains ==
  ASSUME NEW s \in Seq(Frames), NEW i \in 1..Len(s)
  PROVE  /\ SubSeq(s, i + 1, Len(s)) \in Seq(Frames)
         /\ Len(SubSeq(s, i + 1, Len(s))) <= Len(s)
OBVIOUS

\* The system keeps its types; the buffer never holds more than fits into it.
THEOREM TypeCorrect == Spec => []TypeOK
<1>1. Init => TypeOK
  <2> SUFFICES ASSUME Init PROVE TypeOK
    OBVIOUS
  <2>1. Bridge!TypeOK
    <3>1. pc \in [{Relay} -> Bridge!ClientPcs] /\ sees \in [{Relay} -> BOOLEAN]
      BY DEF Init, Bridge!Init, Bridge!ClientPcs
    <3>2. QED
      BY <3>1 DEF Init, Bridge!Init, Bridge!TypeOK, Bridge!GuardPcs,
                  Bridge!Packets
  <2>2. <<>> \in Seq(Frames) /\ <<>> \in Seq(Calls) /\ Len(<<>>) = 0
    OBVIOUS
  <2>3. buffer \in Seq(Frames) /\ Len(buffer) <= BufferSize /\ todo \in Seq(Calls)
    BY <2>2, SizesAssumption DEF Init
  <2>4. restarts \in 0..MaxRestarts
    BY SizesAssumption DEF Init
  <2>5. armedLast \in BOOLEAN /\ tripped \in BOOLEAN
    BY Zenon DEF Init
  <2>6. QED
    BY <2>1, <2>3, <2>4, <2>5 DEF Init, TypeOK
<1>2. TypeOK /\ [Next]_vars => TypeOK'
  <2> SUFFICES ASSUME TypeOK, [Next]_vars PROVE TypeOK'
    OBVIOUS
  <2> USE DEF TypeOK
  <2>1. CASE GroundChanges
    <3>1. ground' \in {"armed", "disarmed", "silent"} /\ UNCHANGED bridgeVars
          /\ UNCHANGED <<armedLast, todo, buffer, restarts, tripped>>
      BY <2>1 DEF GroundChanges, relayVars
    <3>2. QED
      BY <3>1 DEF bridgeVars, Bridge!TypeOK
  <2>2. ASSUME NEW f \in Frames, Collects(f)
        PROVE  TypeOK'
    <3>1. UNCHANGED bridgeVars
          /\ UNCHANGED <<armedLast, todo, ground, restarts, tripped>>
      BY <2>2 DEF Collects, relayVars
    <3>2. buffer' \in Seq(Frames) /\ Len(buffer') <= BufferSize
      <4>1. CASE Len(buffer) < BufferSize
        BY <2>2, <4>1, SizesAssumption DEF Collects
      <4>2. CASE ~(Len(buffer) < BufferSize)
        BY <2>2, <4>2, SizesAssumption DEF Collects
      <4>3. QED
        BY <4>1, <4>2
    <3>3. QED
      BY <3>1, <3>2 DEF bridgeVars, Bridge!TypeOK
  <2>3. CASE Receives
    <3>1. PICK i \in 1..Len(buffer) :
            /\ todo' = CallsFor(buffer[i])
            /\ armedLast' = (buffer[i] = "armed")
            /\ tripped' = (tripped /\ buffer[i] = "armed")
            /\ buffer' = SubSeq(buffer, i + 1, Len(buffer))
      BY <2>3 DEF Receives
    <3>2. UNCHANGED bridgeVars /\ UNCHANGED <<ground, restarts>>
      BY <2>3 DEF Receives
    <3>3. buffer' \in Seq(Frames) /\ Len(buffer') <= BufferSize
      <4>1. Len(buffer') <= Len(buffer) /\ buffer' \in Seq(Frames)
        BY <3>1, Remains
      <4>2. QED
        BY <4>1, SizesAssumption
    <3>4. todo' \in Seq(Calls)
      BY <3>1, Plans
    <3>5. armedLast' \in BOOLEAN /\ tripped' \in BOOLEAN
      BY <3>1
    <3>6. QED
      BY <3>2, <3>3, <3>4, <3>5 DEF bridgeVars, Bridge!TypeOK
  <2>4. CASE Discards
    <3>1. buffer' = <<>> /\ UNCHANGED bridgeVars
          /\ UNCHANGED <<armedLast, todo, ground, restarts, tripped>>
      BY <2>4 DEF Discards, relayVars
    <3>2. <<>> \in Seq(Frames) /\ Len(<<>>) = 0
      OBVIOUS
    <3>3. QED
      BY <3>1, <3>2, SizesAssumption DEF bridgeVars, Bridge!TypeOK
  <2>5. CASE MakesCall
    <3>1. todo # <<>> /\ todo' = Tail(todo)
          /\ UNCHANGED <<armedLast, ground, buffer, restarts, tripped>>
      BY <2>5 DEF MakesCall, Makes
    <3>2. todo' \in Seq(Calls)
      BY <3>1, Rest
    <3>3. Bridge!TypeOK'
      BY <2>5, BridgeTypes DEF MakesCall, Makes, BridgeStep
    <3>4. QED
      BY <3>1, <3>2, <3>3
  <2>6. CASE Continues
    <3>1. Bridge!TypeOK'
      BY <2>6, BridgeTypes DEF BridgeStep
    <3>2. UNCHANGED <<armedLast, todo, ground, buffer, restarts, tripped>>
      BY <2>6 DEF Continues, relayVars
    <3>3. QED
      BY <3>1, <3>2
  <2>7. CASE Watchdog
    <3>1. Bridge!TypeOK'
      BY <2>7, BridgeTypes DEF Watchdog, BridgeStep
    <3>2. UNCHANGED <<armedLast, todo, ground, buffer, restarts>>
          /\ tripped' \in BOOLEAN
      BY <2>7 DEF Watchdog, relayVars
    <3>3. QED
      BY <3>1, <3>2
  <2>8. CASE Restart
    <3>1. Bridge!TypeOK'
      BY <2>8 DEF Restart, Bridge!TypeOK, Bridge!ClientPcs, Bridge!GuardPcs
    <3>2. <<>> \in Seq(Frames) /\ <<>> \in Seq(Calls) /\ Len(<<>>) = 0
      OBVIOUS
    <3>3. restarts' \in 0..MaxRestarts
      BY <2>8, SizesAssumption DEF Restart
    <3>4. buffer' \in Seq(Frames) /\ Len(buffer') <= BufferSize
          /\ todo' \in Seq(Calls)
      BY <2>8, <3>2, SizesAssumption DEF Restart
    <3>5. armedLast' \in BOOLEAN /\ tripped' \in BOOLEAN
      BY <2>8, Zenon DEF Restart
    <3>6. ground' = ground
      BY <2>8 DEF Restart
    <3>7. QED
      BY <3>1, <3>3, <3>4, <3>5, <3>6
  <2>9. CASE UNCHANGED vars
    BY <2>9 DEF vars, bridgeVars, relayVars, Bridge!TypeOK
  <2>10. QED
    BY <2>1, <2>2, <2>3, <2>4, <2>5, <2>6, <2>7, <2>8, <2>9
       DEF Next, Radio, Works
<1>3. QED
  BY <1>1, <1>2, PTL DEF Spec

-----------------------------------------------------------------------------
\* The node is about to arm the bridge: nobody has armed it, and nothing has
\* tripped.
Arming == pc[Relay] = "arm" \/ (todo # <<>> /\ Head(todo) = "activate")

\* Why the vehicle stays disarmed: only an edge of the arming bit arms, the
\* bridge is inactive between edges that fall and edges that rise, and a
\* watchdog that trips does so while the bit is up and the arming over.
EdgeInv ==
  /\ \A i \in 2..Len(todo) : todo[i] \notin {"activate", "deactivate"}
  /\ pc[Relay] # "idle" /\ todo # <<>> => Head(todo) \notin {"activate", "deactivate"}
  /\ Arming => armedLast /\ ~active
  /\ ~armedLast => ~active \/ (todo # <<>> /\ Head(todo) = "deactivate")
  /\ tripped => armedLast /\ ~active /\ ~Arming

\* What is left of a plan neither arms nor disarms.
LEMMA RestIsPlain ==
  ASSUME NEW s \in Seq(Calls), s # <<>>,
         \A i \in 2..Len(s) : s[i] \notin {"activate", "deactivate"}
  PROVE  LET r == Tail(s) IN
         /\ \A i \in 1..Len(r) : r[i] \notin {"activate", "deactivate"}
         /\ r # <<>> => Head(r) \notin {"activate", "deactivate"}
<1>1. Len(Tail(s)) = Len(s) - 1 /\ \A i \in 1..Len(s) - 1 : Tail(s)[i] = s[i + 1]
  OBVIOUS
<1>2. \A i \in 1..Len(s) - 1 : i + 1 \in 2..Len(s)
  OBVIOUS
<1>3. Tail(s) \in Seq(Calls)
  OBVIOUS
<1>4. QED
  BY <1>1, <1>2, <1>3

\* The watchdog does not arm, and leaves the other thread where it is.
LEMMA WatchdogNeverArms ==
  ASSUME Bridge!GuardStep
  PROVE  pc' = pc /\ (active' => active)
<1>1. CASE Bridge!GuardNotified \/ Bridge!GuardTimesOut \/ Bridge!GuardLoads
           \/ Bridge!GuardDecides \/ Bridge!GuardChecksHeard
  BY <1>1 DEF Bridge!GuardNotified, Bridge!GuardTimesOut, Bridge!GuardLoads,
     Bridge!GuardDecides, Bridge!GuardChecksHeard, Bridge!clientVars
<1>2. CASE Bridge!GuardChecksLimit \/ Bridge!GuardCounts \/ Bridge!GuardReloads
  BY <1>2 DEF Bridge!GuardChecksLimit, Bridge!GuardCounts,
     Bridge!GuardReloads, Bridge!clientVars
<1>3. CASE Bridge!GuardDisarms
  BY <1>3 DEF Bridge!GuardDisarms, Bridge!Disarm, Bridge!clientVars
<1>4. CASE \E o \in Bridge!Outcomes : Bridge!GuardSends(o)
  BY <1>4 DEF Bridge!GuardSends, Bridge!clientVars
<1>5. QED
  BY <1>1, <1>2, <1>3, <1>4 DEF Bridge!GuardStep

\* What arms and what disarms is the first call of a plan.
LEMMA PlanShapes ==
  /\ LET p == <<"activate", "send">> IN
       /\ p # <<>> /\ Head(p) = "activate"
       /\ \A i \in 2..Len(p) : p[i] = "send"
  /\ LET p == <<"deactivate", "reset", "send">> IN
       /\ p # <<>> /\ Head(p) = "deactivate"
       /\ \A i \in 2..Len(p) : p[i] \in {"reset", "send"}
  /\ LET p == <<"send">> IN
       /\ p # <<>> /\ Head(p) = "send"
       /\ 2..Len(p) = {}
<1>1. \A i \in 2..2 : i = 2
  OBVIOUS
<1>2. \A i \in 2..3 : i = 2 \/ i = 3
  OBVIOUS
<1>3. 2..1 = {}
  OBVIOUS
<1>4. Len(<<"activate", "send">>) = 2 /\ Len(<<"deactivate", "reset", "send">>) = 3
      /\ Len(<<"send">>) = 1
  OBVIOUS
<1>5. \A i \in 2..2 : <<"activate", "send">>[i] = "send"
  BY <1>1
<1>6. \A i \in 2..3 : <<"deactivate", "reset", "send">>[i] \in {"reset", "send"}
  BY <1>2
<1>7. QED
  BY <1>3, <1>4, <1>5, <1>6

\* Only ActivateStores sets active, and it needs pc to be "arm".
LEMMA OnlyStoresArms ==
  ASSUME TypeOK, BridgeStep
  PROVE  /\ active' => active \/ pc[Relay] = "arm"
         /\ pc'[Relay] = "arm" => \/ pc[Relay] = "arm"
                                 \/ Bridge!ActivateChecks(Relay)
<1> USE DEF Bridge!Goto, TypeOK, Bridge!TypeOK
<1>1. CASE Bridge!SendMarks(Relay) \/ Bridge!SendLoads(Relay)
           \/ Bridge!SendSettles(Relay) \/ Bridge!SendChecks(Relay)
  BY <1>1 DEF Bridge!SendMarks, Bridge!SendLoads, Bridge!SendSettles,
     Bridge!SendChecks
<1>2. CASE \E o \in Bridge!Outcomes : Bridge!SendTransmits(Relay, TRUE, o)
  BY <1>2 DEF Bridge!SendTransmits
<1>3. CASE Bridge!ActivateStores(Relay) \/ Bridge!ResetForgets(Relay)
           \/ Bridge!ResetClears(Relay)
  BY <1>3 DEF Bridge!ActivateStores, Bridge!ResetForgets, Bridge!ResetClears
<1>4. CASE Bridge!Deactivate(Relay)
  BY <1>4 DEF Bridge!Deactivate, Bridge!Disarm, Bridge!clientVars
<1>5. CASE Bridge!ActivateChecks(Relay)
  BY <1>5 DEF Bridge!ActivateChecks
<1>6. CASE Bridge!GuardStep
  BY <1>6, WatchdogNeverArms
<1>7. QED
  BY <1>1, <1>2, <1>3, <1>4, <1>5, <1>6 DEF BridgeStep, Continues

\* After the watchdog has disarmed the vehicle, no sequence of armed frames,
\* delayed packets and timeouts arms it again before a frame says "disarmed".
THEOREM RearmsAfterDisarmOnly == Spec => []RearmNeedsDisarm
<1> USE DEF EdgeInv, Arming
<1>1. Init => EdgeInv
  BY DEF Init, Bridge!Init
<1>2. TypeOK /\ EdgeInv /\ [Next]_vars => EdgeInv'
  <2> SUFFICES ASSUME TypeOK, EdgeInv, [Next]_vars PROVE EdgeInv'
    OBVIOUS
  <2>1. CASE GroundChanges \/ (\E f \in Frames : Collects(f)) \/ Discards
             \/ UNCHANGED vars
    BY <2>1 DEF GroundChanges, Collects, Discards, vars, bridgeVars, relayVars
  <2>2. CASE Receives
    <3>1. PICK f \in {"armed", "disarmed"} :
                   /\ todo' = CallsFor(f)
                   /\ armedLast' = (f = "armed")
                   /\ tripped' = (tripped /\ f = "armed")
      BY <2>2 DEF Receives, Decodes, TypeOK, Frames
    <3>2. UNCHANGED bridgeVars /\ todo = <<>> /\ pc[Relay] = "idle"
      BY <2>2 DEF Receives, Idle
    <3>3. active' = active /\ pc' = pc
      BY <3>2 DEF bridgeVars
    <3>4. CASE f = "armed" /\ ~armedLast
      <4>1. todo' = <<"activate", "send">>
        BY <3>1, <3>4 DEF CallsFor
      <4>2. QED
        BY <3>1, <3>2, <3>3, <3>4, <4>1, PlanShapes
    <3>5. CASE f = "disarmed" /\ armedLast
      <4>1. todo' = <<"deactivate", "reset", "send">>
        BY <3>1, <3>5 DEF CallsFor
      <4>2. QED
        BY <3>1, <3>2, <3>3, <3>5, <4>1, PlanShapes
    <3>6. CASE ~(f = "armed" /\ ~armedLast) /\ ~(f = "disarmed" /\ armedLast)
      <4>1. todo' = <<"send">>
        BY <3>1, <3>6 DEF CallsFor
      <4>2. QED
        BY <3>1, <3>2, <3>3, <3>6, <4>1, PlanShapes
    <3>7. QED
      BY <3>4, <3>5, <3>6
  <2>3. CASE MakesCall
    <3>1. /\ todo \in Seq(Calls) /\ todo # <<>> /\ todo' = Tail(todo)
          /\ UNCHANGED <<armedLast, tripped>>
      BY <2>3 DEF MakesCall, Makes, TypeOK
    <3>2. /\ \A i \in 2..Len(todo') : todo'[i] \notin {"activate", "deactivate"}
          /\ todo' # <<>> => Head(todo') \notin {"activate", "deactivate"}
      BY <3>1, RestIsPlain
    <3>3. pc[Relay] = "idle"
      BY <2>3 DEF MakesCall
    <3>4. active' => active
      BY <2>3, <3>3, OnlyStoresArms DEF MakesCall, Makes, BridgeStep
    <3>5. pc'[Relay] = "arm" => Head(todo) = "activate"
      <4>1. CASE Makes("activate", Bridge!ActivateChecks(Relay))
        BY <4>1 DEF Makes
      <4>2. CASE Makes("deactivate", Bridge!Deactivate(Relay))
        BY <3>3, <4>2 DEF Makes, Bridge!Deactivate, Bridge!clientVars
      <4>3. CASE Makes("reset", Bridge!ResetClears(Relay))
        BY <4>3 DEF Makes, Bridge!ResetClears, Bridge!Goto, TypeOK,
           Bridge!TypeOK
      <4>4. CASE Makes("send", Bridge!SendChecks(Relay))
        BY <4>4 DEF Makes, Bridge!SendChecks, Bridge!Goto, TypeOK,
           Bridge!TypeOK
      <4>5. QED
        BY <2>3, <4>1, <4>2, <4>3, <4>4 DEF MakesCall
    <3>6. Head(todo) = "deactivate" => ~active'
      BY <2>3 DEF MakesCall, Makes, Bridge!Deactivate, Bridge!Disarm
    <3>7. QED
      BY <3>1, <3>2, <3>4, <3>5, <3>6
  <2>4. CASE Continues
    <3>1. UNCHANGED <<armedLast, todo, tripped>>
      BY <2>4 DEF Continues, relayVars
    <3>2. CASE Bridge!ActivateStores(Relay)
      <4>1. pc[Relay] = "arm" /\ pc'[Relay] = "idle"
        BY <3>2 DEF Bridge!ActivateStores, Bridge!Goto, TypeOK, Bridge!TypeOK
      <4>2. QED
        BY <3>1, <4>1
    <3>3. CASE ~Bridge!ActivateStores(Relay)
      <4>1. pc[Relay] \notin {"arm", "idle"}
        BY <2>4, <3>3 DEF Continues, Bridge!SendMarks, Bridge!SendLoads,
           Bridge!SendTransmits, Bridge!SendSettles, Bridge!ResetForgets
      <4>2. (active' => active) /\ pc'[Relay] # "arm"
        BY <2>4, <3>3, <4>1, OnlyStoresArms
           DEF BridgeStep, Continues, Bridge!ActivateChecks, Bridge!SendMarks,
           Bridge!SendLoads, Bridge!SendTransmits, Bridge!SendSettles,
           Bridge!ResetForgets
      <4>3. QED
        BY <3>1, <4>1, <4>2
    <3>4. QED
      BY <3>2, <3>3
  <2>5. CASE Watchdog
    <3>1. /\ UNCHANGED <<armedLast, todo>> /\ pc' = pc /\ (active' => active)
          /\ tripped' => tripped \/ (active /\ ~active' /\ armedLast)
      BY <2>5, WatchdogNeverArms DEF Watchdog, relayVars
    <3>2. Arming' <=> Arming
      BY <3>1
    <3>3. QED
      BY <3>1, <3>2
  <2>6. CASE Restart
    <3>1. /\ active' = FALSE /\ armedLast' = FALSE /\ tripped' = FALSE
          /\ todo' = <<>>
      BY <2>6 DEF Restart
    <3>2. pc'[Relay] = "idle"
      BY <2>6 DEF Restart, TypeOK, Bridge!TypeOK
    <3>3. 2..Len(<<>>) = {}
      OBVIOUS
    <3>4. QED
      BY <3>1, <3>2, <3>3
  <2>7. QED
    BY <2>1, <2>2, <2>3, <2>4, <2>5, <2>6 DEF Next, Radio, Works
<1>3. EdgeInv => RearmNeedsDisarm
  BY DEF RearmNeedsDisarm
<1>4. QED
  BY <1>1, <1>2, <1>3, TypeCorrect, PTL DEF Spec

=============================================================================
