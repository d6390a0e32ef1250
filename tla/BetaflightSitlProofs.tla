------------------------ MODULE BetaflightSitlProofs ------------------------
(***************************************************************************)
(* Safety of the SITL application, with its bridge and its watchdog, for   *)
(* every limit of timeouts and every length of the two phases.             *)
(***************************************************************************)
EXTENDS BetaflightSitl, TLAPS

-----------------------------------------------------------------------------
\* What a step of the bridge does to the bridge's variables keeps their types.
LEMMA BridgeTypes ==
  ASSUME Bridge!TypeOK,
         Continues \/ Bridge!GuardStep \/ Bridge!SendChecks(Main)
         \/ Bridge!ActivateChecks(Main) \/ Bridge!Deactivate(Main)
         \/ Bridge!ResetClears(Main) \/ UNCHANGED bridgeVars
  PROVE  Bridge!TypeOK'
<1> USE DEF Bridge!TypeOK, Bridge!ClientPcs, Bridge!GuardPcs, Bridge!Packets,
            Bridge!Threads, Bridge!Goto, Bridge!guardVars, Bridge!clientVars
<1>1. CASE Bridge!SendMarks(Main)
  BY <1>1 DEF Bridge!SendMarks
<1>2. CASE Bridge!SendLoads(Main)
  BY <1>2 DEF Bridge!SendLoads
<1>3. ASSUME NEW valid \in BOOLEAN, NEW o \in Bridge!Outcomes,
             Bridge!SendTransmits(Main, valid, o)
      PROVE Bridge!TypeOK'
  <2>1. receiver' \in Bridge!Packets /\ stale' \subseteq Bridge!Threads
    BY <1>3 DEF Bridge!SendTransmits, Bridge!Transmit, Bridge!Packet
  <2>2. QED
    BY <1>3, <2>1 DEF Bridge!SendTransmits
<1>4. CASE Bridge!SendSettles(Main)
  BY <1>4 DEF Bridge!SendSettles
<1>5. CASE Bridge!ActivateStores(Main) \/ Bridge!ResetForgets(Main)
  BY <1>5 DEF Bridge!ActivateStores, Bridge!ResetForgets
<1>6. CASE Bridge!SendChecks(Main) \/ Bridge!ActivateChecks(Main)
           \/ Bridge!ResetClears(Main)
  BY <1>6 DEF Bridge!SendChecks, Bridge!ActivateChecks, Bridge!ResetClears
<1>7. CASE Bridge!Deactivate(Main)
  BY <1>7 DEF Bridge!Deactivate, Bridge!Disarm
<1>8. CASE Bridge!GuardStep
  <2>1. CASE Bridge!GuardNotified \/ Bridge!GuardTimesOut \/ Bridge!GuardLoads
             \/ Bridge!GuardDecides
    BY <2>1 DEF Bridge!GuardNotified, Bridge!GuardTimesOut, Bridge!GuardLoads,
                Bridge!GuardDecides, Bridge!GuardMoves
  <2>2. CASE Bridge!GuardChecksHeard \/ Bridge!GuardChecksLimit
             \/ Bridge!GuardCounts
    BY <2>2 DEF Bridge!GuardChecksHeard, Bridge!GuardChecksLimit,
                Bridge!GuardCounts, Bridge!GuardMoves
  <2>3. CASE Bridge!GuardDisarms \/ Bridge!GuardReloads
    BY <2>3 DEF Bridge!GuardDisarms, Bridge!GuardReloads, Bridge!Disarm,
                Bridge!GuardMoves
  <2>4. ASSUME NEW o \in Bridge!Outcomes, Bridge!GuardSends(o)
        PROVE Bridge!TypeOK'
    <3>1. receiver' \in Bridge!Packets /\ stale' \subseteq Bridge!Threads
      BY <2>4 DEF Bridge!GuardSends, Bridge!Transmit, Bridge!Packet
    <3>2. QED
      BY <2>4, <3>1 DEF Bridge!GuardSends, Bridge!GuardMoves
  <2>5. QED
    BY <1>8, <2>1, <2>2, <2>3, <2>4 DEF Bridge!GuardStep
<1>9. CASE UNCHANGED bridgeVars
  BY <1>9 DEF bridgeVars
<1>10. QED
  BY <1>1, <1>2, <1>3, <1>4, <1>5, <1>6, <1>7, <1>8, <1>9 DEF Continues

\* The variables of the main loop keep their types.
LoopTypes ==
  /\ arm \in BOOLEAN
  /\ odom \in Odometry
  /\ stopRequested \in BOOLEAN
  /\ at \in Labels
  /\ phase \in Phases
  /\ elapsed \in 0..Duration[phase]
  /\ todo \in 0..7

\* Every step of the system is one of these steps of the bridge, or its last.
LEMMA BridgeStep ==
  ASSUME [Next]_vars
  PROVE  \/ Continues \/ Bridge!GuardStep \/ Bridge!SendChecks(Main)
         \/ Enables \/ Bridge!Deactivate(Main)
         \/ Bridge!ResetClears(Main) \/ UNCHANGED bridgeVars
         \/ \E o \in Bridge!Outcomes : SaysFarewell(o)
<1>1. CASE MainStep
  <2>1. CASE StopsSafely
    BY <2>1 DEF StopsSafely
  <2>2. CASE ~StopsSafely
    BY <1>1, <2>2 DEF MainStep, StopsOnSignal, Waits, RejectsOdometry,
       RejectsSensors, Accepts, SendsSafe, Enables, ChecksEnabled, RunsPipeline,
       ChecksBridge, Starts, EndsCycle, Destroys, Joins
  <2>3. QED
    BY <2>1, <2>2
<1>2. CASE Watchdog
  BY <1>2 DEF Watchdog
<1>3. CASE OdometryArrives \/ OdometryAges \/ Signal \/ UNCHANGED vars
  BY <1>3 DEF OdometryArrives, OdometryAges, Signal, vars
<1>4. QED
  BY <1>1, <1>2, <1>3 DEF Next

\* The system keeps its types; the clock of a phase never runs past its length.
THEOREM TypeCorrect == Spec => []TypeOK
<1>1. Init => TypeOK
  <2> SUFFICES ASSUME Init PROVE TypeOK
    OBVIOUS
  <2>1. Bridge!TypeOK
    <3>1. pc \in [{Main} -> Bridge!ClientPcs] /\ sees \in [{Main} -> BOOLEAN]
      BY DEF Init, Bridge!Init, Bridge!ClientPcs
    <3>2. QED
      BY <3>1 DEF Init, Bridge!Init, Bridge!TypeOK, Bridge!GuardPcs,
                  Bridge!Packets
  <2>2. QED
    <3>1. elapsed \in 0..Duration[phase]
      BY TimesAssumption DEF Init, Phases, Duration
    <3>2. odom \in Odometry /\ at \in Labels /\ phase \in Phases
      BY DEF Init, Odometry, Labels, Phases
    <3>3. arm \in BOOLEAN /\ stopRequested \in BOOLEAN
      BY Zenon DEF Init
    <3>4. todo \in 0..7
      BY DEF Init
    <3>5. QED
      BY <2>1, <3>1, <3>2, <3>3, <3>4 DEF TypeOK
<1>2. TypeOK /\ [Next]_vars => TypeOK'
  <2> SUFFICES ASSUME TypeOK, [Next]_vars PROVE TypeOK'
    OBVIOUS
  <2>1. Bridge!TypeOK'
    <3>1. ASSUME NEW o \in Bridge!Outcomes, SaysFarewell(o)
          PROVE  Bridge!TypeOK'
      <4>1. receiver' \in Bridge!Packets /\ stale' \subseteq Bridge!Threads
        BY <3>1 DEF SaysFarewell, Bridge!Transmit, Bridge!Packets,
                    Bridge!Threads, TypeOK, Bridge!TypeOK
      <4>2. QED
        BY <3>1, <4>1 DEF SaysFarewell, TypeOK, Bridge!TypeOK
    <3>2. QED
      BY <3>1, BridgeStep, BridgeTypes DEF TypeOK, Enables
  <2>2. LoopTypes'
    <3> USE TimesAssumption DEF TypeOK, LoopTypes, Odometry, Labels, Phases,
            inputs, loopVars, Goto, Leave, Stay, Calls
    <3>1. CASE Continues \/ Watchdog
      BY <3>1 DEF Continues, Watchdog
    <3>2. CASE OdometryArrives \/ OdometryAges \/ Signal
      BY <3>2 DEF OdometryArrives, OdometryAges, Signal
    <3>3. CASE StopsOnSignal \/ Waits \/ RejectsOdometry \/ RejectsSensors
      BY <3>3 DEF StopsOnSignal, Waits, RejectsOdometry, RejectsSensors
    <3>4. CASE Accepts
      BY <3>4 DEF Accepts, Duration
    <3>5. CASE SendsSafe \/ Enables \/ RunsPipeline \/ EndsCycle
      BY <3>5 DEF SendsSafe, Enables, RunsPipeline, EndsCycle
    <3>6. CASE ChecksEnabled
      BY <3>6 DEF ChecksEnabled, Duration
    <3>7. CASE ChecksBridge
      BY <3>7 DEF ChecksBridge
    <3>8. CASE Starts
      BY <3>8 DEF Starts, Duration
    <3>9. CASE StopsSafely \/ Destroys \/ Joins
      BY <3>9 DEF StopsSafely, Destroys, Joins
    <3>10. CASE \E o \in Bridge!Outcomes : SaysFarewell(o)
      BY <3>10 DEF SaysFarewell
    <3>11. CASE UNCHANGED vars
      BY <3>11 DEF vars
    <3>12. QED
      BY <3>1, <3>2, <3>3, <3>4, <3>5, <3>6, <3>7, <3>8, <3>9, <3>10, <3>11
         DEF Next, MainStep
  <2>3. QED
    BY <2>1, <2>2 DEF TypeOK, LoopTypes
<1>3. QED
  BY <1>1, <1>2, PTL DEF Spec

-----------------------------------------------------------------------------
\* The user asked for it, and the hold with a low arming channel is over.
MayBeArmed == arm /\ (phase \in Armed \/ (phase = "DISARM" /\ elapsed = Hold))

\* Wherever an armed packet can come from: the vehicle has it already, the
\* bridge is active or about to be, or a thread has loaded active_ as TRUE.
ArmedInv ==
  /\ receiver # "safe" => MayBeArmed
  /\ active \/ pc[Main] = "arm" \/ sees[Main] \/ guardSees => MayBeArmed

\* No packet that arms the vehicle arrives there, from the main loop or from
\* the watchdog, unless --arm was given and the hold is over.
THEOREM ArmsOnlyAfterHold == Spec => []ArmedOnlyAfterHold
<1>1. Init => ArmedInv
  BY DEF Init, Bridge!Init, ArmedInv, Main
<1>2. TypeOK /\ ArmedInv /\ [Next]_vars => ArmedInv'
  <2> SUFFICES ASSUME TypeOK, ArmedInv, [Next]_vars PROVE ArmedInv'
    OBVIOUS
  <2>1. MayBeArmed => MayBeArmed'
    <3> SUFFICES ASSUME MayBeArmed PROVE MayBeArmed'
      OBVIOUS
    <3> USE DEF MayBeArmed, Armed, inputs, loopVars, Stay, Goto
    <3>1. CASE Accepts
      <4>1. phase = "DISARM" => elapsed' \in Hold..Hold
        BY <3>1 DEF Accepts, Duration, Phases
      <4>2. QED
        BY <3>1, <4>1, TimesAssumption DEF Accepts
    <3>2. CASE ChecksEnabled \/ Starts
      BY <3>2 DEF ChecksEnabled, Starts
    <3>3. CASE Continues \/ Watchdog \/ OdometryArrives \/ OdometryAges
               \/ Signal \/ UNCHANGED vars
      BY <3>3 DEF Continues, Watchdog, OdometryArrives, OdometryAges, Signal,
                  vars
    <3>4. CASE StopsOnSignal \/ Waits \/ RejectsOdometry \/ RejectsSensors
               \/ SendsSafe \/ Enables \/ RunsPipeline
      BY <3>4 DEF StopsOnSignal, Waits, RejectsOdometry, RejectsSensors,
                  SendsSafe, Enables, RunsPipeline
    <3>5. CASE ChecksBridge \/ EndsCycle \/ StopsSafely \/ Destroys \/ Joins
               \/ \E o \in Bridge!Outcomes : SaysFarewell(o)
      BY <3>5 DEF ChecksBridge, EndsCycle, StopsSafely, Destroys, Joins,
                  SaysFarewell
    <3>6. QED
      BY <3>1, <3>2, <3>3, <3>4, <3>5 DEF Next, MainStep
  <2>2. CASE Enables
    <3>1. MayBeArmed
      <4>1. elapsed \in 0..Hold
        BY <2>2 DEF Enables, TypeOK, Duration, Phases
      <4>2. QED
        BY <2>2, <4>1, TimesAssumption DEF Enables, MayBeArmed
    <3>2. QED
      BY <2>1, <3>1 DEF ArmedInv
  <2>3. CASE Continues
    <3> USE <2>1 DEF ArmedInv, TypeOK, Bridge!TypeOK, Bridge!Goto,
            Bridge!guardVars
    <3>1. CASE Bridge!SendMarks(Main)
      BY <3>1 DEF Bridge!SendMarks
    <3>2. CASE Bridge!SendLoads(Main)
      BY <3>2 DEF Bridge!SendLoads
    <3>3. ASSUME NEW valid \in BOOLEAN, NEW o \in Bridge!Outcomes,
                 Bridge!SendTransmits(Main, valid, o)
          PROVE ArmedInv'
      <4>1. receiver' # "safe" => receiver # "safe" \/ sees[Main]
        BY <3>3 DEF Bridge!SendTransmits, Bridge!Transmit, Bridge!Packet
      <4>2. QED
        BY <3>3, <4>1 DEF Bridge!SendTransmits
    <3>4. CASE Bridge!SendSettles(Main)
      BY <3>4 DEF Bridge!SendSettles
    <3>5. CASE Bridge!ActivateStores(Main) \/ Bridge!ResetForgets(Main)
      BY <3>5 DEF Bridge!ActivateStores, Bridge!ResetForgets
    <3>6. QED
      BY <2>3, <3>1, <3>2, <3>3, <3>4, <3>5 DEF Continues
  <2>4. CASE Bridge!GuardStep
    <3> USE <2>1 DEF ArmedInv, Bridge!clientVars, Bridge!guardVars,
            Bridge!GuardMoves
    <3>1. CASE Bridge!GuardNotified \/ Bridge!GuardTimesOut \/ Bridge!GuardLoads
               \/ Bridge!GuardDecides
      BY <3>1 DEF Bridge!GuardNotified, Bridge!GuardTimesOut,
                  Bridge!GuardLoads, Bridge!GuardDecides
    <3>2. CASE Bridge!GuardChecksHeard \/ Bridge!GuardChecksLimit
               \/ Bridge!GuardCounts
      BY <3>2 DEF Bridge!GuardChecksHeard, Bridge!GuardChecksLimit,
                  Bridge!GuardCounts
    <3>3. CASE Bridge!GuardDisarms \/ Bridge!GuardReloads
      BY <3>3 DEF Bridge!GuardDisarms, Bridge!GuardReloads, Bridge!Disarm
    <3>4. ASSUME NEW o \in Bridge!Outcomes, Bridge!GuardSends(o)
          PROVE ArmedInv'
      <4>1. receiver' # "safe" => receiver # "safe" \/ guardSees
        BY <3>4 DEF Bridge!GuardSends, Bridge!Transmit, Bridge!Packet
      <4>2. QED
        BY <3>4, <4>1 DEF Bridge!GuardSends
    <3>5. QED
      BY <2>4, <3>1, <3>2, <3>3, <3>4 DEF Bridge!GuardStep
  <2>5. CASE Bridge!SendChecks(Main) \/ Bridge!ResetClears(Main)
             \/ Bridge!Deactivate(Main) \/ UNCHANGED bridgeVars
    BY <2>1, <2>5 DEF ArmedInv, TypeOK, Bridge!TypeOK, Bridge!SendChecks,
       Bridge!ResetClears, Bridge!Deactivate, Bridge!Disarm, Bridge!Goto,
       Bridge!guardVars, Bridge!clientVars, bridgeVars
  <2>6. CASE \E o \in Bridge!Outcomes : SaysFarewell(o)
    BY <2>1, <2>6 DEF ArmedInv, SaysFarewell, Bridge!Transmit
  <2>7. QED
    BY <2>2, <2>3, <2>4, <2>5, <2>6, BridgeStep
<1>3. ArmedInv => ArmedOnlyAfterHold
  BY DEF ArmedInv, MayBeArmed, ArmedOnlyAfterHold
<1>4. QED
  BY <1>1, <1>2, <1>3, TypeCorrect, PTL DEF Spec

-----------------------------------------------------------------------------
\* Once the watchdog is joined, no thread is in the middle of anything.
JoinedInv ==
  /\ at \in {"join", "farewell"} \cup Ended => pc[Main] = "idle"
  /\ at \in {"farewell"} \cup Ended => guardPc = "waiting"
  /\ at = "gone" => receiver = "safe"

\* If the packet the destructor of the bridge sends arrives, it is the last one
\* the vehicle ever gets: the watchdog has been joined before.
THEOREM LeavesDisarmed == Spec => []GoneIsDisarmed
<1> USE DEF JoinedInv, Ended
<1>1. Init => JoinedInv
  BY DEF Init
<1>2. JoinedInv /\ [Next]_vars => JoinedInv'
  <2> SUFFICES ASSUME JoinedInv, [Next]_vars PROVE JoinedInv'
    OBVIOUS
  <2> USE DEF Idle, Goto, Leave, bridgeVars, loopVars, inputs
  <2>1. CASE Continues
    BY <2>1 DEF Continues, Bridge!SendMarks, Bridge!SendLoads,
       Bridge!SendTransmits, Bridge!SendSettles, Bridge!ActivateStores,
       Bridge!ResetForgets
  <2>2. CASE Watchdog
    <3>1. at \notin {"join", "farewell"} \cup Ended \/ guardPc # "waiting"
      BY <2>2 DEF Watchdog
    <3>2. at' = at /\ pc' = pc /\ at \notin {"farewell"} \cup Ended
      BY <2>2, <3>1 DEF Watchdog, Bridge!GuardStep, Bridge!GuardNotified,
         Bridge!GuardTimesOut, Bridge!GuardLoads, Bridge!GuardDecides,
         Bridge!GuardChecksHeard, Bridge!GuardChecksLimit, Bridge!GuardCounts,
         Bridge!GuardDisarms, Bridge!GuardReloads, Bridge!GuardSends,
         Bridge!clientVars
    <3>3. QED
      BY <3>2
  <2>3. CASE OdometryArrives \/ OdometryAges \/ Signal \/ UNCHANGED vars
    BY <2>3 DEF OdometryArrives, OdometryAges, Signal, vars
  <2>4. CASE Destroys \/ Joins
    BY <2>4 DEF Destroys, Joins
  <2>5. ASSUME NEW o \in Bridge!Outcomes, SaysFarewell(o) PROVE JoinedInv'
    BY <2>5 DEF SaysFarewell, Bridge!Transmit
  <2>6. CASE MainStep /\ at \in {"loop", "control", "enabled", "check", "start",
                                 "end", "stopping"} /\ ~Continues /\ ~Destroys
    <3>1. at' \in {"loop", "control", "enabled", "check", "start", "end",
                   "stopping"}
      BY <2>6 DEF MainStep, StopsOnSignal, Waits, RejectsOdometry,
         RejectsSensors, Accepts, SendsSafe, Enables, ChecksEnabled,
         RunsPipeline, ChecksBridge, Starts, EndsCycle, StopsSafely, Joins,
         SaysFarewell
    <3>2. QED
      BY <3>1
  <2>7. QED
    BY <2>1, <2>2, <2>3, <2>4, <2>5, <2>6 DEF Next, MainStep, StopsOnSignal,
       Waits, RejectsOdometry, RejectsSensors, Accepts, SendsSafe, Enables,
       ChecksEnabled, RunsPipeline, ChecksBridge, Starts, EndsCycle, StopsSafely
<1>3. JoinedInv => GoneIsDisarmed
  BY DEF GoneIsDisarmed
<1>4. QED
  BY <1>1, <1>2, <1>3, PTL DEF Spec

=============================================================================
