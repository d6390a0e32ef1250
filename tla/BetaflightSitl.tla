--------------------------- MODULE BetaflightSitl ---------------------------
(***************************************************************************)
(* The SITL application (src/agilib/apps/betaflight_sitl.cpp): its main    *)
(* loop from the wait for odometry to the last packet, composed with the   *)
(* bridge it owns and the bridge's watchdog.                               *)
(*                                                                         *)
(* The main thread is the bridge's only client.  A call of the bridge      *)
(* starts in an action below and goes on, atomic by atomic, in Continues;  *)
(* meanwhile `at' tells where the main loop goes on.  Gazebo's threads     *)
(* fill the odometry mailbox, and a signal asks the program to stop, at    *)
(* any time.                                                               *)
(*                                                                         *)
(* The configurations of this application fly without a guard.  What a     *)
(* control cycle computes is module Pipeline; here it sends a command or   *)
(* none.                                                                   *)
(***************************************************************************)
EXTENDS Integers, Sequences

CONSTANTS
  MaxTimeouts,   \* n_timeouts_for_lock of the bridge
  Hold,          \* options.disarmed_seconds, in steps of simulated time
  Prearm         \* options.prearm_seconds

ASSUME TimesAssumption == Hold \in Nat /\ Prearm \in Nat

Main == "main"

VARIABLES
  active, nTimeouts, gotCommand, notified, pc, sees, guardPc, guardSees,
  receiver, stale,
  arm,           \* options.arm
  odom,          \* what latest_odometry would return
  stopRequested, \* stop_requested, set by the signal handler
  at,            \* where the main thread is
  phase,         \* have_valid_state, enabled, flight_started: the mode printed
  elapsed,       \* simulated time spent in the phase, as far as it matters
  todo           \* bridge calls of SafeStopGuard still to be made

Bridge == INSTANCE BridgeBase WITH Clients <- {Main}

bridgeVars == <<active, nTimeouts, gotCommand, notified, pc, sees, guardPc,
                guardSees, receiver, stale>>
loopVars == <<at, phase, elapsed, todo>>
inputs == <<arm, odom, stopRequested>>
vars == <<bridgeVars, loopVars, inputs>>

Odometry == {"none", "fresh", "stale", "bad"}
Phases == {"WAIT", "DISARM", "PREARM", "FLIGHT"}
Labels == {"loop", "control", "enabled", "check", "start", "end",
           "stopping", "join", "farewell", "gone", "unheard"}

\* The phases in which the main loop believes the vehicle armed: `enabled'.
Armed == {"PREARM", "FLIGHT"}

\* The program has ended; its last packet arrived, or it did not.
Ended == {"gone", "unheard"}

\* How long a phase lasts at least.
Duration == [p \in Phases |-> IF p = "DISARM" THEN Hold
                              ELSE IF p = "PREARM" THEN Prearm ELSE 0]

TypeOK ==
  /\ Bridge!TypeOK
  /\ arm \in BOOLEAN
  /\ odom \in Odometry
  /\ stopRequested \in BOOLEAN
  /\ at \in Labels
  /\ phase \in Phases
  /\ elapsed \in 0..Duration[phase]
  /\ todo \in 0..7

Init ==
  /\ Bridge!Init
  /\ arm \in BOOLEAN
  /\ odom = "none"
  /\ stopRequested = FALSE
  /\ at = "loop"
  /\ phase = "WAIT"
  /\ elapsed = 0
  /\ todo = 0

-----------------------------------------------------------------------------
(***************************************************************************)
(* Other threads                                                           *)
(***************************************************************************)
\* Gazebo publishes: a usable message, or one without stamp, pose or twist, or
\* with values that are not finite.
OdometryArrives ==
  /\ at \notin Ended
  /\ odom' \in {"fresh", "bad"}
  /\ UNCHANGED <<bridgeVars, loopVars, arm, stopRequested>>

\* Nothing has arrived for more than stale_limit_seconds.
OdometryAges ==
  /\ odom = "fresh"
  /\ odom' = "stale"
  /\ UNCHANGED <<bridgeVars, loopVars, arm, stopRequested>>

Signal ==
  /\ ~stopRequested
  /\ stopRequested' = TRUE
  /\ UNCHANGED <<bridgeVars, loopVars, arm, odom>>

\* Mutated form of Watchdog: shutdown_ is not looked at.
WatchdogIgnoresShutdown ==
  /\ Bridge!GuardStep
  /\ UNCHANGED <<loopVars, inputs>>

\* Once the destructor of the bridge has set shutdown_, a watchdog that waits
\* does nothing any more; one that does not wait finishes what it is at.
Watchdog ==
  /\ at \in {"join", "farewell"} \cup Ended => guardPc # "waiting"
  /\ Bridge!GuardStep
  /\ UNCHANGED <<loopVars, inputs>>

-----------------------------------------------------------------------------
(***************************************************************************)
(* Main loop                                                               *)
(***************************************************************************)
Idle(label) == at = label /\ pc[Main] = "idle"

Stay == UNCHANGED <<phase, elapsed>>

\* Leave the loop.  SafeStopGuard runs as many bridge calls as n says.
Leave(n) == at' = "stopping" /\ todo' = n

\* Pilot::off() deactivates and resets the bridge the pilot uses, if that is
\* this one; then sendSafe() does it again and sends three times.
ExitCalls == <<"deactivate", "reset", "deactivate", "reset",
               "send", "send", "send">>
Calls == IF phase \in Armed THEN 7 ELSE 5

Goto(label) == at' = label /\ UNCHANGED todo

\* The rest of a call of the bridge: send(), activate() or reset().
Continues ==
  /\ \/ Bridge!SendMarks(Main)
     \/ Bridge!SendLoads(Main)
     \/ \E valid \in BOOLEAN, o \in Bridge!Outcomes :
          Bridge!SendTransmits(Main, valid, o)
     \/ Bridge!SendSettles(Main)
     \/ Bridge!ActivateStores(Main)
     \/ Bridge!ResetForgets(Main)
  /\ UNCHANGED <<loopVars, inputs>>

StopsOnSignal ==
  /\ Idle("loop")
  /\ stopRequested
  /\ Leave(Calls)
  /\ Stay
  /\ UNCHANGED <<bridgeVars, inputs>>

\* No odometry yet: a safe packet, and an end to it after startup_timeout.
\* Which of the two comes first after 30 s does not matter to anybody.
Waits ==
  /\ Idle("loop")
  /\ ~stopRequested
  /\ odom = "none"
  /\ Bridge!SendChecks(Main)
  /\ Goto("loop") \/ Leave(Calls)
  /\ Stay
  /\ UNCHANGED inputs

\* Mutated form of RejectsOdometry: the age of the message is not looked at.
RejectsOnlyBad ==
  /\ Idle("loop")
  /\ ~stopRequested
  /\ odom = "bad"
  /\ Leave(Calls)
  /\ Stay
  /\ UNCHANGED <<bridgeVars, inputs>>

RejectsOdometry ==
  /\ Idle("loop")
  /\ ~stopRequested
  /\ odom \in {"stale", "bad"}
  /\ Leave(Calls)
  /\ Stay
  /\ UNCHANGED <<bridgeVars, inputs>>

\* The companion IMU, the AHRS or the MSP monitor is not what it should be.
RejectsSensors ==
  /\ Idle("loop")
  /\ ~stopRequested
  /\ odom = "fresh"
  /\ Leave(Calls)
  /\ Stay
  /\ UNCHANGED <<bridgeVars, inputs>>

\* The message becomes the estimate.  Time is that of its stamp: it may not
\* have moved since the last cycle, or by a lot.
Accepts ==
  /\ Idle("loop")
  /\ ~stopRequested
  /\ odom = "fresh"
  /\ phase' = IF phase = "WAIT" THEN "DISARM" ELSE phase
  /\ IF phase = "WAIT" THEN elapsed' = 0
                       ELSE elapsed' \in elapsed..Duration[phase]
  /\ Goto("control")
  /\ UNCHANGED <<bridgeVars, inputs>>

\* Not armed, or not yet: the arming channel is kept low.
SendsSafe ==
  /\ Idle("control")
  /\ phase = "DISARM"
  /\ arm => elapsed < Hold
  /\ Bridge!SendChecks(Main)
  /\ Goto("end")
  /\ Stay
  /\ UNCHANGED inputs

\* Mutated form of Enables: the hold with a low arming channel is skipped.
EnablesAtOnce ==
  /\ Idle("control")
  /\ phase = "DISARM"
  /\ arm
  /\ Bridge!ActivateChecks(Main)
  /\ Goto("enabled")
  /\ Stay
  /\ UNCHANGED inputs

\* pilot->enable(true)
Enables ==
  /\ Idle("control")
  /\ phase = "DISARM"
  /\ arm
  /\ elapsed >= Hold
  /\ Bridge!ActivateChecks(Main)
  /\ Goto("enabled")
  /\ Stay
  /\ UNCHANGED inputs

\* pilot->enabled() is asked; the pilot uses this bridge now, active or not.
ChecksEnabled ==
  /\ Idle("enabled")
  /\ IF active THEN /\ phase' = "PREARM"
                    /\ elapsed' = 0
                    /\ Goto("control")
               ELSE Stay /\ Leave(7)
  /\ UNCHANGED <<bridgeVars, inputs>>

\* pilot->runPipeline() sends a command, or a stage of it fails and it does not.
RunsPipeline ==
  /\ Idle("control")
  /\ phase \in Armed
  /\ Bridge!SendChecks(Main) \/ UNCHANGED bridgeVars
  /\ Goto("check")
  /\ Stay
  /\ UNCHANGED inputs

\* Mutated form of ChecksBridge: nobody looks.
TrustsBridge ==
  /\ Idle("check")
  /\ Goto(IF phase = "PREARM" /\ elapsed >= Prearm THEN "start" ELSE "end")
  /\ Stay
  /\ UNCHANGED <<bridgeVars, inputs>>

\* locked(), active() and enabled() are read one after the other; only this
\* thread unlocks or activates, so one look at all of them comes to the same.
ChecksBridge ==
  /\ Idle("check")
  /\ IF Bridge!locked \/ ~active
     THEN Leave(7)
     ELSE Goto(IF phase = "PREARM" /\ elapsed >= Prearm THEN "start" ELSE "end")
  /\ Stay
  /\ UNCHANGED <<bridgeVars, inputs>>

\* Mutated form of Starts: the time in the phase goes on from its old value.
StartsLate ==
  /\ Idle("start")
  /\ \/ /\ phase' = "FLIGHT"
        /\ UNCHANGED elapsed
        /\ Goto("end")
     \/ Stay /\ Leave(7)
  /\ UNCHANGED <<bridgeVars, inputs>>

\* pilot->start(), and the trajectory behind it; either can fail or throw.
Starts ==
  /\ Idle("start")
  /\ \/ /\ phase' = "FLIGHT"
        /\ elapsed' = 0
        /\ Goto("end")
     \/ Stay /\ Leave(7)
  /\ UNCHANGED <<bridgeVars, inputs>>

\* The duration of the flight may be over; otherwise the loop goes on.
EndsCycle ==
  /\ Idle("end")
  /\ Goto("loop") \/ Leave(Calls)
  /\ Stay
  /\ UNCHANGED <<bridgeVars, inputs>>

(***************************************************************************)
(* SafeStopGuard and the destructor of the bridge                          *)
(***************************************************************************)
StopsSafely ==
  /\ Idle("stopping")
  /\ todo > 0
  /\ todo' = todo - 1
  /\ \/ ExitCalls[8 - todo] = "deactivate" /\ Bridge!Deactivate(Main)
     \/ ExitCalls[8 - todo] = "reset"      /\ Bridge!ResetClears(Main)
     \/ ExitCalls[8 - todo] = "send"       /\ Bridge!SendChecks(Main)
  /\ Stay
  /\ UNCHANGED <<at, inputs>>

\* The last owner of the bridge is gone: stopTimeoutGuard() sets shutdown_.
Destroys ==
  /\ Idle("stopping")
  /\ todo = 0
  /\ Goto("join")
  /\ Stay
  /\ UNCHANGED <<bridgeVars, inputs>>

\* Mutated form of Joins: the thread is not waited for.
JoinsNobody ==
  /\ Idle("join")
  /\ Goto("farewell")
  /\ Stay
  /\ UNCHANGED <<bridgeVars, inputs>>

Joins ==
  /\ Idle("join")
  /\ guardPc = "waiting"
  /\ Goto("farewell")
  /\ Stay
  /\ UNCHANGED <<bridgeVars, inputs>>

\* Best effort: one more safe packet, past every flag; the socket is closed.
SaysFarewell(o) ==
  /\ Idle("farewell")
  /\ Bridge!Transmit(Main, "safe", o)
  /\ Goto(IF o = "delivered" THEN "gone" ELSE "unheard")
  /\ Stay
  /\ UNCHANGED <<active, nTimeouts, gotCommand, notified, pc, sees, guardPc,
                 guardSees, inputs>>

-----------------------------------------------------------------------------
MainStep ==
  \/ Continues
  \/ StopsOnSignal
  \/ Waits
  \/ RejectsOdometry
  \/ RejectsSensors
  \/ Accepts
  \/ SendsSafe
  \/ Enables
  \/ ChecksEnabled
  \/ RunsPipeline
  \/ ChecksBridge
  \/ Starts
  \/ EndsCycle
  \/ StopsSafely
  \/ Destroys
  \/ Joins
  \/ \E o \in Bridge!Outcomes : SaysFarewell(o)

Next == MainStep \/ Watchdog \/ OdometryArrives \/ OdometryAges \/ Signal

Spec == Init /\ [][Next]_vars

(***************************************************************************)
(* Fairness: both threads of the program are scheduled.  Nothing is        *)
(* assumed of the odometry, the network, the sensors or the pipeline.      *)
(***************************************************************************)
FairSpec == Spec /\ WF_vars(MainStep) /\ WF_vars(Watchdog)

-----------------------------------------------------------------------------
(***************************************************************************)
(* Properties                                                              *)
(***************************************************************************)

\* "ARMING ENABLED: valid odometry will be followed by disarmed_seconds with
\* AUX1 low": neither the main thread nor the watchdog gets an armed packet
\* through to the vehicle unless --arm was given and the hold is over.
ArmedOnlyAfterHold ==
  receiver # "safe" =>
    /\ arm
    /\ phase \in Armed \/ (phase = "DISARM" /\ elapsed = Hold)

\* ~BetaflightUdpBridge: if its last packet arrives, the vehicle is left
\* disarmed, whatever the watchdog had in hand when the loop was left.
GoneIsDisarmed == at = "gone" => receiver = "safe"

\* betaflight_sitl/README.md: a state that is not updated any more ends the
\* flight, whatever the phase.
StaleOdometryStops == <>[](odom \in {"stale", "bad"}) => <>(at \in Ended)

\* The check after runPipeline(): a bridge that lost its active state while the
\* loop believes it armed ends the program.
LostBridgeStops == (phase \in Armed /\ ~active) ~> at \in Ended

\* The watchdog and the check together: a pipeline that sends nothing any more
\* does not leave the vehicle armed under a running main loop for ever.  That
\* takes a hold: without one (Hold = 0) the bridge may be armed before it was
\* sent any command, and then the watchdog does not count.
SilenceStops == ~<>[](phase \in Armed /\ pc[Main] = "idle" /\ at \notin Ended)

\* A signal ends the program from every place in the loop.
SignalStops == stopRequested ~> at \in Ended

\* Whatever of this fails, in whatever phase, the program ends.
FailureStops ==
  StaleOdometryStops /\ LostBridgeStops /\ SilenceStops /\ SignalStops

=============================================================================
