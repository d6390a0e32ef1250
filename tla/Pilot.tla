--------------------------------- MODULE Pilot ---------------------------------
(***************************************************************************)
(* agi::Pilot (src/agilib/src/pilot/pilot.cpp) with a guard: which of its  *)
(* two pipelines flies the vehicle, over which bridge, and who may change  *)
(* that.                                                                   *)
(*                                                                         *)
(* One action is one call.  RosPilot makes all calls from callbacks and a  *)
(* timer of one single-threaded ros::spin(), so calls do not overlap; the  *)
(* watchdog threads of the bridges run beside them and are seen here by    *)
(* what they do to a bridge: lock it, then disarm it (module BridgeBase).  *)
(*                                                                         *)
(* Of a pipeline's references only the first matters here (the queues are  *)
(* in module FlightPlan); of the modules of a pipeline only from which     *)
(* configuration they were built, and whether those work.                  *)
(***************************************************************************)
EXTENDS Naturals

CONSTANTS
  Bridges,   \* bridges to the vehicle
  Debugs,    \* debug bridges
  Faulty     \* configurations whose modules fail

ASSUME PilotAssumption ==
  /\ Debugs # {}
  /\ Bridges \cap Debugs = {}
  /\ Faulty \subseteq {"pipeline_cfg", "safety_pipeline_cfg"}

AllBridges == Bridges \cup Debugs

Pipelines == {"main", "safety"}
Fronts == {"none", "hover", "other"}
Estimates == {"invalid", "inside", "outside"}

VARIABLES
  bridge,        \* bridge_
  debugBridge,   \* debug_bridge_
  uses,          \* the bridge of each pipeline
  front,         \* kind of the first reference of each pipeline
  active,        \* bridges that are active()
  locked,        \* bridges that are locked()
  guardState,    \* guard_state_
  triggered,     \* externally_triggered_
  estimate,      \* what the estimator of the safety pipeline returns
  sent           \* history: the last cycle sent a command

bridgeVars == <<bridge, debugBridge, uses, active, locked>>
guardVars  == <<guardState, triggered>>
vars == <<bridgeVars, front, guardVars, estimate, sent>>

TypeOK ==
  /\ bridge \in AllBridges
  /\ debugBridge \in Debugs
  /\ uses \in [Pipelines -> AllBridges]
  /\ front \in [Pipelines -> Fronts]
  /\ active \subseteq AllBridges
  /\ locked \subseteq AllBridges
  /\ guardState \in {"NOT_INIT", "ACTIVE", "TRIGGERED"}
  /\ triggered \in BOOLEAN
  /\ estimate \in Estimates
  /\ sent \in BOOLEAN

\* createPipeline(pipeline, config) builds every module from pipeline_cfg_.
BuiltFrom(config) == "pipeline_cfg"

Modules == [main |-> BuiltFrom("pipeline_cfg"),
            safety |-> BuiltFrom("safety_pipeline_cfg")]

\* A pilot whose bridge could not be created waits for an external one.
Init ==
  /\ debugBridge \in Debugs
  /\ bridge \in Bridges \cup {debugBridge}
  /\ uses = [p \in Pipelines |-> debugBridge]
  /\ front = [p \in Pipelines |-> "none"]
  /\ active = {}
  /\ locked = {}
  /\ guardState = "NOT_INIT"
  /\ triggered = FALSE
  /\ estimate = "invalid"
  /\ sent = FALSE

-----------------------------------------------------------------------------
\* activate(): a locked bridge refuses.
Activated(set, b) == IF b \in locked THEN set ELSE set \cup {b}

\* The pipeline a command goes to.
ActivePipeline == IF guardState = "TRIGGERED" THEN "safety" ELSE "main"

(***************************************************************************)
(* off(): the main pipeline is disarmed and emptied; the references of the *)
(* safety pipeline stay.                                                   *)
(***************************************************************************)
\* Mutated form of TurnOff: the vehicle is not disarmed.
TurnOffArmed ==
  /\ active' = active
  /\ locked' = locked \ {uses["main"]}
  /\ front' = [front EXCEPT !["main"] = "none"]
  /\ guardState' = "NOT_INIT"
  /\ triggered' = FALSE

TurnOff ==
  /\ active' = active \ {uses["main"]}
  /\ locked' = locked \ {uses["main"]}
  /\ front' = [front EXCEPT !["main"] = "none"]
  /\ guardState' = "NOT_INIT"
  /\ triggered' = FALSE

Off ==
  /\ TurnOff
  /\ UNCHANGED <<bridge, debugBridge, uses, estimate, sent>>

-----------------------------------------------------------------------------
(***************************************************************************)
(* runPipeline()                                                           *)
(***************************************************************************)
\* PositionGuard::evaluateState of a valid state.
ShouldTrigger == triggered \/ estimate = "outside"

\* Mutated form of Updated: once initialized, only an external trigger counts.
UpdatedByTrigger ==
  CASE guardState = "NOT_INIT" /\ estimate = "inside" -> "ACTIVE"
    [] guardState = "ACTIVE" /\ estimate # "invalid" /\ triggered -> "TRIGGERED"
    [] OTHER -> guardState

\* PositionGuard::update
Updated ==
  CASE guardState = "NOT_INIT" /\ estimate # "invalid" /\ ~ShouldTrigger -> "ACTIVE"
    [] guardState = "ACTIVE" /\ estimate # "invalid" /\ ShouldTrigger -> "TRIGGERED"
    [] OTHER -> guardState

\* Pipeline::run of pipeline p whose first reference is first.  The cycle is done
\* if no stage fails (the estimator of the main pipeline may, at any time); only
\* then a command is sent, unless the bridge is locked, and references change:
\* a pipeline is never left without any, and a feedthrough command can give the
\* main one its first.
RunsFrom(p, first) ==
  \E done \in BOOLEAN, f \in Fronts :
    /\ done => Modules[p] \notin Faulty
    /\ p = "safety" => done = (Modules[p] \notin Faulty /\ estimate # "invalid")
    /\ sent' = (done /\ uses[p] \notin locked)
    /\ f # first => done /\ (first = "none" => p = "main" /\ f = "hover")
    /\ f = "none" => first = "none"
    /\ front' = [front EXCEPT ![p] = f]

RunsSafety ==
  /\ guardState = "TRIGGERED"
  /\ RunsFrom("safety", front["safety"])
  /\ UNCHANGED <<bridgeVars, guardVars, estimate>>

\* Mutated form of TakesOver, as pipelineThread() does it: no hover is inserted.
TakesOverUnprepared ==
  /\ guardState # "TRIGGERED"
  /\ Updated = "TRIGGERED"
  /\ guardState' = "TRIGGERED"
  /\ RunsFrom("safety", front["safety"])
  /\ UNCHANGED <<bridgeVars, triggered, estimate>>

\* The guard takes over with a hover where the vehicle is: it is the first
\* reference, or references left from an earlier takeover come before it.
TakesOver ==
  /\ guardState # "TRIGGERED"
  /\ Updated = "TRIGGERED"
  /\ guardState' = "TRIGGERED"
  /\ \E first \in {"hover", front["safety"]} \ {"none"} : RunsFrom("safety", first)
  /\ UNCHANGED <<bridgeVars, triggered, estimate>>

\* The estimate is read a second time for the hover; it may be invalid now.
TakeoverFails ==
  /\ guardState # "TRIGGERED"
  /\ Updated = "TRIGGERED"
  /\ TurnOff
  /\ UNCHANGED <<bridge, debugBridge, uses, estimate, sent>>

RunsMain ==
  /\ guardState # "TRIGGERED"
  /\ Updated # "TRIGGERED"
  /\ guardState' = Updated
  /\ RunsFrom("main", front["main"])
  /\ UNCHANGED <<bridgeVars, triggered, estimate>>

RunPipeline == RunsSafety \/ TakesOver \/ TakeoverFails \/ RunsMain

-----------------------------------------------------------------------------
(***************************************************************************)
(* Commands                                                                *)
(***************************************************************************)
TriggerGuard ==
  /\ triggered' = TRUE
  /\ UNCHANGED <<bridgeVars, front, guardState, estimate, sent>>

SetFront(p, f) ==
  /\ front' = [front EXCEPT ![p] = f]
  /\ UNCHANGED <<bridgeVars, guardVars, estimate, sent>>

\* start() and addSampledTrajectory() append to the main pipeline, whoever
\* flies; what is appended comes first only where nothing was.
AddReference ==
  /\ front["main"] = "none"
  /\ \E f \in {"hover", "other"} : SetFront("main", f)

\* The first reference stays if it started before what is inserted.
Insert(p, f) == \E first \in {f, front[p]} \ {"none"} : SetFront(p, first)

\* forceHover() inserts into the active pipeline.
ForceHover == Insert(ActivePipeline, "hover")

\* land() from a hover; from anything else it forces a hover.  land() without
\* references reads the front of an empty vector and is not modelled.
Land ==
  /\ front[ActivePipeline] # "none"
  /\ Insert(ActivePipeline,
            IF front[ActivePipeline] = "hover" THEN "other" ELSE "hover")

\* enable(true).  A bridge that was active is deactivated and activated again.
Enable ==
  /\ active' = Activated(active \ {uses["main"]}, bridge)
  /\ uses' = [p \in Pipelines |-> bridge]
  /\ UNCHANGED <<bridge, debugBridge, locked, front, guardVars, estimate, sent>>

\* Mutated form of Disable: the vehicle's bridge is left as it is.
DisableActive ==
  /\ active' = Activated(active, debugBridge)
  /\ uses' = [p \in Pipelines |-> debugBridge]
  /\ UNCHANGED <<bridge, debugBridge, locked, front, guardVars, estimate, sent>>

\* enable(false).
Disable ==
  /\ active' = Activated(active \ {uses["main"]}, debugBridge)
  /\ uses' = [p \in Pipelines |-> debugBridge]
  /\ UNCHANGED <<bridge, debugBridge, locked, front, guardVars, estimate, sent>>

\* Mutated form of RegisterExternalBridge: the safety pipeline is forgotten.
RegisterMainBridge(b) ==
  LET wasUsed == uses["main"] = bridge
      wasActive == wasUsed /\ bridge \in active
  IN /\ bridge' = b
     /\ uses' = IF wasUsed THEN [uses EXCEPT !["main"] = b] ELSE uses
     /\ active' = IF wasActive THEN Activated(active \ {bridge}, b) ELSE active
     /\ UNCHANGED <<debugBridge, locked, front, guardVars, estimate, sent>>

\* Mutated form of RegisterExternalBridge: it is stored as the debug bridge.
RegisterAsDebug(b) ==
  /\ debugBridge' = b
  /\ UNCHANGED <<bridge, uses, active, locked, front, guardVars, estimate, sent>>

\* The new bridge takes the place of bridge_, and is active if that was.
RegisterExternalBridge(b) ==
  LET wasUsed == uses["main"] = bridge
      wasActive == wasUsed /\ bridge \in active
      used == IF wasUsed THEN b ELSE uses["main"]
  IN /\ bridge' = b
     /\ uses' = [p \in Pipelines |-> used]
     /\ active' = IF wasActive THEN Activated(active \ {bridge}, b) ELSE active
     /\ UNCHANGED <<debugBridge, locked, front, guardVars, estimate, sent>>

\* The safety pipeline keeps the debug bridge it had.
RegisterExternalDebugBridge(d) ==
  /\ debugBridge' = d
  /\ uses' = IF uses["main"] = debugBridge THEN [uses EXCEPT !["main"] = d] ELSE uses
  /\ UNCHANGED <<bridge, active, locked, front, guardVars, estimate, sent>>

Command ==
  \/ Off
  \/ TriggerGuard
  \/ AddReference
  \/ ForceHover
  \/ Land
  \/ Enable
  \/ Disable
  \/ \E b \in Bridges : RegisterExternalBridge(b)
  \/ \E d \in Debugs : RegisterExternalDebugBridge(d)

-----------------------------------------------------------------------------
(***************************************************************************)
(* The world: odometry of the guard, and the watchdogs of the bridges.     *)
(***************************************************************************)
GuardOdometry ==
  /\ estimate' \in Estimates
  /\ UNCHANGED <<bridgeVars, front, guardVars, sent>>

WatchdogLocks(b) ==
  /\ b \in active
  /\ locked' = locked \cup {b}
  /\ UNCHANGED <<bridge, debugBridge, uses, active, front, guardVars, estimate,
                 sent>>

WatchdogDisarms(b) ==
  /\ b \in active \cap locked
  /\ active' = active \ {b}
  /\ UNCHANGED <<bridge, debugBridge, uses, locked, front, guardVars, estimate,
                 sent>>

World ==
  \/ GuardOdometry
  \/ \E b \in AllBridges : WatchdogLocks(b) \/ WatchdogDisarms(b)

Next == RunPipeline \/ Command \/ World

Spec == Init /\ [][Next]_vars

\* The timer of RosPilot, or the loop of its process, keeps calling.
FairSpec == Spec /\ WF_vars(RunPipeline)

-----------------------------------------------------------------------------
(***************************************************************************)
(* Properties                                                              *)
(***************************************************************************)

\* A bridge to the vehicle that is active is the one the main pipeline drives:
\* no sequence of enable(), off() and registrations leaves an armed bridge
\* behind that only its watchdog still feeds, and that off() cannot disarm.
ActiveBridgeIsDriven == active \cap Bridges \subseteq {uses["main"]}

\* A guard in control has something to fly: runPipeline inserts a hover at the
\* takeover, off() does not clear the safety pipeline while the guard is in
\* control.
GuardHasReference == guardState = "TRIGGERED" => front["safety"] # "none"

\* enabled()
Enabled == uses["main"] # debugBridge /\ uses["main"] \in active

\* While the pilot is enabled, a takeover reaches the vehicle: both pipelines
\* send over the same bridge, although only enable() and
\* registerExternalBridge() keep them together.
EnabledSharesBridge == Enabled => uses["safety"] = uses["main"]

\* An initialized guard acts: it takes over, or the vehicle comes back inside
\* (or the guard is switched off, or loses its estimate) first.
ViolationIsCaught ==
  (guardState = "ACTIVE" /\ ShouldTrigger)
    ~> (guardState # "ACTIVE" \/ estimate = "invalid" \/ ~ShouldTrigger)

\* The guard as seen from outside.
Guard == INSTANCE Takeover WITH
  control <- IF guardState = "TRIGGERED" THEN "guard" ELSE "user",
  armed <- active \cap Bridges # {}

\* Control goes to the guard and back as the abstract specification allows: the
\* user never gets an armed vehicle back.
ImplementsTakeover == Guard!Spec

\* src/README.md:86: "The guard can use a secondary pipeline configuration
\* without relying on the user-defined modules."  With the modules of that
\* configuration working, an estimate and an unlocked bridge, a guard in control
\* sends commands, whatever the modules of the user's pipeline do.  No run checks
\* this: the code builds both pipelines from the user's modules, and TLC refutes
\* it with Faulty = {"pipeline_cfg"}.
GuardFliesWithoutUserModules ==
  [][/\ RunsSafety \/ TakesOver
     /\ "safety_pipeline_cfg" \notin Faulty
     /\ estimate # "invalid"
     /\ uses["safety"] \notin locked
     => sent']_vars

=============================================================================
