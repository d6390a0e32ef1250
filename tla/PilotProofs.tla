------------------------------ MODULE PilotProofs ------------------------------
(***************************************************************************)
(* Proofs about module Pilot, for any bridges: no armed bridge is left     *)
(* behind, a guard in control has a reference and reaches the vehicle, and *)
(* Pilot implements Takeover.                                              *)
(***************************************************************************)
EXTENDS Pilot, TLAPS

\* The pipelines may use two bridges only while the main one uses the debug
\* bridge: registerExternalDebugBridge() parts them.
DebugParts == uses["safety"] # uses["main"] => uses["main"] = debugBridge

PilotInv ==
  /\ TypeOK
  /\ ActiveBridgeIsDriven
  /\ GuardHasReference
  /\ DebugParts

LEMMA PilotInvInit == Init => PilotInv
<1> SUFFICES ASSUME Init PROVE PilotInv
  OBVIOUS
<1>1. TypeOK
  BY PilotAssumption DEF Init, TypeOK, AllBridges, Pipelines, Fronts, Estimates
<1>2. ActiveBridgeIsDriven /\ GuardHasReference /\ DebugParts
  BY DEF Init, ActiveBridgeIsDriven, GuardHasReference, DebugParts, Pipelines
<1>3. QED
  BY <1>1, <1>2 DEF PilotInv

-----------------------------------------------------------------------------
(***************************************************************************)
(* What the parts of a step do.                                            *)
(***************************************************************************)
LEMMA ActivatedTypes ==
  ASSUME TypeOK, NEW set \in SUBSET AllBridges, NEW b \in AllBridges
  PROVE  Activated(set, b) \subseteq set \cup {b} /\ Activated(set, b) \subseteq AllBridges
BY DEF Activated

\* Both pipelines are given the same bridge.
LEMMA SameBridge ==
  ASSUME NEW b \in AllBridges, uses' = [p \in Pipelines |-> b]
  PROVE  /\ uses' \in [Pipelines -> AllBridges]
         /\ uses'["main"] = b
         /\ uses'["safety"] = b
BY DEF Pipelines

\* TurnOff disarms what the main pipeline drives.
LEMMA TurnOffStep ==
  ASSUME PilotInv, TurnOff, UNCHANGED <<bridge, debugBridge, uses, estimate, sent>>
  PROVE  PilotInv' /\ active' \cap Bridges = {} /\ guardState' # "TRIGGERED"
<1>1. TypeOK'
  BY DEF PilotInv, TypeOK, TurnOff, Fronts
<1>2. active' \cap Bridges = {}
  BY DEF PilotInv, ActiveBridgeIsDriven, TurnOff
<1>3. guardState' # "TRIGGERED"
  BY DEF TurnOff
<1>4. DebugParts' /\ ActiveBridgeIsDriven' /\ GuardHasReference'
  BY <1>2, <1>3 DEF PilotInv, DebugParts, ActiveBridgeIsDriven, GuardHasReference
<1>5. QED
  BY <1>1, <1>2, <1>3, <1>4 DEF PilotInv

\* A run keeps the types, and never takes the last reference of a pipeline.
LEMMA RunsFromStep ==
  ASSUME TypeOK, NEW p \in Pipelines, NEW first \in Fronts, RunsFrom(p, first)
  PROVE  /\ front' \in [Pipelines -> Fronts]
         /\ sent' \in BOOLEAN
         /\ first # "none" => front'[p] # "none"
         /\ \A q \in Pipelines \ {p} : front'[q] = front[q]
<1>1. PICK f \in Fronts : /\ f = "none" => first = "none"
                          /\ front' = [front EXCEPT ![p] = f]
  BY DEF RunsFrom
<1>2. front \in [Pipelines -> Fronts]
  BY DEF TypeOK
<1>3. QED
  BY <1>1, <1>2 DEF RunsFrom

\* A step that leaves bridges, guard and estimate alone and gives a pipeline a
\* first reference.
LEMMA InsertStep ==
  ASSUME PilotInv, NEW p \in Pipelines, NEW f \in {"hover", "other"}, Insert(p, f)
  PROVE  PilotInv' /\ UNCHANGED <<active, guardState>>
<1>1. PICK first \in {f, front[p]} \ {"none"} : SetFront(p, first)
  BY DEF Insert
<1>2. front \in [Pipelines -> Fronts] /\ first \in Fronts
  BY DEF PilotInv, TypeOK, Fronts
<1>3. front' = [front EXCEPT ![p] = first] /\ front' \in [Pipelines -> Fronts]
  BY <1>1, <1>2 DEF SetFront
<1>4. UNCHANGED <<bridge, debugBridge, uses, active, locked, guardState, triggered,
                  estimate, sent>>
  BY <1>1 DEF SetFront, bridgeVars, guardVars
<1>5. TypeOK'
  BY <1>3, <1>4 DEF PilotInv, TypeOK
<1>6. GuardHasReference'
  BY <1>1, <1>2, <1>3, <1>4 DEF PilotInv, GuardHasReference, Pipelines
<1>7. QED
  BY <1>4, <1>5, <1>6 DEF PilotInv, ActiveBridgeIsDriven, DebugParts

-----------------------------------------------------------------------------
(***************************************************************************)
(* runPipeline()                                                           *)
(***************************************************************************)
LEMMA RunsSafetyStep ==
  ASSUME PilotInv, RunsSafety
  PROVE  PilotInv' /\ UNCHANGED <<active, guardState>>
<1>1. UNCHANGED <<bridge, debugBridge, uses, active, locked, guardState, triggered,
                  estimate>>
  BY DEF RunsSafety, bridgeVars, guardVars
<1>2. "safety" \in Pipelines /\ front["safety"] \in Fronts
  BY DEF PilotInv, TypeOK, Pipelines
<1>3. /\ front' \in [Pipelines -> Fronts] /\ sent' \in BOOLEAN
      /\ front["safety"] # "none" => front'["safety"] # "none"
  BY <1>2, RunsFromStep DEF PilotInv, RunsSafety
<1>4. TypeOK'
  BY <1>1, <1>3 DEF PilotInv, TypeOK
<1>5. QED
  BY <1>1, <1>3, <1>4
     DEF PilotInv, GuardHasReference, ActiveBridgeIsDriven, DebugParts

LEMMA TakesOverStep ==
  ASSUME PilotInv, TakesOver
  PROVE  /\ PilotInv'
         /\ guardState # "TRIGGERED" /\ guardState' = "TRIGGERED"
         /\ UNCHANGED active
<1>1. /\ UNCHANGED <<bridge, debugBridge, uses, active, locked, triggered, estimate>>
      /\ guardState # "TRIGGERED" /\ guardState' = "TRIGGERED"
  BY DEF TakesOver, bridgeVars
<1>2. PICK first \in {"hover", front["safety"]} \ {"none"} : RunsFrom("safety", first)
  BY DEF TakesOver
<1>3. "safety" \in Pipelines /\ first \in Fronts
  BY DEF PilotInv, TypeOK, Pipelines, Fronts
<1>4. /\ front' \in [Pipelines -> Fronts] /\ sent' \in BOOLEAN
      /\ front'["safety"] # "none"
  BY <1>2, <1>3, RunsFromStep DEF PilotInv
<1>5. TypeOK'
  BY <1>1, <1>4 DEF PilotInv, TypeOK
<1>6. QED
  BY <1>1, <1>4, <1>5
     DEF PilotInv, GuardHasReference, ActiveBridgeIsDriven, DebugParts

LEMMA RunsMainStep ==
  ASSUME PilotInv, RunsMain
  PROVE  /\ PilotInv'
         /\ guardState # "TRIGGERED" /\ guardState' # "TRIGGERED"
         /\ UNCHANGED active
<1>1. /\ UNCHANGED <<bridge, debugBridge, uses, active, locked, triggered, estimate>>
      /\ guardState # "TRIGGERED"
      /\ guardState' = Updated /\ guardState' # "TRIGGERED"
  BY DEF RunsMain, bridgeVars
<1>2. "main" \in Pipelines /\ front["main"] \in Fronts
  BY DEF PilotInv, TypeOK, Pipelines
<1>3. front' \in [Pipelines -> Fronts] /\ sent' \in BOOLEAN
  BY <1>2, RunsFromStep DEF PilotInv, RunsMain
<1>4. guardState' \in {"NOT_INIT", "ACTIVE", "TRIGGERED"}
  BY <1>1 DEF Updated, PilotInv, TypeOK
<1>5. TypeOK'
  BY <1>1, <1>3, <1>4 DEF PilotInv, TypeOK
<1>6. QED
  BY <1>1, <1>5
     DEF PilotInv, GuardHasReference, ActiveBridgeIsDriven, DebugParts

-----------------------------------------------------------------------------
(***************************************************************************)
(* Bridges come and go.                                                    *)
(***************************************************************************)
LEMMA EnableStep ==
  ASSUME PilotInv, NEW b \in AllBridges,
         active' = Activated(active \ {uses["main"]}, b),
         uses' = [p \in Pipelines |-> b],
         UNCHANGED <<bridge, debugBridge, locked, front, guardState, triggered,
                     estimate, sent>>
  PROVE  PilotInv'
<1>1. active' \subseteq AllBridges /\ active' \subseteq (active \ {uses["main"]}) \cup {b}
  BY ActivatedTypes DEF PilotInv, TypeOK
<1>2. uses' \in [Pipelines -> AllBridges] /\ uses'["main"] = b /\ uses'["safety"] = b
  BY SameBridge
<1>3. TypeOK'
  BY <1>1, <1>2 DEF PilotInv, TypeOK
<1>4. ActiveBridgeIsDriven'
  BY <1>1, <1>2 DEF PilotInv, ActiveBridgeIsDriven
<1>5. QED
  BY <1>2, <1>3, <1>4 DEF PilotInv, GuardHasReference, DebugParts

LEMMA RegisterExternalBridgeStep ==
  ASSUME PilotInv, NEW b \in Bridges, RegisterExternalBridge(b)
  PROVE  PilotInv' /\ UNCHANGED guardState
<1> DEFINE wasUsed == uses["main"] = bridge
           wasActive == wasUsed /\ bridge \in active
           used == IF wasUsed THEN b ELSE uses["main"]
<1>1. /\ bridge' = b
      /\ uses' = [p \in Pipelines |-> used]
      /\ active' = IF wasActive THEN Activated(active \ {bridge}, b) ELSE active
      /\ UNCHANGED <<debugBridge, locked, front, guardState, triggered, estimate, sent>>
  BY DEF RegisterExternalBridge, guardVars
<1>2. b \in AllBridges /\ used \in AllBridges
  BY DEF PilotInv, TypeOK, AllBridges, Pipelines
<1>3. uses' \in [Pipelines -> AllBridges] /\ uses'["main"] = used /\ uses'["safety"] = used
  <2> HIDE DEF used
  <2>1. QED
    BY <1>1, <1>2, SameBridge
<1>4. /\ wasActive => active' \subseteq (active \ {bridge}) \cup {b}
      /\ active' \subseteq AllBridges
  BY <1>1, <1>2, ActivatedTypes DEF PilotInv, TypeOK
<1>5. TypeOK'
  BY <1>1, <1>2, <1>3, <1>4 DEF PilotInv, TypeOK
<1>6. ActiveBridgeIsDriven'
  <2>1. CASE wasActive
    BY <1>3, <1>4, <2>1 DEF PilotInv, ActiveBridgeIsDriven
  <2>2. CASE ~wasActive
    BY <1>1, <1>3, <2>2 DEF PilotInv, ActiveBridgeIsDriven
  <2>3. QED
    BY <2>1, <2>2
<1>7. QED
  BY <1>1, <1>3, <1>5, <1>6 DEF PilotInv, GuardHasReference, DebugParts

LEMMA RegisterExternalDebugBridgeStep ==
  ASSUME PilotInv, NEW d \in Debugs, RegisterExternalDebugBridge(d)
  PROVE  PilotInv' /\ UNCHANGED <<active, guardState>>
<1>1. /\ debugBridge' = d
      /\ uses' = IF uses["main"] = debugBridge THEN [uses EXCEPT !["main"] = d] ELSE uses
      /\ UNCHANGED <<bridge, active, locked, front, guardState, triggered, estimate, sent>>
  BY DEF RegisterExternalDebugBridge, guardVars
<1>2. uses \in [Pipelines -> AllBridges] /\ d \in AllBridges /\ "main" \in Pipelines
  BY DEF PilotInv, TypeOK, AllBridges, Pipelines
<1>3. TypeOK'
  BY <1>1, <1>2 DEF PilotInv, TypeOK
<1>4. CASE uses["main"] = debugBridge
  <2>1. uses'["main"] = d
    BY <1>1, <1>2, <1>4
  <2>2. debugBridge \in Debugs
    BY DEF PilotInv, TypeOK
  <2>3. active \cap Bridges = {}
    BY <1>4, <2>2, PilotAssumption DEF PilotInv, ActiveBridgeIsDriven
  <2>4. ActiveBridgeIsDriven'
    BY <1>1, <2>3 DEF ActiveBridgeIsDriven
  <2>5. QED
    BY <1>1, <1>3, <2>1, <2>4 DEF PilotInv, GuardHasReference, DebugParts
<1>5. CASE uses["main"] # debugBridge
  BY <1>1, <1>3, <1>5
     DEF PilotInv, ActiveBridgeIsDriven, GuardHasReference, DebugParts
<1>6. QED
  BY <1>4, <1>5

-----------------------------------------------------------------------------
(***************************************************************************)
(* Every step keeps the invariant and is one the abstract specification    *)
(* allows.                                                                 *)
(***************************************************************************)
Control == IF guardState = "TRIGGERED" THEN "guard" ELSE "user"
Armed == active \cap Bridges # {}

Allowed ==
  \/ Control' = Control
  \/ Control = "user" /\ Control' = "guard" /\ Armed' = Armed
  \/ Control = "guard" /\ Control' = "user" /\ Armed' = FALSE

LEMMA PilotStep == PilotInv /\ [Next]_vars => PilotInv' /\ Allowed
<1> SUFFICES ASSUME PilotInv, [Next]_vars PROVE PilotInv' /\ Allowed
  OBVIOUS
<1>1. ASSUME UNCHANGED guardState PROVE Allowed
  BY <1>1 DEF Allowed, Control
<1>2. ASSUME TurnOff, UNCHANGED <<bridge, debugBridge, uses, estimate, sent>>
      PROVE  PilotInv' /\ Allowed
  <2>1. PilotInv' /\ active' \cap Bridges = {} /\ guardState' # "TRIGGERED"
    BY <1>2, TurnOffStep
  <2>2. QED
    BY <2>1 DEF Allowed, Control, Armed
<1>3. CASE RunPipeline
  <2>1. CASE RunsSafety
    BY <1>1, <2>1, RunsSafetyStep
  <2>2. CASE TakesOver
    BY <2>2, TakesOverStep DEF Allowed, Control, Armed
  <2>3. CASE TakeoverFails
    BY <1>2, <2>3 DEF TakeoverFails
  <2>4. CASE RunsMain
    BY <2>4, RunsMainStep DEF Allowed, Control
  <2>5. QED
    BY <1>3, <2>1, <2>2, <2>3, <2>4 DEF RunPipeline
<1>4. CASE Command
  <2>1. CASE Off
    BY <1>2, <2>1 DEF Off
  <2>2. CASE TriggerGuard
    <3>1. UNCHANGED <<bridge, debugBridge, uses, active, locked, front, guardState,
                      estimate, sent>> /\ triggered' = TRUE
      BY <2>2 DEF TriggerGuard, bridgeVars
    <3>2. PilotInv'
      BY <3>1 DEF PilotInv, TypeOK, ActiveBridgeIsDriven, GuardHasReference, DebugParts
    <3>3. QED
      BY <1>1, <3>1, <3>2
  <2>3. CASE AddReference
    <3>1. PICK f \in {"hover", "other"} : SetFront("main", f)
      BY <2>3 DEF AddReference
    <3>2. Insert("main", f) /\ "main" \in Pipelines
      BY <3>1 DEF Insert, Pipelines
    <3>3. QED
      BY <1>1, <3>2, InsertStep
  <2>4. CASE ForceHover \/ Land
    <3>1. PICK f \in {"hover", "other"} : Insert(ActivePipeline, f)
      BY <2>4 DEF ForceHover, Land
    <3>2. ActivePipeline \in Pipelines
      BY DEF ActivePipeline, Pipelines
    <3>3. QED
      BY <1>1, <3>1, <3>2, InsertStep
  <2>5. CASE Enable
    <3>1. bridge \in AllBridges
      BY DEF PilotInv, TypeOK
    <3>2. QED
      BY <1>1, <2>5, <3>1, EnableStep DEF Enable, guardVars
  <2>6. CASE Disable
    <3>1. debugBridge \in AllBridges
      BY DEF PilotInv, TypeOK, AllBridges
    <3>2. QED
      BY <1>1, <2>6, <3>1, EnableStep DEF Disable, guardVars
  <2>7. ASSUME NEW b \in Bridges, RegisterExternalBridge(b) PROVE PilotInv' /\ Allowed
    BY <1>1, <2>7, RegisterExternalBridgeStep
  <2>8. ASSUME NEW d \in Debugs, RegisterExternalDebugBridge(d) PROVE PilotInv' /\ Allowed
    BY <1>1, <2>8, RegisterExternalDebugBridgeStep
  <2>9. QED
    BY <1>4, <2>1, <2>2, <2>3, <2>4, <2>5, <2>6, <2>7, <2>8 DEF Command
<1>5. CASE World
  <2>1. /\ UNCHANGED <<bridge, debugBridge, uses, front, guardState, triggered, sent>>
        /\ active' \subseteq active
        /\ locked' \subseteq AllBridges
        /\ estimate' \in Estimates
    <3>1. CASE GuardOdometry
      BY <3>1 DEF GuardOdometry, bridgeVars, guardVars, PilotInv, TypeOK
    <3>2. ASSUME NEW b \in AllBridges, WatchdogLocks(b) \/ WatchdogDisarms(b)
          PROVE  /\ UNCHANGED <<bridge, debugBridge, uses, front, guardState, triggered,
                                sent>>
                 /\ active' \subseteq active
                 /\ locked' \subseteq AllBridges
                 /\ estimate' \in Estimates
      BY <3>2 DEF WatchdogLocks, WatchdogDisarms, guardVars, PilotInv, TypeOK
    <3>3. QED
      BY <1>5, <3>1, <3>2 DEF World
  <2>2. PilotInv'
    BY <2>1 DEF PilotInv, TypeOK, ActiveBridgeIsDriven, GuardHasReference, DebugParts
  <2>3. QED
    BY <1>1, <2>1, <2>2
<1>6. CASE UNCHANGED vars
  BY <1>1, <1>6
     DEF vars, bridgeVars, guardVars, PilotInv, TypeOK, ActiveBridgeIsDriven,
         GuardHasReference, DebugParts
<1>7. QED
  BY <1>3, <1>4, <1>5, <1>6 DEF Next

LEMMA PilotInvariant == Spec => []PilotInv
BY PilotInvInit, PilotStep, PTL DEF Spec

-----------------------------------------------------------------------------
\* Pointers to bridges, and the state of guard and references, keep their types.
THEOREM TypeCorrect == Spec => []TypeOK
<1>1. PilotInv => TypeOK
  BY DEF PilotInv
<1>2. QED
  BY <1>1, PilotInvariant, PTL

\* No armed bridge is ever left behind by enable(), off() and registrations.
THEOREM NoBridgeLeftArmed == Spec => []ActiveBridgeIsDriven
<1>1. PilotInv => ActiveBridgeIsDriven
  BY DEF PilotInv
<1>2. QED
  BY <1>1, PilotInvariant, PTL

\* A guard in control always has a reference to fly.
THEOREM GuardAlwaysHasReference == Spec => []GuardHasReference
<1>1. PilotInv => GuardHasReference
  BY DEF PilotInv
<1>2. QED
  BY <1>1, PilotInvariant, PTL

\* An enabled pilot's safety pipeline sends over the bridge to the vehicle.
THEOREM TakeoverReachesVehicle == Spec => []EnabledSharesBridge
<1>1. PilotInv => EnabledSharesBridge
  BY DEF PilotInv, DebugParts, EnabledSharesBridge, Enabled
<1>2. QED
  BY <1>1, PilotInvariant, PTL

\* Pilot implements Takeover: whatever is called in whatever order, the user
\* never gets an armed vehicle back from the guard.
THEOREM PilotImplementsTakeover == Spec => ImplementsTakeover
<1>1. Init => Guard!Init
  BY DEF Init, Guard!Init
<1>2. PilotInv /\ [Next]_vars => [Guard!Next]_(Guard!vars)
  <2> SUFFICES ASSUME PilotInv, [Next]_vars PROVE [Guard!Next]_(Guard!vars)
    OBVIOUS
  <2>1. Allowed
    BY PilotStep
  <2>2. Armed' \in BOOLEAN
    BY DEF Armed
  <2>3. QED
    BY <2>1, <2>2
       DEF Allowed, Control, Armed, Guard!Next, Guard!Switch, Guard!TakeOver,
           Guard!Release, Guard!vars
<1>3. QED
  BY <1>1, <1>2, PilotInvariant, PTL DEF Spec, ImplementsTakeover, Guard!Spec

=============================================================================
