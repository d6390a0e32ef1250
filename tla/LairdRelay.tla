----------------------------- MODULE LairdRelay -----------------------------
(***************************************************************************)
(* The onboard end of the radio link: the nodes laird_to_ctrl_bridge and   *)
(* laird_to_sbus_bridge (src/agiros/agiros/src).  Frames of the radio are  *)
(* collected by LairdBridge; the node's thread decodes them one by one and *)
(* drives the bridge to the flight controller, beside that bridge's        *)
(* watchdog.                                                               *)
(*                                                                         *)
(* The node's thread is the bridge's only client.  The serial line carries *)
(* packets as BridgeBase describes: "safe" is OFF, the others are armed.   *)
(* A command the encoder refuses fails like a packet that cannot be        *)
(* written.  The ground station is whoever sends frames.                   *)
(***************************************************************************)
EXTENDS Integers, Sequences

CONSTANTS
  MaxTimeouts,   \* n_timeouts_for_lock of the bridge to the flight controller
  BufferSize,    \* frames that fit into buffer_
  MaxRestarts    \* bound: how often the node is started again

ASSUME SizesAssumption == BufferSize \in Nat \ {0} /\ MaxRestarts \in Nat

Relay == "relay"

VARIABLES
  active, nTimeouts, gotCommand, notified, pc, sees, guardPc, guardSees,
  receiver, stale,
  ground,     \* what the ground station sends now
  buffer,     \* buffer_ of LairdBridge, by frames
  armedLast,  \* armed_last_
  todo,       \* bridge calls for the last frame that are still to be made
  restarts,
  tripped     \* history: the watchdog disarmed although the last frame said
              \* "armed", and none has said "disarmed" since

Bridge == INSTANCE BridgeBase WITH Clients <- {Relay}

bridgeVars == <<active, nTimeouts, gotCommand, notified, pc, sees, guardPc,
                guardSees, receiver, stale>>
relayVars == <<armedLast, todo>>
vars == <<bridgeVars, relayVars, ground, buffer, restarts, tripped>>

\* What may be found in the buffer: a frame with its arming bit, or bytes no
\* frame starts in.
Frames == {"armed", "disarmed", "noise"}
Calls == {"activate", "deactivate", "reset", "send"}

TypeOK ==
  /\ Bridge!TypeOK
  /\ ground \in {"armed", "disarmed", "silent"}
  /\ buffer \in Seq(Frames) /\ Len(buffer) <= BufferSize
  /\ armedLast \in BOOLEAN
  /\ todo \in Seq(Calls)
  /\ restarts \in 0..MaxRestarts
  /\ tripped \in BOOLEAN

Init ==
  /\ Bridge!Init
  /\ ground \in {"armed", "disarmed", "silent"}
  /\ buffer = <<>>
  /\ armedLast = FALSE
  /\ todo = <<>>
  /\ restarts = 0
  /\ tripped = FALSE

-----------------------------------------------------------------------------
(***************************************************************************)
(* The radio                                                               *)
(***************************************************************************)
GroundChanges ==
  /\ ground' \in {"armed", "disarmed", "silent"} \ {ground}
  /\ UNCHANGED <<bridgeVars, relayVars, buffer, restarts, tripped>>

\* Mutated form of Collects: the space left is not looked at.
CollectsAlways(f) ==
  /\ buffer' = Append(buffer, f)
  /\ UNCHANGED <<bridgeVars, relayVars, ground, restarts, tripped>>

\* receiveCallback(): what does not fit replaces everything that was there.
Collects(f) ==
  /\ buffer' = IF Len(buffer) < BufferSize THEN Append(buffer, f) ELSE <<f>>
  /\ UNCHANGED <<bridgeVars, relayVars, ground, restarts, tripped>>

\* A frame arrives as it was sent or damaged, or something arrives that is none.
\* A frame that is lost is not seen here.
Radio == \E f \in Frames : (f = "noise" \/ f = ground) /\ Collects(f)

-----------------------------------------------------------------------------
(***************************************************************************)
(* The node's thread                                                       *)
(***************************************************************************)
Idle == todo = <<>> /\ pc[Relay] = "idle"

\* Position i is that of the first frame that decodes.
Decodes(i) ==
  /\ buffer[i] # "noise"
  /\ \A j \in 1..i - 1 : buffer[j] = "noise"

\* Mutated form of CallsFor: every armed frame arms.
CallsForLevel(f) ==
  CASE f = "armed"                 -> <<"activate", "send">>
    [] f = "disarmed" /\ armedLast -> <<"deactivate", "reset", "send">>
    [] OTHER                       -> <<"send">>

\* Mutated form of CallsFor: reset() when the bit rises, not when it falls.
CallsForLateReset(f) ==
  CASE f = "armed" /\ ~armedLast   -> <<"activate", "reset", "send">>
    [] f = "disarmed" /\ armedLast -> <<"deactivate", "send">>
    [] OTHER                       -> <<"send">>

\* Mutated form of CallsFor: reset() is taken to disarm.
CallsForReset(f) ==
  CASE f = "armed" /\ ~armedLast   -> <<"activate", "send">>
    [] f = "disarmed" /\ armedLast -> <<"reset", "send">>
    [] OTHER                       -> <<"send">>

\* What the thread calls for a frame: the bit acts when it changes.
CallsFor(f) ==
  CASE f = "armed" /\ ~armedLast   -> <<"activate", "send">>
    [] f = "disarmed" /\ armedLast -> <<"deactivate", "reset", "send">>
    [] OTHER                       -> <<"send">>

\* receiveCommand() found a frame; what was in front of it is gone.
Receives ==
  /\ Idle
  /\ \E i \in 1..Len(buffer) :
       /\ Decodes(i)
       /\ todo' = CallsFor(buffer[i])
       /\ armedLast' = (buffer[i] = "armed")
       /\ tripped' = (tripped /\ buffer[i] = "armed")
       /\ buffer' = SubSeq(buffer, i + 1, Len(buffer))
  /\ UNCHANGED <<bridgeVars, ground, restarts>>

\* receiveCommand() found none.
Discards ==
  /\ Idle
  /\ buffer # <<>>
  /\ \A i \in 1..Len(buffer) : buffer[i] = "noise"
  /\ buffer' = <<>>
  /\ UNCHANGED <<bridgeVars, relayVars, ground, restarts, tripped>>

Makes(call, A) == todo # <<>> /\ Head(todo) = call /\ A

MakesCall ==
  /\ pc[Relay] = "idle"
  /\ \/ Makes("activate", Bridge!ActivateChecks(Relay))
     \/ Makes("deactivate", Bridge!Deactivate(Relay))
     \/ Makes("reset", Bridge!ResetClears(Relay))
     \/ Makes("send", Bridge!SendChecks(Relay))
  /\ todo' = Tail(todo)
  /\ UNCHANGED <<armedLast, ground, buffer, restarts, tripped>>

\* The rest of a call of the bridge.
Continues ==
  /\ \/ Bridge!SendMarks(Relay)
     \/ Bridge!SendLoads(Relay)
     \/ \E o \in Bridge!Outcomes : Bridge!SendTransmits(Relay, TRUE, o)
     \/ Bridge!SendSettles(Relay)
     \/ Bridge!ActivateStores(Relay)
     \/ Bridge!ResetForgets(Relay)
  /\ UNCHANGED <<relayVars, ground, buffer, restarts, tripped>>

Works == Receives \/ Discards \/ MakesCall \/ Continues

Watchdog ==
  /\ Bridge!GuardStep
  /\ tripped' = (tripped \/ (active /\ ~active' /\ armedLast))
  /\ UNCHANGED <<relayVars, ground, buffer, restarts>>

\* The node dies, in whatever it was doing, and is started again.
Restart ==
  /\ restarts < MaxRestarts
  /\ restarts' = restarts + 1
  /\ active' = FALSE /\ nTimeouts' = 0 /\ gotCommand' = FALSE
  /\ notified' = FALSE
  /\ pc' = [pc EXCEPT ![Relay] = "idle"] /\ sees' = [sees EXCEPT ![Relay] = FALSE]
  /\ guardPc' = "waiting" /\ guardSees' = FALSE
  /\ stale' = {}
  /\ buffer' = <<>> /\ armedLast' = FALSE /\ todo' = <<>>
  /\ tripped' = FALSE
  /\ UNCHANGED <<receiver, ground>>

Next == GroundChanges \/ Radio \/ Works \/ Watchdog \/ Restart

Spec == Init /\ [][Next]_vars

(***************************************************************************)
(* Fairness: the node's thread and the watchdog are scheduled, and of the  *)
(* packets each writes again and again not all are lost.  The radio owes   *)
(* nothing.                                                                *)
(***************************************************************************)
Reaches(A) ==
  A /\ UNCHANGED <<relayVars, ground, buffer, restarts, tripped>>

FairSpec ==
  /\ Spec
  /\ WF_vars(Works)
  /\ WF_vars(Watchdog)
  /\ SF_vars(Reaches(Bridge!GuardSends("delivered")))
  /\ SF_vars(Reaches(Bridge!SendTransmits(Relay, TRUE, "delivered")))

-----------------------------------------------------------------------------
(***************************************************************************)
(* Properties                                                              *)
(***************************************************************************)

\* Once the watchdog has disarmed the vehicle, the link may come back with
\* armed frames: the vehicle is not armed again before a frame has said
\* "disarmed", whatever sends in flight do to the counter.
RearmNeedsDisarm == tripped => ~active

\* If from some time on nobody on the ground sends an armed frame, because it
\* says "disarmed" or because it has fallen silent, the vehicle ends disarmed,
\* through a backlog of armed frames and a restart of the node.
LinkLossDisarms ==
  MaxTimeouts > 0 /\ <>[](ground # "armed") => <>[](receiver = "safe")

\* This client resets a bridge only after it has deactivated it, and sends
\* at once: the race of reset() and watchdog that can leave a bridge locked and
\* armed (LockedIsDisarmed of BridgeBase) does not happen here.
LockedDisarms ==
  (Bridge!locked /\ active) ~> (~active \/ ~Bridge!locked)

\* What must disarm the vehicle does: a lost link, and a bridge that locks.
RelayDisarms == LinkLossDisarms /\ LockedDisarms
=============================================================================
