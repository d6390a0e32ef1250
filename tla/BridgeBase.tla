----------------------------- MODULE BridgeBase -----------------------------
(***************************************************************************)
(* agi::BridgeBase (src/agilib/src/bridge/bridge_base.cpp): the arming     *)
(* switch and dead-man watchdog every bridge to a vehicle inherits.        *)
(*                                                                         *)
(* Two kinds of threads share three atomics without a lock:                *)
(*   - the clients, threads that call send(), activate(), deactivate() and *)
(*     reset() in any order (Pilot calls all of them);                     *)
(*   - the guard thread, guardTimeout(), which wakes when no command was   *)
(*     sent for timeout_ seconds, counts the timeout, and disarms the      *)
(*     bridge once it is locked.                                           *)
(* One action is one atomic access (or one call of sendCommand), in the    *)
(* order of the code; what a thread has loaded and not used yet is in      *)
(* sees and guardSees.                                                     *)
(*                                                                         *)
(* sendCommand() is virtual.  It is modelled as BetaflightUdpBridge does   *)
(* it: an inactive bridge or an invalid command sends the safe packet, and *)
(* the packet goes over UDP, where it can fail to be sent or be lost.      *)
(***************************************************************************)
EXTENDS Integers

CONSTANTS
  Clients,       \* threads that call the public operations
  MaxTimeouts    \* n_max_timeouts_; 0 switches the lockout off

ASSUME MaxTimeoutsAssumption == MaxTimeouts \in Nat

Guard == "guard"

ASSUME GuardIsNoClient == Guard \notin Clients

Threads == Clients \cup {Guard}

VARIABLES
  active,        \* active_
  nTimeouts,     \* n_timeouts_
  gotCommand,    \* got_command_
  notified,      \* timeout_reset_cv_ was notified while the guard waits
  pc,            \* where each client is
  sees,          \* the value of active_ a client's send() has loaded
  guardPc,       \* where the guard thread is
  guardSees,     \* the value of active_ the guard has loaded
  receiver,      \* last packet the vehicle received: safe, zero or command
  stale          \* history: threads whose armed packet left after active_ fell

vars == <<active, nTimeouts, gotCommand, notified, pc, sees, guardPc,
          guardSees, receiver, stale>>

clientVars == <<pc, sees>>
guardVars  == <<guardPc, guardSees>>

(***************************************************************************)
(* Packets: "safe" has the arming channel low, "zero" and "command" have   *)
(* it high with zero thrust or with the client's command.                  *)
(***************************************************************************)
Packets == {"safe", "zero", "command"}
ClientPcs == {"idle", "mark", "load", "transmit", "settle", "arm", "forget"}
GuardPcs == {"waiting", "load", "decide", "heard", "limit", "count", "disarm",
             "reload", "sendZero"}

TypeOK ==
  /\ active \in BOOLEAN
  /\ nTimeouts \in Nat
  /\ gotCommand \in BOOLEAN
  /\ notified \in BOOLEAN
  /\ pc \in [Clients -> ClientPcs]
  /\ sees \in [Clients -> BOOLEAN]
  /\ guardPc \in GuardPcs
  /\ guardSees \in BOOLEAN
  /\ receiver \in Packets
  /\ stale \subseteq Threads

\* Mutated form of locked: off by one.
LockedLate == MaxTimeouts > 0 /\ nTimeouts > MaxTimeouts

locked == MaxTimeouts > 0 /\ nTimeouts >= MaxTimeouts

Init ==
  /\ active = FALSE
  /\ nTimeouts = 0
  /\ gotCommand = FALSE
  /\ notified = FALSE
  /\ pc = [c \in Clients |-> "idle"]
  /\ sees = [c \in Clients |-> FALSE]
  /\ guardPc = "waiting"
  /\ guardSees = FALSE
  /\ receiver = "safe"
  /\ stale = {}

-----------------------------------------------------------------------------
(***************************************************************************)
(* The packet sendCommand(command, armed) puts on the wire, and what       *)
(* becomes of it.                                                          *)
(***************************************************************************)
Packet(content, armed, valid) == IF armed /\ valid THEN content ELSE "safe"

Outcomes == {"delivered", "lost", "failed"}

\* The receiver after thread t transmitted packet p with outcome o.
Transmit(t, p, o) ==
  /\ receiver' = IF o = "delivered" THEN p ELSE receiver
  /\ stale' = IF o # "failed" /\ p # "safe" /\ ~active
              THEN stale \cup {t} ELSE stale

\* active_.store(FALSE); a fall of active_ starts a new history.
Disarm ==
  /\ active' = FALSE
  /\ stale' = IF active THEN {} ELSE stale

Goto(c, label) == pc' = [pc EXCEPT ![c] = label]

-----------------------------------------------------------------------------
(***************************************************************************)
(* send(command)                                                           *)
(***************************************************************************)
\* A locked bridge refuses: send() returns FALSE and the client is idle again.
SendChecks(c) ==
  /\ pc[c] = "idle"
  /\ Goto(c, IF locked THEN "idle" ELSE "mark")
  /\ UNCHANGED <<active, nTimeouts, gotCommand, notified, sees, guardVars,
                 receiver, stale>>

SendMarks(c) ==
  /\ pc[c] = "mark"
  /\ gotCommand' = TRUE
  /\ Goto(c, "load")
  /\ UNCHANGED <<active, nTimeouts, notified, sees, guardVars, receiver, stale>>

\* Mutated form of SendLoads: once armed, the flag is not read again.
SendLatches(c) ==
  /\ pc[c] = "load"
  /\ sees' = [sees EXCEPT ![c] = sees[c] \/ active]
  /\ Goto(c, "transmit")
  /\ UNCHANGED <<active, nTimeouts, gotCommand, notified, guardVars, receiver,
                 stale>>

SendLoads(c) ==
  /\ pc[c] = "load"
  /\ sees' = [sees EXCEPT ![c] = active]
  /\ Goto(c, "transmit")
  /\ UNCHANGED <<active, nTimeouts, gotCommand, notified, guardVars, receiver,
                 stale>>

\* sendCommand(); only a valid command that left the socket returns TRUE, and
\* then the condition variable is notified: a waiting guard starts over.
SendTransmits(c, valid, o) ==
  LET ret == valid /\ o # "failed"
  IN /\ pc[c] = "transmit"
     /\ Transmit(c, Packet("command", sees[c], valid), o)
     /\ notified' = (notified \/ (ret /\ guardPc = "waiting"))
     /\ Goto(c, IF ret THEN "settle" ELSE "idle")
     /\ UNCHANGED <<active, nTimeouts, gotCommand, sees, guardVars>>

\* Mutated form of SendSettles: the decrement without the test for zero.
SettlesBelowZero(c) ==
  /\ pc[c] = "settle"
  /\ nTimeouts' = IF nTimeouts = 0 THEN 0 - 1 ELSE nTimeouts - 1
  /\ Goto(c, "idle")
  /\ UNCHANGED <<active, gotCommand, notified, sees, guardVars, receiver, stale>>

\* The compare-exchange loop: one atomic decrement of a positive counter.
SendSettles(c) ==
  /\ pc[c] = "settle"
  /\ nTimeouts' = IF nTimeouts > 0 THEN nTimeouts - 1 ELSE 0
  /\ Goto(c, "idle")
  /\ UNCHANGED <<active, gotCommand, notified, sees, guardVars, receiver, stale>>

Send(c) ==
  \/ SendChecks(c)
  \/ SendMarks(c)
  \/ SendLoads(c)
  \/ \E valid \in BOOLEAN, o \in Outcomes : SendTransmits(c, valid, o)
  \/ SendSettles(c)

(***************************************************************************)
(* activate(): check, then store; a locked bridge refuses.                 *)
(***************************************************************************)
ActivateChecks(c) ==
  /\ pc[c] = "idle"
  /\ Goto(c, IF locked THEN "idle" ELSE "arm")
  /\ UNCHANGED <<active, nTimeouts, gotCommand, notified, sees, guardVars,
                 receiver, stale>>

ActivateStores(c) ==
  /\ pc[c] = "arm"
  /\ active' = TRUE
  /\ stale' = {}
  /\ Goto(c, "idle")
  /\ UNCHANGED <<nTimeouts, gotCommand, notified, sees, guardVars, receiver>>

Activate(c) == ActivateChecks(c) \/ ActivateStores(c)

Deactivate(c) ==
  /\ pc[c] = "idle"
  /\ Disarm
  /\ UNCHANGED <<nTimeouts, gotCommand, notified, clientVars, guardVars,
                 receiver>>

(***************************************************************************)
(* reset(): two stores; active_ is left alone.                             *)
(***************************************************************************)
ResetClears(c) ==
  /\ pc[c] = "idle"
  /\ nTimeouts' = 0
  /\ Goto(c, "forget")
  /\ UNCHANGED <<active, gotCommand, notified, sees, guardVars, receiver, stale>>

ResetForgets(c) ==
  /\ pc[c] = "forget"
  /\ gotCommand' = FALSE
  /\ Goto(c, "idle")
  /\ UNCHANGED <<active, nTimeouts, notified, sees, guardVars, receiver, stale>>

Reset(c) == ResetClears(c) \/ ResetForgets(c)

-----------------------------------------------------------------------------
(***************************************************************************)
(* guardTimeout()                                                          *)
(***************************************************************************)
GuardMoves(from, to) == guardPc = from /\ guardPc' = to

\* wait_for returned no_timeout: nothing happens, the full wait starts over.
GuardNotified ==
  /\ guardPc = "waiting"
  /\ notified
  /\ notified' = FALSE
  /\ UNCHANGED <<active, nTimeouts, gotCommand, clientVars, guardVars, receiver,
                 stale>>

\* wait_for returned timeout; it compares clocks, so a guard that was notified
\* but woke up late sees a timeout as well.
GuardTimesOut ==
  /\ GuardMoves("waiting", "load")
  /\ notified' = FALSE
  /\ UNCHANGED <<active, nTimeouts, gotCommand, clientVars, guardSees, receiver,
                 stale>>

GuardLoads ==
  /\ GuardMoves("load", "decide")
  /\ guardSees' = active
  /\ UNCHANGED <<active, nTimeouts, gotCommand, notified, clientVars, receiver,
                 stale>>

\* Mutated form of GuardDecides: an inactive bridge is not sent anything.
GuardSkipsInactive ==
  /\ GuardMoves("decide", IF ~guardSees THEN "waiting"
                          ELSE IF MaxTimeouts < 1 THEN "sendZero" ELSE "heard")
  /\ UNCHANGED <<active, nTimeouts, gotCommand, notified, clientVars, guardSees,
                 receiver, stale>>

\* n_max_timeouts_ < 1 || !active || !got_command_: a bare zero command.
GuardDecides ==
  /\ GuardMoves("decide",
                IF MaxTimeouts < 1 \/ ~guardSees THEN "sendZero" ELSE "heard")
  /\ UNCHANGED <<active, nTimeouts, gotCommand, notified, clientVars, guardSees,
                 receiver, stale>>

GuardChecksHeard ==
  /\ GuardMoves("heard", IF gotCommand THEN "limit" ELSE "sendZero")
  /\ UNCHANGED <<active, nTimeouts, gotCommand, notified, clientVars, guardSees,
                 receiver, stale>>

GuardChecksLimit ==
  /\ GuardMoves("limit", IF locked THEN "disarm" ELSE "count")
  /\ UNCHANGED <<active, nTimeouts, gotCommand, notified, clientVars, guardSees,
                 receiver, stale>>

\* Mutated form of GuardCounts: the timeout is not counted.
GuardForgetsCount ==
  /\ GuardMoves("count", "sendZero")
  /\ UNCHANGED <<active, nTimeouts, gotCommand, notified, clientVars, guardSees,
                 receiver, stale>>

GuardCounts ==
  /\ GuardMoves("count", "sendZero")
  /\ nTimeouts' = nTimeouts + 1
  /\ UNCHANGED <<active, gotCommand, notified, clientVars, guardSees, receiver,
                 stale>>

\* Mutated form of GuardDisarms: it reports the lockout but leaves active_ set.
GuardKeepsArmed ==
  /\ GuardMoves("disarm", "reload")
  /\ UNCHANGED <<active, nTimeouts, gotCommand, notified, clientVars, guardSees,
                 receiver, stale>>

GuardDisarms ==
  /\ GuardMoves("disarm", "reload")
  /\ Disarm
  /\ UNCHANGED <<nTimeouts, gotCommand, notified, clientVars, guardSees,
                 receiver>>

GuardReloads ==
  /\ GuardMoves("reload", "sendZero")
  /\ guardSees' = active
  /\ UNCHANGED <<active, nTimeouts, gotCommand, notified, clientVars, receiver,
                 stale>>

GuardSends(o) ==
  /\ GuardMoves("sendZero", "waiting")
  /\ Transmit(Guard, Packet("zero", guardSees, TRUE), o)
  /\ UNCHANGED <<active, nTimeouts, gotCommand, notified, clientVars, guardSees>>

GuardStep ==
  \/ GuardNotified
  \/ GuardTimesOut
  \/ GuardLoads
  \/ GuardDecides
  \/ GuardChecksHeard
  \/ GuardChecksLimit
  \/ GuardCounts
  \/ GuardDisarms
  \/ GuardReloads
  \/ \E o \in Outcomes : GuardSends(o)

-----------------------------------------------------------------------------
ClientStep(c) == Send(c) \/ Activate(c) \/ Deactivate(c) \/ Reset(c)

Next == GuardStep \/ \E c \in Clients : ClientStep(c)

Spec == Init /\ [][Next]_vars

(***************************************************************************)
(* Fairness: the guard thread is scheduled; a steady stream of commands may *)
(* keep notifying it, so it is not obliged to time out.  Of the packets a  *)
(* thread sends again and again, not all are lost.  Clients are never      *)
(* obliged to call anything.                                               *)
(***************************************************************************)
FairLink ==
  /\ SF_vars(GuardSends("delivered"))
  /\ \A c \in Clients :
       SF_vars(\E valid \in BOOLEAN : SendTransmits(c, valid, "delivered"))

FairSpec == Spec /\ WF_vars(GuardStep) /\ FairLink

-----------------------------------------------------------------------------
(***************************************************************************)
(* Properties                                                              *)
(***************************************************************************)

\* guardTimeout checks locked() and increments the counter in two steps; still
\* the counter never passes the limit, so that the number of successful sends
\* a locked bridge is away from being usable does not grow with the silence.
CountBounded == MaxTimeouts > 0 => nTimeouts <= MaxTimeouts

\* A thread carries an armed packet: it loaded active_ as TRUE and has not
\* called sendCommand() with it yet.
CarriesArmed(t) ==
  IF t = Guard
  THEN guardSees /\ guardPc \in {"decide", "heard", "limit", "count", "sendZero"}
  ELSE sees[t] /\ pc[t] = "transmit"

\* After deactivate() (by a client or by the guard) every thread transmits at
\* most one more armed packet until activate(): send() and guardTimeout() load
\* active_ before they transmit, so one may be in hand, but never a second.
AtMostOneStale == ~active => \A t \in stale : ~CarriesArmed(t)

\* guardTimeout: if from some point on only the guard runs, the bridge does not
\* stay armed, unless nobody ever sent it a command (or reset() forgot it).
SilenceDisarms ==
  MaxTimeouts > 0 /\ <>[][GuardStep]_vars => <>[](~active \/ ~gotCommand)

\* guardTimeout's else branch: a locked bridge that has had a command is
\* disarmed, or a send in flight or reset() unlocks it or forgets the command.
LockDisarms ==
  (locked /\ active /\ gotCommand) ~> (~active \/ ~locked \/ ~gotCommand)

\* The dead-man switch: silence disarms, and so does the lock.
DeadManDisarms == SilenceDisarms /\ LockDisarms

\* Once the bridge stays deactivated the vehicle ends up with the safe packet
\* last received, whatever the clients do and whoever transmitted last: the
\* guard keeps sending while it is not armed, and nobody sends an armed packet.
DisarmReachesReceiver == <>[]~active => <>[](receiver = "safe")

\* bridge_base.cpp:81, "Else we disarm": a locked bridge is disarmed by
\* guardTimeout unless it is unlocked first.
LockedIsDisarmed == (locked /\ active) ~> (~active \/ ~locked)

=============================================================================
