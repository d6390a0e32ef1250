---------------------------- MODULE BetaflightMsp ----------------------------
(***************************************************************************)
(* The MSP monitor (src/agilib/apps/betaflight_msp_client.cpp): a thread   *)
(* that polls the flight controller over a TCP stream, one request at a    *)
(* time, in sweeps of three requests; each reply is waited for kReadTimeout *)
(* at most.  Betaflight answers in order, but as late as it likes.         *)
(*                                                                         *)
(* A frame is the code it answers and the sweep that asked for it: the     *)
(* client cannot see the latter, it shows how old the answer is.  Bytes    *)
(* received and bytes still in the socket are one queue, rx.  A reply that *)
(* is dropped, rejected or fails its checksum is no reply.                 *)
(***************************************************************************)
EXTENDS Integers, Sequences

CONSTANT
  MaxSweeps      \* bound on the sweeps of a behaviour

ASSUME MaxSweepsAssumption == MaxSweeps \in Nat

\* MSP_STATUS, MSP_ATTITUDE and MSP_ANALOG, in the order they are asked for.
Codes == 1..3

VARIABLES
  running,       \* running_
  caller,        \* where the thread is that calls start() and stop()
  poll,          \* where the polling thread is
  code,          \* the code it asks for
  swept,         \* swept
  connected,     \* both ends of the connection are open
  toFc,          \* requests Betaflight has not answered
  rx,            \* replies the client has not read
  shown,         \* snapshot_: the sweep each part of it answers; 0 for none
  sequence,      \* snapshot_.sequence
  sweep,         \* history: the sweeps begun
  session,       \* history: sweep at the last start()
  missed         \* history: of each code, the sweeps since without a reply read

pollVars == <<poll, code, swept, sweep>>
wire == <<connected, toFc, rx>>
snapshot == <<shown, sequence>>
vars == <<running, caller, pollVars, wire, snapshot, session, missed>>

Frames == [code : Codes, sweep : 1..MaxSweeps]

TypeOK ==
  /\ running \in BOOLEAN
  /\ caller \in {"out", "stopping"}
  /\ poll \in {"off", "top", "ask", "read", "publish", "ended"}
  /\ code \in Codes
  /\ swept \in BOOLEAN
  /\ connected \in BOOLEAN
  /\ toFc \in Seq(Frames)
  /\ rx \in Seq(Frames)
  /\ shown \in [Codes -> 0..MaxSweeps]
  /\ sequence \in 0..MaxSweeps
  /\ sweep \in 0..MaxSweeps
  /\ session \in 0..MaxSweeps
  /\ missed \in [Codes -> Nat]

Init ==
  /\ running = FALSE
  /\ caller = "out"
  /\ poll = "off"
  /\ code = 1
  /\ swept = FALSE
  /\ connected = FALSE
  /\ toFc = <<>>
  /\ rx = <<>>
  /\ shown = [c \in Codes |-> 0]
  /\ sequence = 0
  /\ sweep = 0
  /\ session = 0
  /\ missed = [c \in Codes |-> 0]

-----------------------------------------------------------------------------
(***************************************************************************)
(* start() and stop(); the snapshot outlives both.                         *)
(***************************************************************************)
\* Mutated form of Start: rx_ keeps what an earlier connection left in it.
StartKeepsBuffer ==
  /\ poll = "off"
  /\ running' = TRUE
  /\ poll' = "top"
  /\ connected' = TRUE
  /\ toFc' = <<>>
  /\ session' = sweep
  /\ missed' = [c \in Codes |-> 0]
  /\ UNCHANGED <<caller, code, swept, sweep, rx, snapshot>>

Start ==
  /\ poll = "off"
  /\ running' = TRUE
  /\ poll' = "top"
  /\ connected' = TRUE
  /\ toFc' = <<>>
  /\ rx' = <<>>
  /\ session' = sweep
  /\ missed' = [c \in Codes |-> 0]
  /\ UNCHANGED <<caller, code, swept, sweep, snapshot>>

StopBegins ==
  /\ running
  /\ running' = FALSE
  /\ caller' = "stopping"
  /\ UNCHANGED <<pollVars, wire, snapshot, session, missed>>

\* The thread is joined and the connection is reset.
StopJoins ==
  /\ caller = "stopping"
  /\ poll = "ended"
  /\ caller' = "out"
  /\ poll' = "off"
  /\ connected' = FALSE
  /\ toFc' = <<>>
  /\ UNCHANGED <<running, code, swept, sweep, rx, snapshot, session, missed>>

-----------------------------------------------------------------------------
(***************************************************************************)
(* pollLoop()                                                              *)
(***************************************************************************)
Begins ==
  /\ poll = "top"
  /\ running
  /\ sweep < MaxSweeps
  /\ poll' = "ask"
  /\ code' = 1
  /\ swept' = FALSE
  /\ sweep' = sweep + 1
  /\ UNCHANGED <<running, caller, wire, snapshot, session, missed>>

Ends ==
  /\ poll = "top"
  /\ ~running
  /\ poll' = "ended"
  /\ UNCHANGED <<running, caller, code, swept, sweep, wire, snapshot, session,
                 missed>>

\* Mutated form of Advance: it counts past the last code.
AdvanceTooFar ==
  /\ code' = code + 1
  /\ poll' = IF code < 3 THEN "ask" ELSE "publish"

\* On to the next code, or to the end of the sweep.
Advance ==
  /\ code' = IF code < 3 THEN code + 1 ELSE code
  /\ poll' = IF code < 3 THEN "ask" ELSE "publish"

Miss(cs) == missed' = [c \in Codes |-> IF c \in cs THEN missed[c] + 1
                                       ELSE missed[c]]

\* stop() was called: the rest of the sweep is left out.
Breaks ==
  /\ poll = "ask"
  /\ ~running
  /\ poll' = "publish"
  /\ Miss(code..3)
  /\ UNCHANGED <<running, caller, code, swept, sweep, wire, snapshot, session>>

\* send() may succeed although Betaflight has closed the connection.
Asks ==
  /\ poll = "ask"
  /\ running
  /\ \/ connected /\ toFc' = Append(toFc, [code |-> code, sweep |-> sweep])
     \/ ~connected /\ UNCHANGED toFc
  /\ poll' = "read"
  /\ UNCHANGED <<running, caller, code, swept, sweep, connected, rx, snapshot,
                 session, missed>>

\* send() fails: the next code is asked for.
AsksInVain ==
  /\ poll = "ask"
  /\ running
  /\ Advance
  /\ Miss({code})
  /\ UNCHANGED <<running, caller, swept, sweep, wire, snapshot, session>>

\* decodeStatus() and its like: a payload that is too short is left alone, and
\* counts as a reply all the same.
Decodes(f) ==
  /\ swept' = TRUE
  /\ \/ shown' = [shown EXCEPT ![f.code] = f.sweep]
     \/ UNCHANGED shown

\* Mutated form of Reads: the frame stays in the buffer.
ReadsTwice ==
  /\ poll = "read"
  /\ rx # <<>>
  /\ LET f == Head(rx) IN
     /\ f.code = code
     /\ Decodes(f)
     /\ Advance
     /\ UNCHANGED rx
  /\ UNCHANGED <<running, caller, sweep, connected, toFc, sequence, session,
                 missed>>

\* readFrame() takes the first frame.  One of another code is skipped; one of
\* this code is decoded, whatever request it answers.
Reads ==
  /\ poll = "read"
  /\ rx # <<>>
  /\ rx' = Tail(rx)
  /\ LET f == Head(rx) IN
     \/ /\ f.code # code
        /\ UNCHANGED <<poll, code, swept, shown>>
     \/ /\ f.code = code
        /\ Decodes(f)
        /\ Advance
  /\ UNCHANGED <<running, caller, sweep, connected, toFc, sequence, session,
                 missed>>

\* Mutated form of GivesUp: the socket has no receive timeout.
WaitsForClose ==
  /\ poll = "read"
  /\ ~connected
  /\ Advance
  /\ Miss({code})
  /\ UNCHANGED <<running, caller, swept, sweep, wire, snapshot, session>>

\* kReadTimeout is over, stop() was called, or the connection is closed.
GivesUp ==
  /\ poll = "read"
  /\ Advance
  /\ Miss({code})
  /\ UNCHANGED <<running, caller, swept, sweep, wire, snapshot, session>>

Publishes ==
  /\ poll = "publish"
  /\ poll' = "top"
  /\ sequence' = IF swept THEN sequence + 1 ELSE sequence
  /\ UNCHANGED <<running, caller, code, swept, sweep, wire, shown, session,
                 missed>>

PollStep ==
  \/ Begins
  \/ Ends
  \/ Breaks
  \/ Asks
  \/ AsksInVain
  \/ Reads
  \/ GivesUp
  \/ Publishes

-----------------------------------------------------------------------------
(***************************************************************************)
(* Betaflight and the network, as far as the client can tell.              *)
(***************************************************************************)
Answers ==
  /\ toFc # <<>>
  /\ toFc' = Tail(toFc)
  /\ rx' = Append(rx, Head(toFc))
  /\ UNCHANGED <<running, caller, pollVars, connected, snapshot, session, missed>>

IsSilent ==
  /\ toFc # <<>>
  /\ toFc' = Tail(toFc)
  /\ UNCHANGED <<running, caller, pollVars, connected, rx, snapshot, session,
                 missed>>

Disconnects ==
  /\ connected
  /\ connected' = FALSE
  /\ toFc' = <<>>
  /\ UNCHANGED <<running, caller, pollVars, rx, snapshot, session, missed>>

Next ==
  \/ Start
  \/ StopBegins
  \/ StopJoins
  \/ PollStep
  \/ Answers
  \/ IsSilent
  \/ Disconnects

Spec == Init /\ [][Next]_vars

\* Both threads of the program are scheduled; Betaflight owes nothing.
FairSpec == Spec /\ WF_vars(PollStep) /\ WF_vars(StopJoins)

-----------------------------------------------------------------------------
(***************************************************************************)
(* Properties                                                              *)
(***************************************************************************)

\* A reply may be taken for that to a later request of the same code; what it
\* tells is then as many sweeps old as its code has missed since start(), and
\* never more: without timeouts the snapshot is that of the present sweep.
AgeBounded ==
  [][\A c \in Codes :
       shown'[c] # shown[c] => sweep - shown'[c] <= missed[c]]_vars

\* start(): what an earlier connection left behind is never decoded.
FreshAfterStart ==
  [][\A c \in Codes : shown'[c] # shown[c] => shown'[c] > session]_vars

\* "Short receive timeout so the poll loop can notice stop() promptly": stop()
\* returns, whatever Betaflight does.
StopEnds == (caller = "stopping") ~> (caller = "out")

\* betaflight_msp_client.cpp:193, "Request and consume one message at a time
\* ... interleaving two outstanding requests would make a dropped reply
\* desynchronise the pairing for good": a reply answers the request just made.
\* It need not, and no run checks this: a request that timed out is still
\* outstanding, and its reply is taken for that to the next one.  AgeBounded says
\* how far the pairing can slip.
PairingKept ==
  [][\A c \in Codes : shown'[c] # shown[c] => shown'[c] = sweep]_vars

=============================================================================
