---------------------------- MODULE CtrlFeedback ----------------------------
(***************************************************************************)
(* The way of a flight controller's feedback to agi::CtrlBridge            *)
(* (src/agilib/src/bridge/ctrl): over a serial line that loses and changes *)
(* bytes, through the reading thread of agi::SerialPort                    *)
(* (src/agilib/src/serial/serial.cpp), which finds messages between        *)
(* delimiters, into the decoder, which refuses feedback that is older than *)
(* the last.                                                               *)
(*                                                                         *)
(* A container holds messages; its length, header, checksum and payload    *)
(* are left out: a message is one byte, the time of the feedback it        *)
(* carries, or NoFeedback if it is of another mode.  The checksum is taken *)
(* to find all damage.  The flight controller is not part of the           *)
(* repository: it frames what it sends as CtrlEncoding does, and its clock *)
(* starts again when it does.                                              *)
(***************************************************************************)
EXTENDS Cobs

CONSTANTS
  SignedChar,   \* char is signed in this build
  BS,           \* BUFFER_SIZE
  Padding,      \* frames are padded to a multiple of this
  MaxClock,     \* bound: where the clock of the flight controller stops
  MaxUnread     \* bound: bytes on the line that have not been read

\* A message is a byte.  The longest container has two: the count of its bytes is
\* a byte, and the buffer has room for it, stuffed and between two delimiters.
ASSUME FeedbackAssumption ==
  /\ SignedChar \in BOOLEAN
  /\ BS \in Nat /\ BS >= 5
  /\ Padding \in Nat \ {0}
  /\ MaxClock \in Nat /\ MaxClock + 2 < Base /\ 3 < Base
  /\ MaxUnread \in Nat

VARIABLES
  clock,        \* of the flight controller
  \* the line, as far as it is not read.  A byte knows whether it is the first
  \* or a later one of a message that is as it was sent
  line,
  \* the reading thread
  rx,           \* receive_buffer_
  message,      \* received_message_, with received_message_length_
  bound,        \* receive_callback_ is set
  \* the decoder
  started,      \* time_ns_init_ has been set, by the first command
  newest,       \* feedback_.t
  \* history
  sent,         \* the messages of which the first byte is on its way
  skipped,      \* one that was owed was not decoded, or not to what was sent
  refusals      \* containers that were refused in a row

readerVars == <<rx, message>>
decoderVars == <<newest, skipped, refusals, sent>>
feedbackVars == <<clock, line, readerVars, bound, started, decoderVars>>

NaN == -1

\* Messages: feedback of some time, and any that is not expected.
NoFeedback == MaxClock + 2
Messages == 0..MaxClock \cup {NoFeedback}
Containers == UNION {[1..n -> Messages] : n \in 1..2}

Times == 0..2 * MaxClock + 1

WireByte == [v : Byte, mark : {"first", "later", "none"}]

Values(msg) == [i \in 1..Len(msg) |-> msg[i].v]

FeedbackTypeOK ==
  /\ clock \in 0..MaxClock
  /\ line \in Seq(WireByte) /\ Len(line) <= MaxUnread
  /\ rx \in Seq(WireByte) /\ Len(rx) < BS
  /\ message \in Seq(WireByte) /\ Len(message) < BS
  /\ bound \in BOOLEAN
  /\ started \in BOOLEAN
  /\ newest \in Times \cup {NaN}
  /\ sent \in Seq([content : Containers, owed : BOOLEAN])
  /\ skipped \in BOOLEAN
  /\ refusals \in 0..2

FeedbackInit ==
  /\ clock = 0
  /\ line = <<>>
  /\ rx = <<>>
  /\ message = <<>>
  /\ bound = FALSE
  /\ started = FALSE
  /\ newest = NaN
  /\ sent = <<>>
  /\ skipped = FALSE
  /\ refusals = 0

-----------------------------------------------------------------------------
(***************************************************************************)
(* The flight controller                                                   *)
(***************************************************************************)
Ticks ==
  /\ clock < MaxClock
  /\ clock' = clock + 1
  /\ UNCHANGED <<line, readerVars, bound, started, decoderVars>>

Restarts ==
  /\ clock' = 0
  /\ UNCHANGED <<line, readerVars, bound, started, decoderVars>>

\* Feedback, feedback twice, or something else.
Sendable == {<<clock>>, <<clock, clock>>, <<NoFeedback>>}

\* What encodeContainer() makes of each container, and decodeContainer() of that.
Encodings ==
  {[of |-> c, bytes |-> Stuff(c), decoded |-> Unstuff(Stuff(c))] : c \in Containers}

Encoding(container) == CHOOSE e \in Encodings : e.of = container

\* A delimiter in front, and at least one behind.
Frame(container) ==
  LET body == Encoding(container).bytes
      fill == Padding - ((Len(body) + 1) % Padding)
  IN <<Delimiter>> \o body \o [i \in 1..fill |-> Delimiter]

-----------------------------------------------------------------------------
(***************************************************************************)
(* The line                                                                *)
(***************************************************************************)
Raw(v) == [v |-> v, mark |-> "none"]

\* The frame on the line, its message marked.
OnLine(frame) ==
  [i \in 1..Len(frame) |->
     CASE frame[i] = Delimiter -> Raw(frame[i])
       [] i = 2                -> [v |-> frame[i], mark |-> "first"]
       [] OTHER                -> [v |-> frame[i], mark |-> "later"]]

\* A byte is lost; or a delimiter becomes some other byte, or the other way round.
Noise == Raw(0)

Damages(bytes, i) ==
  {RemoveAt(bytes, i),
   ReplaceAt(bytes, i, IF bytes[i] = Raw(Delimiter) THEN Noise ELSE Raw(Delimiter))}

\* container_buffer[0] is a char: if that is signed, the length of two messages
\* of feedback does not fit.
Decodable(container) ==
  ~SignedChar \/ Len(SelectSeq(container, LAMBDA m : m # NoFeedback)) < 2

Sends(container, arriving, isSent) ==
  /\ Len(line) + Len(Frame(container)) <= MaxUnread
  /\ line' = line \o arriving
  /\ sent' = sent \o isSent
  /\ UNCHANGED <<clock, readerVars, bound, started, newest, skipped,
                 refusals>>

\* A frame that is not damaged is owed, if the callback is bound.
Arrives(container) ==
  Sends(container, OnLine(Frame(container)),
        <<[content |-> container, owed |-> bound /\ Decodable(container)]>>)

\* A message whose delimiter is damaged may be decoded, or may not be found.
LosesDelimiter(container) ==
  LET frame == OnLine(Frame(container))
  IN \E i \in {j \in 1..Len(frame) : frame[j] = Raw(Delimiter)} :
       \E arriving \in Damages(frame, i) :
         Sends(container, arriving, <<[content |-> container, owed |-> FALSE]>>)

\* One that is damaged itself will not be decoded, whatever its bytes are.
IsDamaged(container) ==
  LET frame == [i \in 1..Len(Frame(container)) |->
                  IF Frame(container)[i] = Delimiter THEN Raw(Delimiter) ELSE Noise]
  IN \E i \in {j \in 1..Len(frame) : frame[j] = Noise} :
       \E arriving \in Damages(frame, i) : Sends(container, arriving, <<>>)

-----------------------------------------------------------------------------
(***************************************************************************)
(* The decoder                                                             *)
(***************************************************************************)
\* decodeContainer() finds the container in msg.
Accepts(msg, container) ==
  /\ \A i \in 1..Len(msg) : msg[i].mark # "none"
  /\ Values(msg) = Encoding(container).bytes
  /\ Encoding(container).decoded = container
  /\ Decodable(container)

\* The time of the first command is added to that of the flight controller.
Stamp(m) == m + IF started THEN MaxClock + 1 ELSE 0

\* decodeFeedback(): messages that are no feedback, or older than feedback that
\* was decoded before, do not count.  A comparison with NaN is false.
Newer(t, m) ==
  IF m = NoFeedback \/ Stamp(m) < newest \/ Stamp(m) < t THEN t ELSE Stamp(m)

Newest(container) == Along(container, NaN, Newer)

\* A container with feedback of which nothing was decoded.
Counts(container) ==
  refusals' = IF Newest(container) # NaN THEN 0
              ELSE IF \E m \in Messages : m # NoFeedback /\ Contains(container, m)
              THEN Min({refusals + 1, 2})
              ELSE refusals

\* Mutated form of Decodes: feedback_ is kept if nothing was decoded.
DecodesOrKeeps(container) ==
  /\ newest' = IF Newest(container) = NaN THEN newest ELSE Newest(container)
  /\ Counts(container)

\* feedback_ is overwritten even if nothing was decoded.
Decodes(container) ==
  /\ newest' = Newest(container)
  /\ Counts(container)

-----------------------------------------------------------------------------
(***************************************************************************)
(* serialThread()                                                          *)
(***************************************************************************)
\* The buffer from the last of the first delimiters in a row; all of it if there
\* is none.
FromStart(got) ==
  LET delimiters == {i \in 1..Len(got) : got[i].v = Delimiter}
      lasts == {i \in delimiters : i + 1 \notin delimiters}
  IN IF lasts = {} THEN got ELSE SubSeq(got, Min(lasts), Len(got))

\* The next delimiter, which ends the message.
End(from) ==
  LET ends == {i \in 2..Len(from) : from[i].v = Delimiter}
  IN IF ends = {} THEN 0 ELSE Min(ends)

\* Mutated form of Rest: what was read behind a message is dropped.
RestDropped(from) == IF End(from) = 0 THEN from ELSE <<>>

\* What stays in the buffer: the end of a message may start the next.
Rest(from) ==
  IF End(from) = 0 THEN from ELSE SubSeq(from, End(from), Len(from))

\* A message that nobody has taken is dropped if the buffer fills up.
Kept(got) == IF Len(message) >= BS - Len(got) THEN <<>> ELSE message

\* A new message overwrites one that nobody has taken.
Message(got, from) ==
  IF End(from) = 0 THEN Kept(got) ELSE SubSeq(from, 2, End(from) - 1)

Firsts(bytes) == Cardinality({i \in 1..Len(bytes) : bytes[i].mark = "first"})

\* An iteration that has read k bytes leaves rest and msg in its buffers.  The
\* messages that have left them are skipped, except the last if it is accepted.
Leaves(k, rest, msg, accepted) ==
  /\ line' = SubSeq(line, k + 1, Len(line))
  /\ rx' = rest
  /\ message' = msg
  /\ \E gone \in {Len(sent) - Firsts(msg \o rest \o SubSeq(line, k + 1, Len(line)))} :
       /\ sent' = SubSeq(sent, gone + 1, Len(sent))
       /\ skipped' = (skipped \/ \E i \in 1..gone :
                        sent[i].owed /\ ~(accepted /\ i = gone))
  /\ UNCHANGED <<clock, bound, started>>

\* The iteration ends early, ...
NothingYet(k, got) ==
  /\ Len(got) <= 1
  /\ Leaves(k, got, message, FALSE)
  /\ UNCHANGED <<newest, refusals>>

NoStart(k, got, from) ==
  /\ Len(got) > 1
  /\ from[1].v # Delimiter
  /\ Leaves(k, <<>>, Kept(got), FALSE)
  /\ UNCHANGED <<newest, refusals>>

\* ... or the callback gets a message, ...
HandsOver(k, from, msg) ==
  /\ bound /\ msg # <<>>
  /\ \E last \in {Len(sent) - Firsts(SubSeq(line, k + 1, Len(line)) \o Rest(from))} :
       IF last > 0 /\ Accepts(msg, sent[last].content)
       THEN Leaves(k, Rest(from), <<>>, TRUE) /\ Decodes(sent[last].content)
       ELSE Leaves(k, Rest(from), <<>>, FALSE) /\ UNCHANGED <<newest, refusals>>

\* Mutated form of Trash: a full buffer is kept.
TrashNothing(rest) == rest

\* A full buffer that holds no message is thrown away.
Trash(rest) == IF Len(rest) = BS THEN <<>> ELSE rest

\* ... or there is none, or nobody to get it.
Waits(k, from, msg) ==
  /\ ~bound \/ msg = <<>>
  /\ Leaves(k, Trash(Rest(from)), msg, FALSE)
  /\ UNCHANGED <<newest, refusals>>

FindsMessage(k, got, from) ==
  /\ Len(got) > 1
  /\ from[1].v = Delimiter
  /\ \E msg \in {Message(got, from)} : HandsOver(k, from, msg) \/ Waits(k, from, msg)

\* An iteration that reads k bytes.
Iteration(k) ==
  \E got \in {rx \o SubSeq(line, 1, k)} :
    \/ NothingYet(k, got)
    \/ \E from \in {FromStart(got)} : NoStart(k, got, from) \/ FindsMessage(k, got, from)

\* Mutated form of Reads: read() waits for bytes.
ReadsSome == 1..Min({Len(line), BS - Len(rx)})

\* read() does not wait for bytes, and returns what there is.
Reads == 0..Min({Len(line), BS - Len(rx)})

Iterates == \E k \in Reads : Iteration(k)

-----------------------------------------------------------------------------
\* The constructor of CtrlBridge binds the callback when the thread runs already.
Binds ==
  /\ ~bound
  /\ bound' = TRUE
  /\ UNCHANGED <<clock, line, readerVars, started, decoderVars>>

\* encode() of the first command.
Starts ==
  /\ ~started
  /\ started' = TRUE
  /\ UNCHANGED <<clock, line, readerVars, bound, decoderVars>>

FeedbackNext ==
  \/ Ticks \/ Restarts
  \/ \E c \in Sendable : Arrives(c) \/ LosesDelimiter(c) \/ IsDamaged(c)
  \/ Iterates
  \/ Binds \/ Starts

FeedbackSpec == FeedbackInit /\ [][FeedbackNext]_feedbackVars

\* Fairness: the reading thread goes on, also if there is nothing to read.
FeedbackFairSpec == FeedbackSpec /\ WF_feedbackVars(0 \in Reads /\ Iteration(0))

-----------------------------------------------------------------------------
(***************************************************************************)
(* Properties                                                              *)
(***************************************************************************)

\* A message that arrives between two delimiters is decoded, to what was sent
\* and in the order of sending: whatever was lost or changed in front of it and
\* behind it, however the line cuts what it delivers, and though a full buffer
\* is thrown away.
NoneSkipped == ~skipped

\* When the flight controller restarts its clock falls behind the newest
\* feedback.  That costs one container, not all until the clock has caught up.
NeverLockedOut == refusals < 2

\* When nothing more is sent no such message stays in the buffer, although an
\* iteration takes one message only and several may come in one read.
SilentLineDrains ==
  <>[](line = <<>>) => <>[](\A i \in 1..Len(sent) : ~sent[i].owed)
=============================================================================
