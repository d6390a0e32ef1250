-------------------------------- MODULE Cobs --------------------------------
(***************************************************************************)
(* Consistent overhead byte stuffing (agi::COBS,                           *)
(* src/agilib/include/agilib/serial/cobs.hpp): a message is rewritten      *)
(* without the delimiter.  A count replaces each delimiter and precedes    *)
(* the message; it says how far the next count is.                         *)
(***************************************************************************)
EXTENDS Integers, SequencesExt

CONSTANTS
  Base,       \* values of a byte: 256
  Delimiter   \* SERIAL_CONTAINER_DELIMITER

ASSUME CobsAssumption == Base \in Nat /\ Delimiter \in 1..Base - 1

Byte == 0..Base - 1

\* A count as a byte: 0 stands for the delimiter.
CountByte(n) == IF n = Delimiter THEN 0 ELSE n % Base

\* The state after each byte of src: after(previous state, byte).
Along(src, first, after(_, _)) ==
  LET st[i \in 0..Len(src)] == IF i = 0 THEN first ELSE after(st[i - 1], src[i])
  IN st[Len(src)]

\* stuff(): last is where the count of the present block goes.
StuffNext(st, c) ==
  IF c # Delimiter
  THEN [st EXCEPT !.dst = Append(@, c), !.count = @ + 1]
  ELSE [dst   |-> Append([st.dst EXCEPT ![st.last] = CountByte(st.count)], 0),
        last  |-> Len(st.dst) + 1,
        count |-> 1]

Stuff(src) ==
  LET end == Along(src, [dst |-> <<0>>, last |-> 1, count |-> 1], StuffNext)
  IN [end.dst EXCEPT ![end.last] = CountByte(end.count)]

\* What is left of a block after its count was read.
Left(count) == (IF count = 0 THEN Delimiter ELSE count) - 1

Garbage == <<>>

\* unstuff(): Garbage unless the blocks end where the message does.
UnstuffNext(st, c) ==
  IF st.count # 0
  THEN [dst |-> Append(st.dst, c), count |-> st.count - 1]
  ELSE [dst |-> Append(st.dst, Delimiter), count |-> Left(c)]

Unstuff(src) ==
  LET end == Along(Tail(src), [dst |-> <<>>, count |-> Left(src[1])], UnstuffNext)
  IN IF Contains(Tail(src), Delimiter) \/ end.count # 0 THEN Garbage ELSE end.dst

(***************************************************************************)
(* What stuffing is meant to compute: put a delimiter in front of the      *)
(* message and one behind it; then the first becomes, and each of the      *)
(* message does, the distance to the next.                                 *)
(***************************************************************************)
Reference(src) ==
  LET msg == <<Delimiter>> \o src \o <<Delimiter>>
      next(i) == Min({j \in i + 1..Len(msg) : msg[j] = Delimiter})
  IN [i \in 1..Len(src) + 1 |->
        IF msg[i] = Delimiter THEN CountByte(next(i) - i) ELSE msg[i]]

\* Stuff computes what it is meant to and Unstuff undoes it; no delimiter is
\* left, and the length grows by one.
StuffingIsRight(src) ==
  /\ Stuff(src) = Reference(src)
  /\ Unstuff(Stuff(src)) = src
  /\ ~Contains(Stuff(src), Delimiter)
=============================================================================
