--------------------------- MODULE MCCtrlFeedback ---------------------------
EXTENDS CtrlFeedback

\* Checked once for every run: all messages of up to four bytes.
ASSUME Stuffing ==
  \A n \in 1..4 : \A src \in [1..n -> Byte] : StuffingIsRight(src)
=============================================================================
