------------------------------- MODULE Takeover -------------------------------
(***************************************************************************)
(* What the guard of a pilot promises (src/README.md: "take over if some   *)
(* criteria are invalidated"), seen from outside: the user is in control   *)
(* of the vehicle until the guard takes over, and gets the control back    *)
(* only of a disarmed vehicle.  Taking over does not arm or disarm.        *)
(***************************************************************************)
VARIABLES
  control,   \* who flies: "user" or "guard"
  armed      \* a bridge to the vehicle is active

vars == <<control, armed>>

Init ==
  /\ control = "user"
  /\ armed = FALSE

Switch ==
  /\ armed' \in BOOLEAN
  /\ UNCHANGED control

TakeOver ==
  /\ control = "user"
  /\ control' = "guard"
  /\ UNCHANGED armed

Release ==
  /\ control = "guard"
  /\ control' = "user"
  /\ armed' = FALSE

Next == Switch \/ TakeOver \/ Release

Spec == Init /\ [][Next]_vars

=============================================================================
