--------------------------- MODULE MCBetaflightMsp ---------------------------
(***************************************************************************)
(* Model checking BetaflightMsp; the bound is set in the cfg files.        *)
(***************************************************************************)
EXTENDS BetaflightMsp
=============================================================================
