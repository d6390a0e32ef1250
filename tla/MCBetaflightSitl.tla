-------------------------- MODULE MCBetaflightSitl --------------------------
(***************************************************************************)
(* Model checking BetaflightSitl; the constants are set in the cfg file.   *)
(***************************************************************************)
EXTENDS BetaflightSitl
=============================================================================
