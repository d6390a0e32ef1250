---------------------------- MODULE MCBridgeBase ----------------------------
(***************************************************************************)
(* Model checking BridgeBase.  The client threads are model values; their  *)
(* number and MaxTimeouts are set in the cfg files.  No symmetry: the runs *)
(* check liveness.                                                         *)
(***************************************************************************)
EXTENDS BridgeBase
=============================================================================
