----------------------------- MODULE MCLifecycle -----------------------------
(***************************************************************************)
(* Instances of ServerLifecycle for TLC.                                   *)
(***************************************************************************)
EXTENDS ServerLifecycle
=============================================================================
