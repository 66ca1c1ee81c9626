------------------------------ MODULE MCShutdown ------------------------------
(***************************************************************************)
(* Instances of GracefulShutdown for TLC.  Jobs are numbers, in the order  *)
(* in which the records are handled, and so are not interchangeable.       *)
(***************************************************************************)
EXTENDS GracefulShutdown
=============================================================================
