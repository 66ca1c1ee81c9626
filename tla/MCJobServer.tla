----------------------------- MODULE MCJobServer -----------------------------
(***************************************************************************)
(* Instances of JobServer for TLC: the values of the constants are in the  *)
(* .cfg files.                                                             *)
(***************************************************************************)
EXTENDS JobServerProps, TLC

\* The threads of the pool are interchangeable (used in the runs without liveness).
Threads == Permutations(Workers)
=============================================================================
