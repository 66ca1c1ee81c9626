----------------------------- MODULE MCKeyStore -----------------------------
(***************************************************************************)
(* Instances of KeyStore for TLC.  Threads, processes and names are        *)
(* interchangeable; the first account has a name that is chosen once.      *)
(***************************************************************************)
EXTENDS KeyStore, TLC

Symmetry == Permutations(Workers) \cup Permutations(Clis)
=============================================================================
