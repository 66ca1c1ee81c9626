---------------------------- MODULE MCRecordFile ----------------------------
(***************************************************************************)
(* Instances of RecordFile for TLC.                                        *)
(***************************************************************************)
EXTENDS RecordFile
=============================================================================
