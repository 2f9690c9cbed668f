---------------------------- MODULE MCFileCopy ----------------------------
(***************************************************************************)
(* Instances of FileCopy with files of two to four chunks, so that a copy *)
(* can be interrupted before, between and after its chunks, and room for   *)
(* two chains of events.                                                   *)
(***************************************************************************)
EXTENDS FileCopy

=============================================================================
