--------------------------- MODULE MCUserRequests ---------------------------
(***************************************************************************)
(* Instances of UserRequests: as many calls of each kind as can meet (one  *)
(* that is held, one that is rejected, one that is asked after the first   *)
(* is answered), with Kaiten stopping between any two steps.               *)
(***************************************************************************)
EXTENDS UserRequests

=============================================================================
