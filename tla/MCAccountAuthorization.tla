----------------------- MODULE MCAccountAuthorization -----------------------
(***************************************************************************)
(* Instances of AccountAuthorization with room for two or three replies in *)
(* flight (a check that is late, the next one, and the setup call or the   *)
(* sign-in that follows), two codes, so that one can replace another, and  *)
(* one sign-in.  MCAccountAuthorization checks both behaviours in which    *)
(* replies are slow and those in which they are not.                       *)
(***************************************************************************)
EXTENDS AccountAuthorization

=============================================================================
