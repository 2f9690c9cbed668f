----------------------------- MODULE MCFirstRun -----------------------------
(***************************************************************************)
(* Instances of FirstRun: a Method XL, which has every step, and the other *)
(* printers, which skip some.  Nothing is bounded, the steps are finite.   *)
(***************************************************************************)
EXTENDS FirstRun
=============================================================================
