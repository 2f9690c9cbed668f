--------------------------- MODULE MCLocalJsonRpc ---------------------------
(***************************************************************************)
(* A service that starts three times: a clean start, a restart after a     *)
(* crash that left the socket file, and one after a clean stop.            *)
(***************************************************************************)
EXTENDS LocalJsonRpc

=============================================================================
