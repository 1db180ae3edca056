-------------------------- MODULE MCSigningService --------------------------
(***************************************************************************)
(* Two exchanges: clients, retries and handlers that overlap.  No symmetry *)
(* is declared, since TLC would check the liveness properties unsoundly.   *)
(***************************************************************************)
EXTENDS SigningService

=============================================================================
