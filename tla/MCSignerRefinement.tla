-------------------------- MODULE MCSignerRefinement --------------------------
(* Instance of SignerRefinement with the stakes and requests of SignerApp.  *)
EXTENDS SignerRefinement, MCSignerApp

=============================================================================
