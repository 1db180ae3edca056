--------------------------- MODULE MCCovenantSigner ---------------------------
(***************************************************************************)
(* For safety, two clients, each with a request that deserves a signature  *)
(* or one that the rules refuse, and a single block that comes and goes:   *)
(* what the chain does between the reads is the matter of MCSignerApp.     *)
(* For liveness, one client on the chain of MCSignerApp.                   *)
(***************************************************************************)
EXTENDS CovenantSigner, MCSignerApp

OneVersion == <<Version(1, 1, 1)>>
TwoRequests == {UnderFirst, Forged}

=============================================================================
