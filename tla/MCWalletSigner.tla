--------------------------- MODULE MCWalletSigner ---------------------------
(* A request of each kind; k1 calls a PrivKeySigner, b1 a PsbtSigner.     *)
EXTENDS WalletSigner

MCRequests == {"good", "no key", "bad leaf", "two outputs"}
MCSimpleTransfers == MCRequests \ {"two outputs"}
MCWalletHas == {"good", "bad leaf"}

=============================================================================
