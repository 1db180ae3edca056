-------------------------- MODULE SignerRefinement --------------------------
(***************************************************************************)
(* SignerApp implements CommitteeSigner.  The server keeps no memory, the  *)
(* promise is about the past: two history variables are added to           *)
(* SignerApp that record what the chain has been, and the signatures are   *)
(* those the wallet made.                                                  *)
(***************************************************************************)
EXTENDS SignerApp

VARIABLES included, buried

history == <<included, buried>>

Committee ==
    INSTANCE CommitteeSigner WITH signatures <- {s.sig : s \in signed}

signatures == {s.sig : s \in signed}

HInit == Init /\ included = {} /\ buried = {}

\* Next with the history of the chain; no guard reads it.
HNext ==
    /\ Next
    /\ IF UNCHANGED chain THEN UNCHANGED history ELSE Committee!Remember

HSpec == HInit /\ [][HNext]_<<vars, history>>

-----------------------------------------------------------------------------

\* What a handler read was so, at one time and then at another: the height it
\* holds between its reads is one at which the stake has been included, and
\* what it sends to the wallet is about a stake that has been buried there, no
\* matter what the chain has done since (signer.go:109-156).
ReadsWereTrue ==
    /\ \A p \in Procs : pc[p] = "bestBlock" =>
          <<StakingHash(req[p]), height[p]>> \in included
    /\ \A p \in Procs : pc[p] = "rawSignature" =>
          <<StakingHash(req[p]), height[p]>> \in buried

\* One stake is never given two different unbonding transactions unless the chain
\* itself buried it twice, at heights with different versions of the parameters
\* in force: the server remembers no earlier signature, so nothing but the checks
\* and the heights keeps a stake to one (signer.go:109-275).
OneUnbondingUnlessMoved ==
    \A g, k \in signatures :
        g.tx.ins[1].hash = k.tx.ins[1].hash
        => \/ g.tx = k.tx
           \/ \E x, y \in buried, v, w \in DOMAIN Versions :
                 /\ x[1] = g.tx.ins[1].hash /\ y[1] = g.tx.ins[1].hash
                 /\ InForce(v, x[2]) /\ InForce(w, y[2]) /\ v # w

\* The server, its handlers and the two nodes do together what one committee
\* member promises: every step is a move of the ledger, one signature that is
\* due, or nothing to be seen (signer.go:86-291).
KeepsThePromise == Committee!Spec

=============================================================================
