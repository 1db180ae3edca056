------------------------------ MODULE SignerApp ------------------------------
(***************************************************************************)
(* SignerApp (signerapp/signer.go): request handlers, one per process,     *)
(* that read the Bitcoin node twice, judge the request and ask the wallet  *)
(* to sign.  The two reads are separate RPCs and the chain moves under     *)
(* them: blocks connect and disconnect one at a time, a disconnected       *)
(* staking transaction may come back at another height or never.           *)
(*                                                                         *)
(* TxByHash asks the node for the transaction, then for its block.  A      *)
(* block's content and height never change, so the answer is fixed by the  *)
(* first of the two: one step.                                             *)
(***************************************************************************)
EXTENDS UnbondingRules, FiniteSets

CONSTANTS
    Procs,       \* concurrent handlers
    WalletKeys,  \* keys the offline wallet holds
    StaleIndex,  \* the node's transaction index may name a disconnected block
    MaxHeight,   \* bound: height of the chain
    MaxSigned    \* bound: no request is taken once this many are signed

ASSUME StaleIndexAssumption == StaleIndex \in BOOLEAN

ASSUME BoundsAssumption == MaxHeight \in Nat /\ MaxSigned \in Nat

VARIABLES
    tip,          \* height of the node's best block
    incl,         \* height of the block holding each transaction, 0 if none
    index,        \* height of the last block that held each transaction
    nodeUp,       \* the full node answers
    walletReady,  \* the wallet node answers and its wallet is unlocked
    up,           \* the signer's own process runs
    pc,           \* the call each handler is about to make
    req,          \* its request
    height,       \* stakingTxInfo.TxInclusionHeight
    best,         \* bestBlock
    outcome,      \* what SignUnbondingTransaction returns
    disturbed,    \* history: the block TxByHash reported was not, or before
                  \* BestBlockHeight was read no longer, in the chain
    depth,        \* history: true depth of the stake when BestBlockHeight was read
    signed        \* history: what the wallet signed, and on which evidence

chain == <<tip, incl, index>>
nodes == <<nodeUp, walletReady, up>>
reads == <<req, height, best, disturbed, depth>>
vars == <<chain, nodes, reads, pc, outcome, signed>>

NoRequest == CHOOSE r \in Requests : TRUE

Depth(t) == IF incl[t] = 0 THEN 0 ELSE tip - incl[t] + 1

Init ==
    /\ tip = 0
    /\ incl = [t \in TxHash |-> 0]
    /\ index = [t \in TxHash |-> 0]
    /\ nodeUp = TRUE
    /\ walletReady = FALSE
    /\ up = FALSE
    /\ pc = [p \in Procs |-> "idle"]
    /\ req = [p \in Procs |-> NoRequest]
    /\ height = [p \in Procs |-> 0]
    /\ best = [p \in Procs |-> 0]
    /\ outcome = [p \in Procs |-> "none"]
    /\ disturbed = [p \in Procs |-> FALSE]
    /\ depth = [p \in Procs |-> 0]
    /\ signed = {}

-----------------------------------------------------------------------------
(* The chain and the two Bitcoin nodes.                                    *)

\* A block holding the transactions S.
Connect(S) ==
    /\ tip < MaxHeight
    /\ \A t \in S : incl[t] = 0
    /\ tip' = tip + 1
    /\ incl' = [t \in TxHash |-> IF t \in S THEN tip + 1 ELSE incl[t]]
    /\ index' = [t \in TxHash |-> IF t \in S THEN tip + 1 ELSE index[t]]
    /\ UNCHANGED <<nodes, reads, pc, outcome, signed>>

\* One step of a reorganisation.
Disconnect ==
    /\ tip > 0
    /\ tip' = tip - 1
    /\ incl' = [t \in TxHash |-> IF incl[t] = tip THEN 0 ELSE incl[t]]
    /\ disturbed' = [p \in Procs |->
                        disturbed[p] \/ (pc[p] = "bestBlock" /\ height[p] = tip)]
    /\ UNCHANGED <<index, nodes, req, height, best, depth, pc, outcome, signed>>

NodeStops  == nodeUp /\ nodeUp' = FALSE
              /\ UNCHANGED <<chain, walletReady, up, reads, pc, outcome, signed>>
NodeStarts == ~nodeUp /\ nodeUp' = TRUE
              /\ UNCHANGED <<chain, walletReady, up, reads, pc, outcome, signed>>

\* unlock_time expires, or the wallet node stops or restarts.
WalletLocks   == walletReady /\ walletReady' = FALSE
                 /\ UNCHANGED <<chain, nodeUp, up, reads, pc, outcome, signed>>
WalletUnlocks == ~walletReady /\ walletReady' = TRUE
                 /\ UNCHANGED <<chain, nodeUp, up, reads, pc, outcome, signed>>

-----------------------------------------------------------------------------
(* The signer's process.  It keeps nothing on disk.                        *)

Forget(S) ==
    /\ pc' = [p \in Procs |-> IF p \in S THEN "idle" ELSE pc[p]]
    /\ outcome' = [p \in Procs |-> IF p \in S THEN "none" ELSE outcome[p]]
    /\ req' = [p \in Procs |-> IF p \in S THEN NoRequest ELSE req[p]]
    /\ height' = [p \in Procs |-> IF p \in S THEN 0 ELSE height[p]]
    /\ best' = [p \in Procs |-> IF p \in S THEN 0 ELSE best[p]]
    /\ disturbed' = [p \in Procs |-> IF p \in S THEN FALSE ELSE disturbed[p]]
    /\ depth' = [p \in Procs |-> IF p \in S THEN 0 ELSE depth[p]]

\* Between any two steps of any handler, the wallet's answer included.
Crash ==
    /\ up
    /\ up' = FALSE
    /\ Forget(Procs)
    /\ UNCHANGED <<chain, nodeUp, walletReady, signed>>

Restart ==
    /\ ~up
    /\ up' = TRUE
    /\ UNCHANGED <<chain, nodeUp, walletReady, reads, pc, outcome, signed>>

-----------------------------------------------------------------------------
(* SignUnbondingTransaction.                                               *)

ReturnWith(p, o) ==
    /\ pc' = [pc EXCEPT ![p] = "returned"]
    /\ outcome' = [outcome EXCEPT ![p] = o]

\* Mutant: the class of the output script is not checked.
SignAnyScript(p, r) ==
    /\ pc[p] = "idle"
    /\ up
    /\ Cardinality(signed) < MaxSigned
    /\ req' = [req EXCEPT ![p] = r]
    /\ CheckPreSignedUnbondingTxSanity(r.tx)
    /\ pc' = [pc EXCEPT ![p] = "txByHash"]
    /\ UNCHANGED <<chain, nodes, outcome, height, best, disturbed, depth, signed>>

\* Entry, up to the first RPC.
SignUnbondingTransaction(p, r) ==
    /\ pc[p] = "idle"
    /\ up
    /\ Cardinality(signed) < MaxSigned
    /\ req' = [req EXCEPT ![p] = r]
    /\ \/ /\ ~WellFormed(r)
          /\ ReturnWith(p, "invalid")
       \/ /\ WellFormed(r)
          /\ pc' = [pc EXCEPT ![p] = "txByHash"]
          /\ UNCHANGED outcome
    /\ UNCHANGED <<chain, nodes, height, best, disturbed, depth, signed>>

\* The script of the request must occur in the transaction, not on the output
\* that is spent.
TxDetails(r) ==
    /\ nodeUp
    /\ \E i \in DOMAIN StakingTx[StakingHash(r)].outs :
          StakingTx[StakingHash(r)].outs[i].pkScript = r.pkScript

\* A disconnected transaction that did not return to the mempool (its coins
\* were spent otherwise, say) is still found in the block it was last in.
InclusionHeights(t) ==
    IF incl[t] # 0 \/ ~StaleIndex THEN {incl[t]} ELSE {0, index[t]}

TxIsInChain(r, h) == TxDetails(r) /\ h # 0

\* stakingTxInfo is what the later checks and messages quote.
Found(p, h) ==
    /\ height' = [height EXCEPT ![p] = h]
    /\ disturbed' = [disturbed EXCEPT ![p] = incl[StakingHash(req[p])] # h]

\* Mutant: a transaction the node does not return is waited for.
TxByHashWaits(p) ==
    /\ pc[p] = "txByHash"
    /\ \E h \in InclusionHeights(StakingHash(req[p])) :
          TxIsInChain(req[p], h) /\ Found(p, h)
    /\ pc' = [pc EXCEPT ![p] = "bestBlock"]
    /\ UNCHANGED <<chain, nodes, req, best, depth, outcome, signed>>

\* Mutant: the height is counted down from the tip, one block too far.
TxByHashOneBelow(p) ==
    LET h == tip - Depth(StakingHash(req[p]))
    IN  /\ pc[p] = "txByHash"
        /\ TxIsInChain(req[p], incl[StakingHash(req[p])])
        /\ h <= MaxStakingTransactionHeight
        /\ Found(p, h)
        /\ pc' = [pc EXCEPT ![p] = "bestBlock"]
        /\ UNCHANGED <<chain, nodes, req, best, depth, outcome, signed>>

\* Mutant: every error of the node is wrapped as an invalid request.
TxByHashBlames(p) ==
    /\ pc[p] = "txByHash"
    /\ \E h \in InclusionHeights(StakingHash(req[p])) :
          \/ /\ ~TxIsInChain(req[p], h)
             /\ ReturnWith(p, "invalid")
             /\ UNCHANGED <<height, disturbed>>
          \/ /\ TxIsInChain(req[p], h)
             /\ Found(p, h)
             /\ \/ h > MaxStakingTransactionHeight /\ ReturnWith(p, "invalid")
                \/ /\ h <= MaxStakingTransactionHeight
                   /\ pc' = [pc EXCEPT ![p] = "bestBlock"]
                   /\ UNCHANGED outcome
    /\ UNCHANGED <<chain, nodes, req, best, depth, signed>>

TxByHash(p) ==
    /\ pc[p] = "txByHash"
    /\ \E h \in InclusionHeights(StakingHash(req[p])) :
          \/ /\ ~TxIsInChain(req[p], h)
             /\ ReturnWith(p, "internal")
             /\ UNCHANGED <<height, disturbed>>
          \/ /\ TxIsInChain(req[p], h)
             /\ Found(p, h)
             /\ \/ h > MaxStakingTransactionHeight /\ ReturnWith(p, "invalid")
                \/ /\ h <= MaxStakingTransactionHeight
                   /\ pc' = [pc EXCEPT ![p] = "bestBlock"]
                   /\ UNCHANGED outcome
    /\ UNCHANGED <<chain, nodes, req, best, depth, signed>>

\* Mutant: an invalid request is logged and signed.
BestBlockHeightGoesOn(p) ==
    /\ pc[p] = "bestBlock"
    /\ nodeUp
    /\ Verdict(req[p], height[p], tip) # "internal"
    /\ best' = [best EXCEPT ![p] = tip]
    /\ depth' = [depth EXCEPT ![p] = Depth(StakingHash(req[p]))]
    /\ pc' = [pc EXCEPT ![p] = "rawSignature"]
    /\ UNCHANGED <<chain, nodes, outcome, req, height, disturbed, signed>>

\* The second read and every check that follows it, none of which looks at
\* the node again.
BestBlockHeight(p) ==
    LET verdict == Verdict(req[p], height[p], tip)
    IN  /\ pc[p] = "bestBlock"
        /\ \/ /\ ~nodeUp
              /\ ReturnWith(p, "internal")
              /\ UNCHANGED <<best, depth>>
           \/ /\ nodeUp
              /\ best' = [best EXCEPT ![p] = tip]
              /\ depth' = [depth EXCEPT ![p] = Depth(StakingHash(req[p]))]
              /\ \/ verdict # "ok" /\ ReturnWith(p, verdict)
                 \/ /\ verdict = "ok"
                    /\ pc' = [pc EXCEPT ![p] = "rawSignature"]
                    /\ UNCHANGED outcome
        /\ UNCHANGED <<chain, nodes, req, height, disturbed, signed>>

WalletSigns(r) == walletReady /\ IsSimpleTransfer(r.tx) /\ r.key \in WalletKeys

\* A request the wallet cannot sign for is an internal error.  So is one it
\* signs when its answer is lost: the wallet keeps no record, and nothing here
\* learns that the signature exists.
RawSignature(p) ==
    /\ pc[p] = "rawSignature"
    /\ \/ /\ ~WalletSigns(req[p])
          /\ ReturnWith(p, "internal")
          /\ UNCHANGED <<walletReady, signed>>
       \/ /\ WalletSigns(req[p])
          /\ signed' = signed \cup
                {[req |-> req[p], sig |-> CovenantSignature(req[p], height[p]),
                  height |-> height[p], best |-> best[p],
                  depth |-> depth[p], disturbed |-> disturbed[p]]}
          /\ \/ ReturnWith(p, "signature") /\ UNCHANGED walletReady
             \/ ReturnWith(p, "internal") /\ walletReady' = FALSE
    /\ UNCHANGED <<chain, nodeUp, up, reads>>

\* The HTTP handler takes the answer.
Return(p) ==
    /\ pc[p] = "returned"
    /\ Forget({p})
    /\ UNCHANGED <<chain, nodes, signed>>

\* The steps that wait for an answer of the full node or of the wallet.
Asks(p) == TxByHash(p) \/ BestBlockHeight(p) \/ RawSignature(p)

Handle(p) == Asks(p) \/ Return(p)

Environment ==
    \/ \E S \in SUBSET TxHash : Connect(S)
    \/ Disconnect
    \/ NodeStops \/ NodeStarts
    \/ WalletLocks \/ WalletUnlocks
    \/ Crash \/ Restart

Next ==
    \/ Environment
    \/ \E p \in Procs :
          \/ \E r \in Requests : SignUnbondingTransaction(p, r)
          \/ Handle(p)

Spec == Init /\ [][Next]_vars

\* The code alone: a call that has its result returns.  That an RPC ends is
\* nothing the code sees to (the client has no timeout), so it is no part of the
\* fairness; a liveness property that needs it says so, with RpcsReturn.
FairSpec == Spec /\ \A p \in Procs : WF_vars(Return(p))

RpcsReturn(p) == WF_vars(Asks(p))

-----------------------------------------------------------------------------
(* Properties.                                                             *)

Steps == {"idle", "txByHash", "bestBlock", "rawSignature", "returned"}
Outcomes == {"none", "signature", "invalid", "internal"}

\* Every variable has its type, nothing is on the chain above its tip, and only
\* a well-formed request gets past the first checks.
TypeOK ==
    /\ tip \in Nat
    /\ incl \in [TxHash -> Nat]
    /\ \A t \in TxHash : incl[t] <= tip
    /\ index \in [TxHash -> Nat]
    /\ nodeUp \in BOOLEAN /\ walletReady \in BOOLEAN /\ up \in BOOLEAN
    /\ pc \in [Procs -> Steps]
    /\ req \in [Procs -> Requests]
    /\ \A p \in Procs :
          pc[p] \in {"txByHash", "bestBlock", "rawSignature"}
              => WellFormed(req[p])
    /\ height \in [Procs -> Nat]
    /\ best \in [Procs -> Nat]
    /\ outcome \in [Procs -> Outcomes]
    /\ disturbed \in [Procs -> BOOLEAN]
    /\ depth \in [Procs -> Int]
    /\ \A s \in signed :
          /\ s.req \in Requests
          /\ s.height \in Nat /\ s.best \in Nat /\ s.depth \in Int
          /\ s.disturbed \in BOOLEAN

\* What a handler knows once its request passed: h and b are its two reads, d
\* the true depth at the second.
Judged(r, h, b, d, reorged) ==
    /\ Verdict(r, h, b) = "ok"
    /\ ~reorged => d = b - h + 1

\* The evidence behind a signature survives all that happens between the reads,
\* the judgement and the wallet's answer: what was read stays true of an
\* undisturbed chain, what was judged is what is sent to the wallet, and what
\* the wallet signed is on record with it (signer.go:109-275).
Evidence ==
    /\ \A p \in Procs : pc[p] = "bestBlock" /\ ~disturbed[p] =>
          height[p] # 0 /\ incl[StakingHash(req[p])] = height[p]
    /\ \A p \in Procs : pc[p] = "rawSignature" =>
          Judged(req[p], height[p], best[p], depth[p], disturbed[p])
    /\ \A s \in signed :
          /\ WellFormed(s.req)
          /\ Judged(s.req, s.height, s.best, s.depth, s.disturbed)
          /\ s.sig = CovenantSignature(s.req, s.height)

\* The committee key never signs anything but the one unbonding transaction of
\* the stake, under the parameters of the height the stake was included at,
\* though every field of the request is the caller's (signer.go:93-267).
SignsOnlyTheDeserved == \A s \in signed : Deserves(s.req, s.height)

\* The wallet signs the transaction the staker signed, with the key that was
\* judged, although RawSignature rebuilds it as a packet (btc_psbt_signer.go:35).
SignsWhatTheStakerSigned ==
    \A s \in signed : /\ s.sig.tx = s.req.sig.tx
                      /\ s.sig.output = s.req.sig.output
                      /\ s.sig.leaf = s.req.sig.leaf
                      /\ s.sig.signer = s.req.key

\* No two different transactions are ever signed for one stake while it is seen
\* under the same version of the parameters, whoever asks, however often, and
\* across reorganisations (README: a stake moved across an activation height
\* may be signed under both versions).
OneUnbondingPerStake ==
    \A s, u \in signed :
        /\ StakingHash(s.req) = StakingHash(u.req)
        /\ ParamsVersion(s.height) = ParamsVersion(u.height)
        => s.sig.tx = u.sig.tx

\* The stake is as deep as its parameters demand when the tip is read, unless
\* its block was disconnected between the two reads (signer.go:143-156).
MatureUnlessReorged ==
    \A s \in signed :
        ~s.disturbed => DeepEnough(s.height, s.depth)

\* Whatever the chain did between the reads, the tip that was read is at least
\* confirmationDepth - 1 blocks above the inclusion height that was read: the
\* subtraction does not wrap when the tip is below it (signer.go:148).
NeverAheadOfTheTip ==
    \A s \in signed : DeepEnough(s.height, s.best - s.height + 1)

\* A request is refused as invalid for a reason of its own, at every return: its
\* script is not taproot or nothing like it is ever due; or, once the node said
\* where the stake is, it is not due there, is too late, was not deep enough when
\* the tip was read, or the answer was out of date.  A request that is due is
\* never blamed for a node or a wallet that fails before, between or after the
\* reads (signer.go:93-275, sign_unbonding.go:76).
RejectsOnlyTheUndeserving ==
    \A p \in Procs : pc[p] = "returned" /\ outcome[p] = "invalid" =>
        IF height[p] = 0
        THEN \/ ~IsTaproot(req[p].pkScript)
             \/ \A h \in 0..MaxHeight : ~Deserves(req[p], h)
        ELSE \/ ~Deserves(req[p], height[p])
             \/ height[p] > MaxStakingTransactionHeight
             \/ best[p] # 0 /\ ~DeepEnough(height[p], depth[p])
             \/ disturbed[p]

\* A call whose RPCs return comes to an end, whatever the nodes answer, however
\* the chain moves and whatever becomes of the other calls (signer.go:86-291).
EveryCallReturns ==
    \A p \in Procs : RpcsReturn(p) => (pc[p] # "idle" ~> pc[p] = "idle")

\* A request that deserves a signature gets it if its RPCs return, the nodes stay
\* up and the stake stays mature while it is handled, blocks still arriving, or
\* leaving from above the depth that is required.
Good(r) ==
    LET t == r.tx.ins[1].hash
    IN  /\ nodeUp /\ walletReady /\ up
        /\ r.key \in WalletKeys
        /\ incl[t] \in 1..MaxStakingTransactionHeight
        /\ Deserves(r, incl[t])
        /\ DeepEnough(incl[t], Depth(t))
        /\ \E i \in DOMAIN StakingTx[t].outs :
              StakingTx[t].outs[i].pkScript = r.pkScript

GoodRequestsAreSigned ==
    \A p \in Procs, r \in Requests :
        RpcsReturn(p) =>
            ((pc[p] = "txByHash" /\ req[p] = r /\ []Good(r))
                ~> (pc[p] = "returned" /\ outcome[p] = "signature"))

\* signer.go:225-227 and docs/validation.md:76: whatever is signed is mature in
\* the ledger when the tip is read.  Two reads that are not atomic do not
\* establish it.
MatureWhenChecked ==
    \A s \in signed : DeepEnough(s.height, s.depth)

=============================================================================
