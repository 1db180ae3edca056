--------------------------- MODULE SignerApp_proofs ---------------------------
(***************************************************************************)
(* Theorems about SignerApp, for any number of handlers, any requests,     *)
(* stakes and versions of the parameters, and any chain.                   *)
(***************************************************************************)
EXTENDS SignerApp, WellFoundedInduction, TLAPS

-----------------------------------------------------------------------------
(* Types.                                                                  *)

LEMMA VerdictType ==
    \A r, h, b : Verdict(r, h, b) \in {"internal", "invalid", "ok"}
BY DEF Verdict

LEMMA StakingHashType ==
    ASSUME NEW r \in Requests, WellFormed(r)
    PROVE  StakingHash(r) \in TxHash
<1>1. r.tx.ins \in Seq(TxIn)
  BY RequestsAssumption DEF UnbondingTx
<1>2. r.tx.ins[1] \in TxIn
  BY <1>1 DEF WellFormed, CheckPreSignedUnbondingTxSanity
<1> QED
  BY <1>2 DEF StakingHash, TxIn

LEMMA NoRequestType == NoRequest \in Requests
BY RequestsAssumption DEF NoRequest

\* What remains of the handlers when those of S are gone is well typed.
LEMMA ForgetKeepsTypes ==
    ASSUME NEW S, Forget(S), TypeOK
    PROVE  /\ pc' \in [Procs -> Steps] /\ req' \in [Procs -> Requests]
           /\ height' \in [Procs -> Nat] /\ best' \in [Procs -> Nat]
           /\ outcome' \in [Procs -> Outcomes]
           /\ disturbed' \in [Procs -> BOOLEAN] /\ depth' \in [Procs -> Int]
           /\ \A p \in Procs :
                 pc'[p] \in {"txByHash", "bestBlock", "rawSignature"}
                    => WellFormed(req'[p])
<1>1. disturbed' \in [Procs -> BOOLEAN]
  <2>1. \A p \in Procs : (IF p \in S THEN FALSE ELSE disturbed[p]) \in BOOLEAN
    BY Zenon DEF TypeOK
  <2>2. disturbed' = [p \in Procs |-> IF p \in S THEN FALSE ELSE disturbed[p]]
    BY DEF Forget
  <2> QED
    BY <2>1, <2>2, Zenon
<1>2. req' \in [Procs -> Requests]
  BY NoRequestType DEF Forget, TypeOK
<1>3. height' \in [Procs -> Nat] /\ best' \in [Procs -> Nat] /\ depth' \in [Procs -> Int]
  BY DEF Forget, TypeOK
<1>4. pc' \in [Procs -> Steps] /\ outcome' \in [Procs -> Outcomes]
  BY DEF Forget, TypeOK, Steps, Outcomes
<1>5. ASSUME NEW p \in Procs,
             pc'[p] \in {"txByHash", "bestBlock", "rawSignature"}
      PROVE  WellFormed(req'[p])
  <2>1. pc'[p] = pc[p] /\ req'[p] = req[p]
    BY <1>5 DEF Forget
  <2> QED
    BY <1>5, <2>1 DEF TypeOK
<1> QED
  BY <1>1, <1>2, <1>3, <1>4, <1>5

\* Every variable keeps its type, and no block is above the tip: the chain
\* stays consistent under connection and disconnection of blocks.
THEOREM TypeCorrect == Spec => []TypeOK
<1>1. Init => TypeOK
  <2> SUFFICES ASSUME Init PROVE TypeOK
    OBVIOUS
  <2>1. /\ disturbed \in [Procs -> BOOLEAN]
        /\ nodeUp \in BOOLEAN /\ walletReady \in BOOLEAN /\ up \in BOOLEAN
    BY Zenon DEF Init
  <2> QED
    BY <2>1, NoRequestType DEF Init, TypeOK, Steps, Outcomes
<1>2. TypeOK /\ [Next]_vars => TypeOK'
  <2> SUFFICES ASSUME TypeOK, [Next]_vars
               PROVE  TypeOK'
    OBVIOUS
  <2> USE DEF TypeOK, Steps, Outcomes, chain, nodes, reads, ReturnWith
  <2>1. ASSUME NEW S \in SUBSET TxHash, Connect(S)
        PROVE  TypeOK'
    BY <2>1 DEF Connect
  <2>2. CASE Disconnect
    BY <2>2 DEF Disconnect
  <2>3. CASE NodeStops \/ NodeStarts
    BY <2>3 DEF NodeStops, NodeStarts
  <2>4. CASE WalletLocks \/ WalletUnlocks
    BY <2>4 DEF WalletLocks, WalletUnlocks
  <2>11. CASE Crash \/ Restart
    BY <2>11, ForgetKeepsTypes DEF Crash, Restart
  <2>5. ASSUME NEW p \in Procs, NEW r \in Requests, SignUnbondingTransaction(p, r)
        PROVE  TypeOK'
    BY <2>5 DEF SignUnbondingTransaction
  <2>6. ASSUME NEW p \in Procs, TxByHash(p)
        PROVE  TypeOK'
    <3>1. StakingHash(req[p]) \in TxHash
      BY <2>6, StakingHashType DEF TxByHash
    <3>2. InclusionHeights(StakingHash(req[p])) \subseteq Nat
      BY <3>1 DEF InclusionHeights
    <3>3. PICK h \in Nat :
            (height' = height /\ disturbed' = disturbed) \/ Found(p, h)
      BY <2>6, <3>2 DEF TxByHash
    <3>4. (incl[StakingHash(req[p])] # h) \in BOOLEAN
      OBVIOUS
    <3>5. height' \in [Procs -> Nat] /\ disturbed' \in [Procs -> BOOLEAN]
      <4>1. CASE height' = height /\ disturbed' = disturbed
        BY <4>1
      <4>2. CASE Found(p, h)
        <5>1. height' \in [Procs -> Nat]
          BY <4>2 DEF Found
        <5>2. disturbed' \in [Procs -> BOOLEAN]
          BY <3>4, <4>2 DEF Found
        <5> QED
          BY <5>1, <5>2
      <4> QED
        BY <3>3, <4>1, <4>2
    <3>6. pc' \in [Procs -> Steps] /\ outcome' \in [Procs -> Outcomes]
      BY <2>6 DEF TxByHash
    <3>7. \A q \in Procs : pc'[q] \in {"txByHash", "bestBlock", "rawSignature"}
                            => WellFormed(req[q])
      BY <2>6 DEF TxByHash
    <3> QED
      BY <2>6, <3>5, <3>6, <3>7 DEF TxByHash
  <2>7. ASSUME NEW p \in Procs, BestBlockHeight(p)
        PROVE  TypeOK'
    <3> USE <2>7, VerdictType DEF BestBlockHeight
    <3>1. Depth(StakingHash(req[p])) \in Int
      BY StakingHashType DEF Depth
    <3> QED
      BY <3>1
  <2>8. ASSUME NEW p \in Procs, RawSignature(p)
        PROVE  TypeOK'
    <3> USE <2>8 DEF RawSignature
    <3>1. CASE ~WalletSigns(req[p])
      BY <3>1
    <3>2. CASE WalletSigns(req[p])
      <4>1. ASSUME NEW s \in signed'
            PROVE  /\ s.req \in Requests
                   /\ s.height \in Nat /\ s.best \in Nat /\ s.depth \in Int
                   /\ s.disturbed \in BOOLEAN
        BY <3>2, <4>1
      <4> QED
        BY <3>2, <4>1
    <3> QED
      BY <3>1, <3>2
  <2>9. ASSUME NEW p \in Procs, Return(p)
        PROVE  TypeOK'
    BY <2>9, ForgetKeepsTypes DEF Return
  <2>10. CASE UNCHANGED vars
    BY <2>10 DEF vars
  <2> QED
    BY <2>1, <2>2, <2>3, <2>4, <2>5, <2>6, <2>7, <2>8, <2>9, <2>10, <2>11
    DEF Next, Environment, Handle, Asks
<1> QED
  BY <1>1, <1>2, PTL DEF Spec

-----------------------------------------------------------------------------
(* The evidence behind a signature.                                        *)

\* A step by which the chain moves leaves what an undisturbed handler read true.
LEMMA ChainStepKeepsEvidence ==
    ASSUME TypeOK, Evidence,
           Disconnect \/ \E S \in SUBSET TxHash : Connect(S)
    PROVE  Evidence'
<1> USE DEF nodes, reads
<1>1. ASSUME NEW p \in Procs, pc'[p] = "bestBlock", ~disturbed'[p]
      PROVE  height'[p] # 0 /\ incl'[StakingHash(req'[p])] = height'[p]
  <2>1. req' = req /\ height' = height /\ pc' = pc
    BY DEF Disconnect, Connect
  <2>2. StakingHash(req[p]) \in TxHash
    BY <1>1, <2>1, StakingHashType DEF TypeOK
  <2>3. CASE Disconnect
    <3>1. ~disturbed[p] /\ height[p] # tip
      BY <1>1, <2>1, <2>3 DEF Disconnect, TypeOK
    <3> QED
      BY <1>1, <2>1, <2>2, <2>3, <3>1 DEF Disconnect, Evidence
  <2>4. ASSUME NEW S \in SUBSET TxHash, Connect(S)
        PROVE  height'[p] # 0 /\ incl'[StakingHash(req'[p])] = height'[p]
    BY <1>1, <2>1, <2>2, <2>4 DEF Connect, Evidence
  <2> QED
    BY <2>3, <2>4
<1>2. ASSUME NEW p \in Procs, pc'[p] = "rawSignature"
      PROVE  Judged(req[p], height[p], best[p], depth[p], disturbed[p])'
  <2>1. /\ pc[p] = "rawSignature" /\ req' = req /\ height' = height
        /\ best' = best /\ depth' = depth
    BY <1>2 DEF Disconnect, Connect
  <2>2. disturbed'[p] = disturbed[p]
    BY <2>1 DEF Disconnect, Connect, TypeOK
  <2> QED
    BY <2>1, <2>2 DEF Evidence, Judged
<1>3. signed' = signed
  BY DEF Disconnect, Connect
<1> QED
  BY <1>1, <1>2, <1>3 DEF Evidence, Judged

THEOREM EvidenceAlwaysHolds == Spec => []Evidence
<1>1. Init => Evidence
  BY DEF Init, Evidence
<1>2. TypeOK /\ Evidence /\ [Next]_vars => Evidence'
  <2> SUFFICES ASSUME TypeOK, Evidence, [Next]_vars
               PROVE  Evidence'
    OBVIOUS
  <2> USE DEF chain, nodes, reads, ReturnWith, Steps
  <2>1. CASE Disconnect \/ \E S \in SUBSET TxHash : Connect(S)
    BY <2>1, ChainStepKeepsEvidence
  <2>2. CASE NodeStops \/ NodeStarts \/ WalletLocks \/ WalletUnlocks
    BY <2>2 DEF NodeStops, NodeStarts, WalletLocks, WalletUnlocks, Evidence, Judged
  <2>3. ASSUME NEW p \in Procs, NEW r \in Requests, SignUnbondingTransaction(p, r)
        PROVE  Evidence'
    BY <2>3 DEF SignUnbondingTransaction, Evidence, Judged, TypeOK
  <2>4. ASSUME NEW p \in Procs, TxByHash(p)
        PROVE  Evidence'
    <3>1. PICK h \in InclusionHeights(StakingHash(req[p])) :
            \/ ReturnWith(p, "internal") /\ UNCHANGED <<height, disturbed>>
            \/ /\ h # 0 /\ Found(p, h)
               /\ \/ ReturnWith(p, "invalid")
                  \/ pc' = [pc EXCEPT ![p] = "bestBlock"] /\ UNCHANGED outcome
      BY <2>4 DEF TxByHash, TxIsInChain
    <3>2. /\ incl' = incl /\ req' = req /\ best' = best /\ depth' = depth
          /\ signed' = signed
          /\ pc'[p] # "rawSignature"
          /\ \A q \in Procs : q # p =>
                /\ pc'[q] = pc[q] /\ height'[q] = height[q]
                /\ disturbed'[q] = disturbed[q]
      BY <2>4, <3>1 DEF TxByHash, Found, TypeOK
    <3>3. ASSUME pc'[p] = "bestBlock", ~disturbed'[p]
          PROVE  height'[p] # 0 /\ incl[StakingHash(req[p])] = height'[p]
      BY <3>1, <3>3 DEF Found, TypeOK
    <3> QED
      BY <3>2, <3>3 DEF Evidence, Judged
  <2>5. ASSUME NEW p \in Procs, BestBlockHeight(p)
        PROVE  Evidence'
    <3> USE <2>5 DEF BestBlockHeight
    <3>1. ASSUME pc'[p] = "rawSignature"
          PROVE  Judged(req[p], height[p], best[p], depth[p], disturbed[p])'
      BY <3>1 DEF Judged, Depth, Evidence, TypeOK
    <3> QED
      BY <3>1 DEF Evidence, Judged, TypeOK
  <2>6. ASSUME NEW p \in Procs, RawSignature(p)
        PROVE  Evidence'
    BY <2>6 DEF RawSignature, Evidence, Judged, TypeOK
  <2>7. ASSUME NEW p \in Procs, Return(p)
        PROVE  Evidence'
    BY <2>7 DEF Return, Forget, Evidence, Judged, TypeOK
  <2>9. CASE Crash \/ Restart
    BY <2>9 DEF Crash, Restart, Forget, Evidence, Judged
  <2>8. CASE UNCHANGED vars
    BY <2>8 DEF vars, Evidence, Judged
  <2> QED
    BY <2>1, <2>2, <2>3, <2>4, <2>5, <2>6, <2>7, <2>8, <2>9
    DEF Next, Environment, Handle, Asks
<1> QED
  BY <1>1, <1>2, TypeCorrect, PTL DEF Spec

-----------------------------------------------------------------------------
(* Maturity.                                                               *)

LEMMA InForceIsParamsVersion ==
    ASSUME NEW h \in Nat, NEW v \in DOMAIN Versions, InForce(v, h)
    PROVE  v = ParamsVersion(h) /\ v # 0
<1> DEFINE active == {i \in DOMAIN Versions : Versions[i].activationHeight <= h}
<1>1. DOMAIN Versions = 1..Len(Versions) /\ Len(Versions) \in Nat
  BY VersionsAssumption
<1>2. v \in active /\ \A j \in active : j <= v
  <2>1. v \in active
    BY DEF InForce
  <2>2. ASSUME NEW j \in active
        PROVE  j <= v
    <3>1. Versions[j] \in VersionedGlobalParams
      BY VersionsAssumption
    <3> QED
      BY <1>1, <3>1 DEF InForce, VersionedGlobalParams
  <2> QED
    BY <2>1, <2>2
<1>3. ParamsVersion(h) = CHOOSE i \in active : \A j \in active : j <= i
  BY <1>2 DEF ParamsVersion
<1>4. ParamsVersion(h) \in active /\ \A j \in active : j <= ParamsVersion(h)
  BY <1>2, <1>3
<1> QED
  BY <1>1, <1>2, <1>4

LEMMA OkIsDeepEnough ==
    ASSUME NEW r, NEW h \in Nat, NEW b \in Nat, Verdict(r, h, b) = "ok"
    PROVE  DeepEnough(h, b - h + 1)
<1>1. b - h + 1 >= Versions[ParamsVersion(h)].confirmationDepth
  BY DEF Verdict, StakeIsAdmissible, EnoughConfirmations, Confirmations,
         ParamsByHeight
<1> QED
  BY <1>1, InForceIsParamsVersion DEF DeepEnough

\* Nothing is signed unless the tip that was read is confirmationDepth - 1
\* blocks above the inclusion height that was read, with no case of the
\* subtraction wrapping, for any reorganisation between the two reads.
THEOREM NeverAhead == Spec => []NeverAheadOfTheTip
<1>1. TypeOK /\ Evidence => NeverAheadOfTheTip
  BY OkIsDeepEnough DEF TypeOK, Evidence, Judged, NeverAheadOfTheTip
<1> QED
  BY <1>1, TypeCorrect, EvidenceAlwaysHolds, PTL

\* A stake whose block was not disconnected between the two reads had the depth
\* its parameters demand when the tip was read.
THEOREM Maturity == Spec => []MatureUnlessReorged
<1>1. TypeOK /\ Evidence => MatureUnlessReorged
  BY OkIsDeepEnough DEF TypeOK, Evidence, Judged, MatureUnlessReorged
<1> QED
  BY <1>1, TypeCorrect, EvidenceAlwaysHolds, PTL

-----------------------------------------------------------------------------
(* One transaction per stake.                                              *)

\* A request that passes all checks leaves no freedom in its transaction.
LEMMA OkDeterminesTx ==
    ASSUME NEW r \in Requests, WellFormed(r),
           NEW h \in Nat, NEW b \in Nat, Verdict(r, h, b) = "ok"
    PROVE  LET t == StakingHash(r)
               params == ParamsByHeight(h)
           IN  PsbtTx(r.tx) =
                 [version |-> 2, lockTime |-> 0,
                  ins |-> <<[hash |-> t, index |-> StakingOutputIdx(t, params),
                             sequence |-> "final"]>>,
                  outs |-> <<ExpectedUnbondingOutput(t, params)>>]
<1> DEFINE t == StakingHash(r)
           params == ParamsByHeight(h)
           out == ExpectedUnbondingOutput(t, params)
<1>1. /\ r.tx \in UnbondingTx
      /\ Len(r.tx.outs) = 1 /\ r.tx.lockTime = 0 /\ r.tx.version = 2
  BY RequestsAssumption DEF WellFormed, CheckPreSignedUnbondingTxSanity
<1>2. r.tx.ins[1].index = StakingOutputIdx(t, params)
  BY DEF Verdict, StakeIsAdmissible, SpendsStakingOutput
<1>3. r.tx.outs \in Seq(TxOut) /\ r.tx.outs[1] \in TxOut
  BY <1>1 DEF UnbondingTx
<1>4. r.tx.outs[1].value = out.value /\ r.tx.outs[1].pkScript = out.pkScript
  BY DEF Verdict, UnbondingIsAuthorised, OutputsAreEqual
<1>5. r.tx.outs[1] = out
  BY <1>3, <1>4 DEF TxOut, ExpectedUnbondingOutput
<1>6. r.tx.outs = <<out>>
  BY <1>1, <1>3, <1>5
<1> QED
  BY <1>1, <1>2, <1>6 DEF PsbtTx, StakingHash

\* Whoever asks, and whatever the chain does in between, two signatures for one
\* stake under one version of the parameters are for the same transaction.
THEOREM OneUnbonding == Spec => []OneUnbondingPerStake
<1>1. ASSUME NEW s, NEW u, s.req \in Requests, u.req \in Requests,
             WellFormed(s.req), WellFormed(u.req),
             s.height \in Nat, u.height \in Nat, s.best \in Nat, u.best \in Nat,
             Verdict(s.req, s.height, s.best) = "ok",
             Verdict(u.req, u.height, u.best) = "ok",
             StakingHash(s.req) = StakingHash(u.req),
             ParamsVersion(s.height) = ParamsVersion(u.height)
      PROVE  PsbtTx(s.req.tx) = PsbtTx(u.req.tx)
  <2>1. ParamsByHeight(s.height) = ParamsByHeight(u.height)
    BY <1>1 DEF ParamsByHeight
  <2> QED
    BY <1>1, <2>1, OkDeterminesTx
<1>2. \A r, h : CovenantSignature(r, h).tx = PsbtTx(r.tx)
  BY DEF CovenantSignature, Signature
<1>3. TypeOK /\ Evidence => OneUnbondingPerStake
  <2> SUFFICES ASSUME TypeOK, Evidence, NEW s \in signed, NEW u \in signed,
                      StakingHash(s.req) = StakingHash(u.req),
                      ParamsVersion(s.height) = ParamsVersion(u.height)
               PROVE  s.sig.tx = u.sig.tx
    BY DEF OneUnbondingPerStake
  <2>1. s.sig.tx = PsbtTx(s.req.tx) /\ u.sig.tx = PsbtTx(u.req.tx)
    BY <1>2 DEF Evidence
  <2>2. PsbtTx(s.req.tx) = PsbtTx(u.req.tx)
    BY <1>1 DEF TypeOK, Evidence, Judged
  <2> QED
    BY <2>1, <2>2
<1> QED
  BY <1>3, TypeCorrect, EvidenceAlwaysHolds, PTL

-----------------------------------------------------------------------------
(* What is signed is what validation.md describes.                         *)

\* The packet sent to the wallet is the transaction of the request.
LEMMA PsbtKeepsTx ==
    ASSUME NEW r \in Requests, WellFormed(r)
    PROVE  PsbtTx(r.tx) = r.tx
<1>1. /\ r.tx \in UnbondingTx
      /\ Len(r.tx.ins) = 1 /\ r.tx.ins[1].sequence = "final"
  BY RequestsAssumption DEF WellFormed, CheckPreSignedUnbondingTxSanity
<1>2. r.tx.ins \in Seq(TxIn) /\ r.tx.ins[1] \in TxIn
  BY <1>1 DEF UnbondingTx
<1>3. r.tx.ins[1] = [hash |-> r.tx.ins[1].hash, index |-> r.tx.ins[1].index,
                     sequence |-> "final"]
  BY <1>1, <1>2 DEF TxIn
<1>4. r.tx.ins = <<[hash |-> r.tx.ins[1].hash, index |-> r.tx.ins[1].index,
                    sequence |-> "final"]>>
  BY <1>1, <1>2, <1>3
<1> QED
  BY <1>1, <1>4 DEF PsbtTx, UnbondingTx

\* The wallet signs the very transaction, output and script path the staker
\* signed, with the key the request was judged for.
THEOREM StakerAndCommitteeAgree == Spec => []SignsWhatTheStakerSigned
<1>1. ASSUME NEW r \in Requests, WellFormed(r), NEW h, NEW b,
             Verdict(r, h, b) = "ok"
      PROVE  LET sig == CovenantSignature(r, h)
             IN  /\ sig.tx = r.sig.tx
                 /\ sig.output = r.sig.output
                 /\ sig.leaf = r.sig.leaf
                 /\ sig.signer = r.key
  <2>1. StakerSigned(r, ParamsByHeight(h))
    BY <1>1 DEF Verdict, UnbondingIsAuthorised
  <2> QED
    BY <1>1, <2>1, PsbtKeepsTx DEF StakerSigned, CovenantSignature, Signature
<1>2. TypeOK /\ Evidence => SignsWhatTheStakerSigned
  BY <1>1 DEF TypeOK, Evidence, Judged, SignsWhatTheStakerSigned
<1> QED
  BY <1>2, TypeCorrect, EvidenceAlwaysHolds, PTL

\* Of the versions active at a height one is the last.
LEMMA LastActiveVersion ==
    ASSUME NEW h \in Nat, ParamsVersion(h) # 0
    PROVE  ParamsVersion(h) \in DOMAIN Versions /\ InForce(ParamsVersion(h), h)
<1> DEFINE active == {i \in DOMAIN Versions : Versions[i].activationHeight <= h}
           n == Len(Versions)
           fromLast == {n - i : i \in active}
<1>1. n \in Nat /\ DOMAIN Versions = 1..n
  BY VersionsAssumption
<1>2. active # {}
  BY DEF ParamsVersion
<1>3. fromLast \subseteq Nat /\ fromLast # {}
  BY <1>1, <1>2
<1>4. PICK m \in fromLast : \A k \in fromLast : ~ (<<k, m>> \in OpToRel(<, Nat))
  <2> HIDE DEF fromLast
  <2> QED
    BY <1>3, NatLessThanWellFounded, WFMin
<1>5. \A k \in fromLast : ~ (k < m)
  BY <1>3, <1>4 DEF OpToRel
<1>6. PICK i \in active : m = n - i
  OBVIOUS
<1>7. ASSUME NEW j \in active
      PROVE  j <= i
  <2>1. n - j \in fromLast /\ ~ (n - j < n - i)
    BY <1>5, <1>6
  <2>2. i \in Int /\ j \in Int /\ n \in Int
    BY <1>1
  <2> HIDE DEF active, fromLast, n
  <2> QED
    BY <2>1, <2>2
<1>8. ParamsVersion(h) = CHOOSE j \in active : \A k \in active : k <= j
  BY <1>2 DEF ParamsVersion
<1>9. ParamsVersion(h) \in active /\ \A j \in active : j <= ParamsVersion(h)
  BY <1>7, <1>8
<1>10. ASSUME NEW w \in DOMAIN Versions, w > ParamsVersion(h)
       PROVE  Versions[w].activationHeight > h
  <2>1. Versions[w] \in VersionedGlobalParams
    BY VersionsAssumption
  <2>2. w \notin active
    BY <1>1, <1>9, <1>10
  <2> QED
    BY <2>1, <2>2 DEF VersionedGlobalParams
<1> QED
  BY <1>9, <1>10 DEF InForce

\* The checks of signer.go, taken together, say that the request is for the one
\* transaction validation.md describes.
LEMMA OkIsDeserved ==
    ASSUME NEW r \in Requests, WellFormed(r),
           NEW h \in Nat, NEW b \in Nat, Verdict(r, h, b) = "ok"
    PROVE  Deserves(r, h)
<1> DEFINE v == ParamsVersion(h)
           t == StakingHash(r)
           params == ParamsByHeight(h)
           data == StakingTx[t].opReturn
           outs == StakingTx[t].outs
<1>1. v \in DOMAIN Versions /\ InForce(v, h) /\ Versions[v] \in VersionedGlobalParams
  BY LastActiveVersion, VersionsAssumption DEF Verdict
<1>2. outs \in Seq(TxOut)
  BY StakingHashType, StakingTxAssumption
<1>3. StakeIsAdmissible(r, h, b) /\ UnbondingIsAuthorised(r, h)
  BY DEF Verdict
<1>4. PICK i \in DOMAIN outs : StakingOutputs(t, params) = {i}
  BY <1>3 DEF StakeIsAdmissible, ParsesAsV0StakingTx
<1>5. /\ i \in Int /\ outs[i] \in TxOut
      /\ outs[i].pkScript = StakingScript(data, params)
  BY <1>2, <1>4 DEF StakingOutputs
<1>6. StakingOutputIdx(t, params) = i - 1 /\ StakingOutput(t, params) = outs[i]
  <2>1. StakingOutputIdx(t, params) = i - 1
    BY <1>4 DEF StakingOutputIdx
  <2>2. (i - 1) + 1 = i
    BY <1>5
  <2> QED
    BY <2>1, <2>2 DEF StakingOutput
<1>7. Locked(t, v) = {i}
  BY <1>4 DEF Locked, StakingOutputs, StakingScript, ParamsByHeight
<1>8. r.tx = TheUnbondingTx(t, i, v)
  BY <1>6, OkDeterminesTx, PsbtKeepsTx
  DEF TheUnbondingTx, ExpectedUnbondingOutput, ExpectedUnbondingValue,
      UnbondingScript, ParamsByHeight
<1>9. r.sig = Signature(data.staker, r.tx, outs[i],
                        [path |-> "unbonding", of |-> outs[i].pkScript])
  BY <1>3, <1>5, <1>6 DEF UnbondingIsAuthorised, StakerSigned, UnbondingPath
<1>10. Versions[v].unbondingFee < outs[i].value
  <2>1. ~ (outs[i].value - Versions[v].unbondingFee <= 0)
    BY <1>6 DEF Verdict, ExpectedUnbondingValue, ParamsByHeight
  <2> QED
    BY <1>1, <1>5, <2>1 DEF VersionedGlobalParams, TxOut
<1>11. /\ Versions[v].minStakingAmount <= outs[i].value
       /\ outs[i].value <= Versions[v].maxStakingAmount
  <2>1. StakingAmountInBounds(t, params)
    BY <1>3 DEF StakeIsAdmissible
  <2>2. /\ outs[i].value >= Versions[v].minStakingAmount
        /\ outs[i].value <= Versions[v].maxStakingAmount
    BY <1>6, <2>1 DEF StakingAmountInBounds, ParamsByHeight
  <2> QED
    BY <1>1, <1>5, <2>2 DEF VersionedGlobalParams, TxOut
<1>12. /\ Versions[v].minStakingTime <= data.stakingTime
       /\ data.stakingTime <= Versions[v].maxStakingTime
  BY <1>3 DEF StakeIsAdmissible, StakingTimeInBounds, ParamsByHeight
<1>13. data.tag = Versions[v].tag /\ r.key \in Versions[v].covenantPks
  BY <1>3 DEF StakeIsAdmissible, ParsesAsV0StakingTx, IsCovenantMember,
              ParamsByHeight
<1>14. DeservesUnder(r, t, v)
  BY <1>7, <1>8, <1>9, <1>10, <1>11, <1>12, <1>13 DEF DeservesUnder
<1> QED
  BY <1>1, <1>14 DEF Deserves, StakingHash

\* The committee key signs nothing but the one unbonding transaction of a stake
\* that is due under the parameters of its inclusion height.
THEOREM OnlyTheDeserved == Spec => []SignsOnlyTheDeserved
<1>1. TypeOK /\ Evidence => SignsOnlyTheDeserved
  BY OkIsDeserved DEF TypeOK, Evidence, Judged, SignsOnlyTheDeserved
<1> QED
  BY <1>1, TypeCorrect, EvidenceAlwaysHolds, PTL

-----------------------------------------------------------------------------
(* No request that is due is refused.                                      *)

\* The transaction validation.md describes passes every check of signer.go.
LEMMA DeservedIsOk ==
    ASSUME NEW r \in Requests, WellFormed(r), NEW h \in Nat, NEW b \in Nat,
           Deserves(r, h), DeepEnough(h, b - h + 1)
    PROVE  Verdict(r, h, b) = "ok"
<1> DEFINE t == StakingHash(r)
           params == ParamsByHeight(h)
           data == StakingTx[t].opReturn
           outs == StakingTx[t].outs
<1>1. PICK v \in DOMAIN Versions : InForce(v, h) /\ DeservesUnder(r, t, v)
  BY DEF Deserves, StakingHash
<1>2. v = ParamsVersion(h) /\ v # 0 /\ Versions[v] \in VersionedGlobalParams
  BY <1>1, InForceIsParamsVersion, VersionsAssumption
<1>3. outs \in Seq(TxOut)
  BY StakingHashType, StakingTxAssumption
<1>4. PICK i \in DOMAIN outs :
         /\ Locked(t, v) = {i}
         /\ Versions[v].minStakingAmount <= outs[i].value
         /\ outs[i].value <= Versions[v].maxStakingAmount
         /\ Versions[v].unbondingFee < outs[i].value
         /\ r.tx = TheUnbondingTx(t, i, v)
         /\ r.sig = Signature(data.staker, r.tx, outs[i],
                       [path |-> "unbonding", of |-> outs[i].pkScript])
  BY <1>1 DEF DeservesUnder
<1>5. i \in Int /\ outs[i] \in TxOut
  BY <1>3
<1>6. StakingOutputs(t, params) = {i}
  BY <1>2, <1>4 DEF Locked, StakingOutputs, StakingScript, ParamsByHeight
<1>7. StakingOutputIdx(t, params) = i - 1 /\ StakingOutput(t, params) = outs[i]
  <2>1. StakingOutputIdx(t, params) = i - 1
    BY <1>6 DEF StakingOutputIdx
  <2>2. (i - 1) + 1 = i
    BY <1>5
  <2> QED
    BY <2>1, <2>2 DEF StakingOutput
<1>8. outs[i].pkScript = StakingScript(data, params)
  BY <1>6 DEF StakingOutputs
<1>9. StakeIsAdmissible(r, h, b)
  <2>1. IsCovenantMember(r.key, params.covenantPublicKeys)
    BY <1>1, <1>2 DEF DeservesUnder, IsCovenantMember, ParamsByHeight
  <2>2. EnoughConfirmations(h, b)
    <3>1. b - h + 1 >= Versions[v].confirmationDepth
      BY <1>1 DEF DeepEnough
    <3> QED
      BY <1>2, <3>1 DEF EnoughConfirmations, Confirmations, ParamsByHeight
  <2>3. ParsesAsV0StakingTx(t, params)
    BY <1>1, <1>2, <1>6 DEF DeservesUnder, ParsesAsV0StakingTx, ParamsByHeight
  <2>4. SpendsStakingOutput(r, params)
    BY <1>4, <1>7 DEF SpendsStakingOutput, TheUnbondingTx
  <2>5. StakingTimeInBounds(t, params)
    BY <1>1, <1>2 DEF DeservesUnder, StakingTimeInBounds, ParamsByHeight
  <2>6. StakingAmountInBounds(t, params)
    BY <1>2, <1>4, <1>7 DEF StakingAmountInBounds, ParamsByHeight
  <2> QED
    BY <2>1, <2>2, <2>3, <2>4, <2>5, <2>6 DEF StakeIsAdmissible
<1>10. ~ (ExpectedUnbondingValue(t, params) <= 0)
  <2>1. Versions[v].unbondingFee \in Nat /\ outs[i].value \in Int
    BY <1>2, <1>5 DEF VersionedGlobalParams, TxOut
  <2>2. ExpectedUnbondingValue(t, params) = outs[i].value - Versions[v].unbondingFee
    BY <1>2, <1>7 DEF ExpectedUnbondingValue, ParamsByHeight
  <2> QED
    BY <1>4, <2>1, <2>2
<1>11. UnbondingIsAuthorised(r, h)
  <2>1. OutputsAreEqual(ExpectedUnbondingOutput(t, params), r.tx.outs[1])
    BY <1>2, <1>4, <1>7
    DEF OutputsAreEqual, ExpectedUnbondingOutput, ExpectedUnbondingValue,
        TheUnbondingTx, UnbondingScript, ParamsByHeight
  <2>2. StakerSigned(r, params)
    BY <1>4, <1>7, <1>8 DEF StakerSigned, UnbondingPath
  <2> QED
    BY <2>1, <2>2 DEF UnbondingIsAuthorised
<1> QED
  BY <1>2, <1>9, <1>10, <1>11 DEF Verdict

\* The order of the checks and their bounds, taken together, accept the one
\* transaction validation.md describes and nothing else, for every choice of the
\* parameters, of the stake and of the heights (signer.go:86-267).
THEOREM VerdictIsExact ==
    \A r \in Requests, h, b \in Nat :
        WellFormed(r) =>
            (Verdict(r, h, b) = "ok" <=> Deserves(r, h) /\ DeepEnough(h, b - h + 1))
BY OkIsDeserved, OkIsDeepEnough, DeservedIsOk

\* Only a transaction that passes the first checks is ever due.
LEMMA DueIsSane ==
    ASSUME NEW r, NEW h, Deserves(r, h)
    PROVE  CheckPreSignedUnbondingTxSanity(r.tx)
<1>1. PICK t, i, v : r.tx = TheUnbondingTx(t, i, v)
  BY DEF Deserves, DeservesUnder
<1> QED
  BY <1>1 DEF TheUnbondingTx, CheckPreSignedUnbondingTxSanity

\* What a handler that refuses a request rests on: the checks made before the
\* node was asked, the height the node gave, or the verdict on a true depth.
\* Neither read has a value before its RPC has answered.
Refusals ==
    /\ \A p \in Procs : pc[p] \in {"idle", "txByHash"} => height[p] = 0
    /\ \A p \in Procs : pc[p] = "bestBlock" => height[p] # 0
    /\ \A p \in Procs : pc[p] \in {"idle", "txByHash", "bestBlock"} => best[p] = 0
    /\ \A p \in Procs :
          /\ pc[p] = "returned" /\ outcome[p] = "invalid"
          /\ height[p] # 0 => height[p] <= MaxStakingTransactionHeight /\ ~disturbed[p]
          => \/ height[p] = 0 /\ ~WellFormed(req[p])
             \/ /\ height[p] # 0 /\ best[p] # 0
                /\ WellFormed(req[p])
                /\ Verdict(req[p], height[p], best[p]) # "ok"
                /\ depth[p] = best[p] - height[p] + 1

LEMMA RefusalsAlwaysHold == Spec => []Refusals
<1>1. Init => Refusals
  BY DEF Init, Refusals
<1>2. TypeOK /\ TypeOK' /\ Evidence /\ Refusals /\ [Next]_vars => Refusals'
  <2> SUFFICES ASSUME TypeOK, TypeOK', Evidence, Refusals, [Next]_vars
               PROVE  Refusals'
    OBVIOUS
  <2> USE DEF chain, nodes, reads
  <2>1. CASE Disconnect \/ \E S \in SUBSET TxHash : Connect(S)
    <3>1. /\ UNCHANGED <<req, height, best, depth, pc, outcome>>
          /\ \A p \in Procs : ~disturbed'[p] => ~disturbed[p]
      BY <2>1 DEF Disconnect, Connect
    <3> QED
      BY <3>1 DEF Refusals
  <2>2. CASE NodeStops \/ NodeStarts \/ WalletLocks \/ WalletUnlocks \/ Restart
             \/ UNCHANGED vars
    <3>1. UNCHANGED <<reads, pc, outcome>>
      BY <2>2 DEF NodeStops, NodeStarts, WalletLocks, WalletUnlocks, Restart, vars
    <3> QED
      BY <3>1 DEF Refusals
  <2>3. CASE Crash
    BY <2>3 DEF Crash, Forget, Refusals
  <2>4. ASSUME NEW p \in Procs, NEW r \in Requests, SignUnbondingTransaction(p, r)
        PROVE  Refusals'
    <3>1. \A q \in Procs : q # p =>
             pc'[q] = pc[q] /\ req'[q] = req[q] /\ outcome'[q] = outcome[q]
      BY <2>4 DEF SignUnbondingTransaction, ReturnWith, TypeOK
    <3>2. UNCHANGED <<height, best, disturbed, depth>> /\ height[p] = 0 /\ best[p] = 0
      BY <2>4 DEF SignUnbondingTransaction, Refusals
    <3>3. /\ pc'[p] \in {"txByHash", "returned"}
          /\ pc'[p] = "returned" => ~WellFormed(req'[p])
      BY <2>4 DEF SignUnbondingTransaction, ReturnWith, TypeOK
    <3> QED
      BY <3>1, <3>2, <3>3 DEF Refusals
  <2>5. ASSUME NEW p \in Procs, TxByHash(p)
        PROVE  Refusals'
    <3>1. \A q \in Procs : q # p =>
             /\ pc'[q] = pc[q] /\ outcome'[q] = outcome[q]
             /\ height'[q] = height[q] /\ disturbed'[q] = disturbed[q]
      BY <2>5 DEF TxByHash, Found, ReturnWith, TypeOK
    <3>2. UNCHANGED <<req, best, depth>> /\ best[p] = 0
      BY <2>5 DEF TxByHash, Refusals
    <3>3. \/ pc'[p] = "returned" /\ outcome'[p] = "internal"
          \/ /\ pc'[p] = "returned" /\ height'[p] # 0
             /\ ~ (height'[p] <= MaxStakingTransactionHeight)
          \/ pc'[p] = "bestBlock" /\ height'[p] # 0
      <4>1. StakingHash(req[p]) \in TxHash
        BY <2>5, StakingHashType DEF TxByHash, TypeOK
      <4>2. PICK h \in InclusionHeights(StakingHash(req[p])) :
              \/ ReturnWith(p, "internal")
              \/ /\ h # 0 /\ Found(p, h)
                 /\ \/ h > MaxStakingTransactionHeight /\ ReturnWith(p, "invalid")
                    \/ pc' = [pc EXCEPT ![p] = "bestBlock"]
        BY <2>5 DEF TxByHash, TxIsInChain
      <4>3. h \in Nat /\ MaxStakingTransactionHeight \in Nat
        BY <4>1, VersionsAssumption DEF InclusionHeights, TypeOK
      <4> QED
        BY <4>2, <4>3 DEF Found, ReturnWith, TypeOK
    <3> QED
      BY <3>1, <3>2, <3>3 DEF Refusals
  <2>6. ASSUME NEW p \in Procs, BestBlockHeight(p)
        PROVE  Refusals'
    <3>1. \A q \in Procs : q # p =>
             /\ pc'[q] = pc[q] /\ outcome'[q] = outcome[q]
             /\ best'[q] = best[q] /\ depth'[q] = depth[q]
      BY <2>6 DEF BestBlockHeight, ReturnWith, TypeOK
    <3>2. UNCHANGED <<req, height, disturbed>> /\ height[p] # 0
      BY <2>6 DEF BestBlockHeight, Refusals
    <3>3. pc'[p] \in {"returned", "rawSignature"}
      BY <2>6 DEF BestBlockHeight, ReturnWith, TypeOK
    <3>4. ASSUME outcome'[p] = "invalid", pc'[p] = "returned", ~disturbed[p]
          PROVE  /\ best'[p] # 0
                 /\ WellFormed(req[p])
                 /\ Verdict(req[p], height[p], best'[p]) # "ok"
                 /\ depth'[p] = best'[p] - height[p] + 1
      <4>1. /\ nodeUp
            /\ best'[p] = tip
            /\ depth'[p] = Depth(StakingHash(req[p]))
            /\ Verdict(req[p], height[p], tip) # "ok"
        BY <2>6, <3>4 DEF BestBlockHeight, ReturnWith, TypeOK
      <4>2. WellFormed(req[p]) /\ req[p] \in Requests
        BY <2>6 DEF BestBlockHeight, TypeOK
      <4>3. incl[StakingHash(req[p])] = height[p]
        BY <2>6, <3>4 DEF BestBlockHeight, Evidence
      <4>4. tip # 0
        <5>1. StakingHash(req[p]) \in TxHash
          BY <4>2, StakingHashType
        <5>2. height[p] \in Nat /\ tip \in Nat /\ height[p] <= tip
          BY <4>3, <5>1 DEF TypeOK
        <5> QED
          BY <3>2, <5>2
      <4> QED
        BY <3>2, <4>1, <4>2, <4>3, <4>4 DEF Depth
    <3> QED
      BY <3>1, <3>2, <3>3, <3>4 DEF Refusals
  <2>7. ASSUME NEW p \in Procs, RawSignature(p)
        PROVE  Refusals'
    <3>1. \A q \in Procs : q # p => pc'[q] = pc[q] /\ outcome'[q] = outcome[q]
      BY <2>7 DEF RawSignature, ReturnWith, TypeOK
    <3>2. UNCHANGED reads /\ pc'[p] = "returned" /\ outcome'[p] # "invalid"
      BY <2>7 DEF RawSignature, ReturnWith, TypeOK
    <3> QED
      BY <3>1, <3>2 DEF Refusals
  <2>8. ASSUME NEW p \in Procs, Return(p)
        PROVE  Refusals'
    BY <2>8 DEF Return, Forget, Refusals
  <2> QED
    BY <2>1, <2>2, <2>3, <2>4, <2>5, <2>6, <2>7, <2>8
    DEF Next, Environment, Handle, Asks
<1> QED
  BY <1>1, <1>2, TypeCorrect, EvidenceAlwaysHolds, PTL DEF Spec

\* Whatever return a refusal comes from, it rests on the request and on what was
\* read: no failure of a node, of the wallet or of the process, at any step, is
\* blamed on a client whose request was due, for any parameters and any chain.
THEOREM OnlyTheUndeservingAreRejected == Spec => []RejectsOnlyTheUndeserving
<1>1. ASSUME TypeOK, Refusals, NEW p \in Procs,
             pc[p] = "returned", outcome[p] = "invalid"
      PROVE  IF height[p] = 0
             THEN \/ ~IsTaproot(req[p].pkScript)
                  \/ \A h \in 0..MaxHeight : ~Deserves(req[p], h)
             ELSE \/ ~Deserves(req[p], height[p])
                  \/ height[p] > MaxStakingTransactionHeight
                  \/ best[p] # 0 /\ ~DeepEnough(height[p], depth[p])
                  \/ disturbed[p]
  <2>1. CASE height[p] = 0
    <3>1. ~WellFormed(req[p])
      BY <1>1, <2>1 DEF Refusals
    <3> QED
      BY <2>1, <3>1, DueIsSane DEF WellFormed
  <2>2. CASE height[p] # 0 /\ ~disturbed[p] /\ ~ (height[p] > MaxStakingTransactionHeight)
    <3>1. /\ req[p] \in Requests /\ height[p] \in Nat /\ best[p] \in Nat
          /\ MaxStakingTransactionHeight \in Nat
      BY <1>1, VersionsAssumption DEF TypeOK
    <3>2. /\ best[p] # 0 /\ WellFormed(req[p])
          /\ Verdict(req[p], height[p], best[p]) # "ok"
          /\ depth[p] = best[p] - height[p] + 1
      BY <1>1, <2>2, <3>1 DEF Refusals
    <3>3. \/ ~Deserves(req[p], height[p])
          \/ ~DeepEnough(height[p], best[p] - height[p] + 1)
      BY <3>1, <3>2, DeservedIsOk
    <3> QED
      BY <2>2, <3>2, <3>3
  <2> QED
    BY <2>1, <2>2
<1>2. TypeOK /\ Refusals => RejectsOnlyTheUndeserving
  BY <1>1 DEF RejectsOnlyTheUndeserving
<1> QED
  BY <1>2, TypeCorrect, RefusalsAlwaysHold, PTL

=============================================================================
