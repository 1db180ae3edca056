------------------------ MODULE RepeatedRequest_proofs ------------------------
(***************************************************************************)
(* Theorems about the verdict on a repeated request, for any parameters,   *)
(* stakes, requests and heights.  What the rules accept is shown in        *)
(* SignerApp_proofs.                                                       *)
(***************************************************************************)
EXTENDS RepeatedRequest, SignerApp_proofs

AskedTypes == request \in Requests /\ minedAt \in Nat /\ bestNow \in Nat

LEMMA AskedTypesHold == RepeatSpec => []AskedTypes
<1>1. FirstAsked => AskedTypes
  BY HeightsAssumption DEF FirstAsked, AskedTypes
<1>2. AskedTypes /\ [Repeat]_asked => AskedTypes'
  BY HeightsAssumption DEF Repeat, asked, AskedTypes
<1> QED
  BY <1>1, <1>2, PTL DEF RepeatSpec

\* At whatever tip a request comes, it is accepted exactly when the transaction
\* docs/validation.md describes is due for its stake and the stake is deep enough
\* (signer.go:86-267).
THEOREM VerdictIsAlwaysRight == RepeatSpec => []VerdictIsRight
<1>1. AskedTypes => VerdictIsRight
  BY VerdictIsExact DEF AskedTypes, VerdictIsRight, Judgement
<1> QED
  BY <1>1, AskedTypesHold, PTL

\* A longer chain takes no acceptance back.
LEMMA DeeperIsAsGood ==
    ASSUME NEW r, NEW h \in Nat, NEW b \in Nat, NEW c \in Nat, c >= b,
           Verdict(r, h, b) = "ok"
    PROVE  Verdict(r, h, c) = "ok"
<1>1. ParamsVersion(h) # 0 /\ StakeIsAdmissible(r, h, b)
  BY DEF Verdict
<1>2. ParamsByHeight(h).confirmationDepth \in Nat
  <2>1. Versions[ParamsVersion(h)] \in VersionedGlobalParams
    BY <1>1, LastActiveVersion, VersionsAssumption
  <2> QED
    BY <2>1 DEF ParamsByHeight, VersionedGlobalParams
<1>3. EnoughConfirmations(h, c)
  <2>1. b - h + 1 >= ParamsByHeight(h).confirmationDepth
    BY <1>1 DEF StakeIsAdmissible, EnoughConfirmations, Confirmations
  <2> QED
    BY <1>2, <2>1 DEF EnoughConfirmations, Confirmations
<1>4. StakeIsAdmissible(r, h, c)
  BY <1>1, <1>3 DEF StakeIsAdmissible
<1> QED
  BY <1>1, <1>4 DEF Verdict

\* A client that repeats an accepted request, at a tip no lower, is never refused
\* (signer.go:148-156).
THEOREM NoRetryIsRefused == RepeatSpec => RetriesStayAccepted
<1>1. AskedTypes /\ AskedTypes' /\ [Repeat]_asked =>
         [bestNow' >= bestNow /\ Judgement = "ok" => Judgement' = "ok"]_asked
  BY DeeperIsAsGood DEF Repeat, asked, AskedTypes, Judgement
<1> QED
  BY <1>1, AskedTypesHold, PTL DEF RepeatSpec, RetriesStayAccepted

\* The server blames itself only when its parameters are bad: none is in force at
\* the height, or the fee is as large as the stake (signer.go:132, 198).
THEOREM OnlyBadParametersAreInternal == RepeatSpec => []InternalMeansBadParameters
<1>1. ASSUME AskedTypes, WellFormed(request), Judgement = "internal",
             NEW v \in DOMAIN Versions, InForce(v, minedAt)
      PROVE  \E i \in Locked(StakingHash(request), v) :
                StakingTx[StakingHash(request)].outs[i].value
                    <= Versions[v].unbondingFee
  <2> DEFINE t == StakingHash(request)
             params == ParamsByHeight(minedAt)
  <2>1. v = ParamsVersion(minedAt) /\ v # 0
    BY <1>1, InForceIsParamsVersion DEF AskedTypes
  <2>2. /\ StakeIsAdmissible(request, minedAt, bestNow)
        /\ ExpectedUnbondingValue(t, params) <= 0
    BY <1>1, <2>1 DEF Judgement, Verdict
  <2>3. PICK i \in DOMAIN StakingTx[t].outs : StakingOutputs(t, params) = {i}
    BY <2>2 DEF StakeIsAdmissible, ParsesAsV0StakingTx
  <2>4. i \in Locked(t, v)
    BY <2>1, <2>3 DEF Locked, StakingOutputs, StakingScript, ParamsByHeight
  <2>5. i \in Int /\ StakingTx[t].outs[i] \in TxOut
    BY <1>1, StakingHashType, StakingTxAssumption DEF AskedTypes
  <2>6. StakingOutput(t, params) = StakingTx[t].outs[i]
    <3>1. StakingOutputIdx(t, params) = i - 1
      BY <2>3 DEF StakingOutputIdx
    <3>2. (i - 1) + 1 = i
      BY <2>5
    <3> QED
      BY <3>1, <3>2 DEF StakingOutput
  <2>7. StakingTx[t].outs[i].value - Versions[v].unbondingFee <= 0
    BY <2>1, <2>2, <2>6 DEF ExpectedUnbondingValue, ParamsByHeight
  <2>8. StakingTx[t].outs[i].value \in Int
    <3> HIDE DEF t
    <3> QED
      BY <2>5 DEF TxOut
  <2>9. Versions[v].unbondingFee \in Nat
    <3>1. Versions[v] \in VersionedGlobalParams
      BY <1>1, VersionsAssumption
    <3> QED
      BY <3>1 DEF VersionedGlobalParams
  <2> QED
    BY <2>4, <2>7, <2>8, <2>9
<1>2. AskedTypes => InternalMeansBadParameters
  BY <1>1 DEF InternalMeansBadParameters
<1> QED
  BY <1>2, AskedTypesHold, PTL

=============================================================================
