--------------------------- MODULE UnbondingRules ---------------------------
(***************************************************************************)
(* The rules by which the signing server judges one unbonding request:     *)
(* the checks of SignerApp.SignUnbondingTransaction (signerapp/signer.go)  *)
(* together with the parts of the Babylon staking library and of the       *)
(* global-parameters parser it calls.  No state: every operator is a       *)
(* function of the request, of the staking transaction it names and of     *)
(* the two heights read from the Bitcoin node.                             *)
(*                                                                         *)
(* Scripts, signatures and transactions are symbolic: a script is the      *)
(* record of the arguments it was built from, a signature the record of    *)
(* what it signs, so that two of them are equal exactly when their bytes   *)
(* would be (hashing and Schnorr signing taken as injective).              *)
(***************************************************************************)
EXTENDS Integers, Sequences

CONSTANTS
    Keys,          \* public keys
    Versions,      \* sequence of parsed global-parameter versions
    StakingTx,     \* the transactions a request can name, by hash
    Scripts,       \* the output scripts that occur
    Requests,      \* the decoded requests clients send
    MaxStakingTransactionHeight

TxHash == DOMAIN StakingTx

TxOut == [value : Int, pkScript : Scripts]
TxIn == [hash : TxHash, index : Nat, sequence : {"final", "replaceable"}]

\* "final" stands for wire.MaxTxInSequenceNum.
UnbondingTx ==
    [version : Int, lockTime : Nat, ins : Seq(TxIn), outs : Seq(TxOut)]

VersionedGlobalParams ==
    [activationHeight : Nat, covenantPks : SUBSET Keys, covenantQuorum : Nat,
     tag : STRING, unbondingTime : Nat, unbondingFee : Nat,
     maxStakingAmount : Nat, minStakingAmount : Nat,
     maxStakingTime : Nat, minStakingTime : Nat, confirmationDepth : Nat]

ASSUME VersionsAssumption ==
    /\ Versions \in Seq(VersionedGlobalParams)
    /\ MaxStakingTransactionHeight \in Nat

ASSUME StakingTxAssumption ==
    \A t \in TxHash : StakingTx[t].outs \in Seq(TxOut)

ASSUME RequestsAssumption ==
    /\ Requests # {}
    /\ \A r \in Requests : r.tx \in UnbondingTx

-----------------------------------------------------------------------------
(* Global parameters.                                                      *)

\* GetVersionedGlobalParamsByHeight: the last version already active at
\* height h, 0 when there is none.
ParamsVersion(h) ==
    LET active == {i \in DOMAIN Versions : Versions[i].activationHeight <= h}
    IN  IF active = {} THEN 0
        ELSE CHOOSE i \in active : \A j \in active : j <= i

\* Callers first test ParamsVersion(h) # 0, the retriever's nil check.
ParamsByHeight(h) ==
    LET v == Versions[ParamsVersion(h)]
    IN  [covenantPublicKeys |-> v.covenantPks,
         covenantQuorum     |-> v.covenantQuorum,
         magicBytes         |-> v.tag,
         unbondingTime      |-> v.unbondingTime,
         unbondingFee       |-> v.unbondingFee,
         maxStakingAmount   |-> v.maxStakingAmount,
         minStakingAmount   |-> v.minStakingAmount,
         maxStakingTime     |-> v.maxStakingTime,
         minStakingTime     |-> v.minStakingTime,
         confirmationDepth  |-> v.confirmationDepth]

-----------------------------------------------------------------------------
(* The staking library, as signer.go uses it.                              *)

StakingScript(data, params) ==
    [kind |-> "staking", staker |-> data.staker, fp |-> data.fp,
     keys |-> params.covenantPublicKeys, quorum |-> params.covenantQuorum,
     time |-> data.stakingTime]

UnbondingScript(data, params) ==
    [kind |-> "unbonding", staker |-> data.staker, fp |-> data.fp,
     keys |-> params.covenantPublicKeys, quorum |-> params.covenantQuorum,
     time |-> params.unbondingTime]

\* Outputs of transaction t that carry the script its OP_RETURN data announces.
StakingOutputs(t, params) ==
    {i \in DOMAIN StakingTx[t].outs :
        StakingTx[t].outs[i].pkScript =
            StakingScript(StakingTx[t].opReturn, params)}

\* ParseV0StakingTx succeeds: the tag is ours and one output, only one, is the
\* staking output.
ParsesAsV0StakingTx(t, params) ==
    /\ StakingTx[t].opReturn.tag = params.magicBytes
    /\ \E i \in DOMAIN StakingTx[t].outs : StakingOutputs(t, params) = {i}

\* Bitcoin numbers the outputs of a transaction from 0.
StakingOutputIdx(t, params) ==
    (CHOOSE i \in DOMAIN StakingTx[t].outs : i \in StakingOutputs(t, params)) - 1

StakingOutput(t, params) == StakingTx[t].outs[StakingOutputIdx(t, params) + 1]

\* The leaf of the staking script that a committee quorum and the staker can
\* spend at once.
UnbondingPath(t, params) ==
    [path |-> "unbonding", of |-> StakingScript(StakingTx[t].opReturn, params)]

\* A taproot signature commits to the transaction, to the output it spends and
\* to the revealed leaf.
Signature(key, tx, output, leaf) ==
    [signer |-> key, tx |-> tx, output |-> output, leaf |-> leaf]

CheckPreSignedUnbondingTxSanity(tx) ==
    /\ Len(tx.ins) = 1
    /\ Len(tx.outs) = 1
    /\ tx.lockTime = 0
    /\ tx.version = 2
    /\ tx.ins[1].sequence = "final"

IsSimpleTransfer(tx) ==
    /\ Len(tx.ins) = 1
    /\ Len(tx.outs) = 1
    /\ tx.lockTime = 0
    /\ tx.ins[1].sequence = "final"

IsTaproot(pkScript) == pkScript.kind # "nontaproot"

-----------------------------------------------------------------------------
(* The checks of SignUnbondingTransaction: r is the request, h the         *)
(* inclusion height of its stake, best the height of the best block.       *)

\* Checked before the node is asked anything.
WellFormed(r) == CheckPreSignedUnbondingTxSanity(r.tx) /\ IsTaproot(r.pkScript)

StakingHash(r) == r.tx.ins[1].hash

IsCovenantMember(key, covenantKeys) == key \in covenantKeys

\* Mutants: unsigned arithmetic (a word of 16 bits), a reversed subtraction, one
\* block too many.
ConfirmationsUnsigned(h, best) == ((best - h) % 65536) + 1
ConfirmationsReversed(h, best) == (h - best) + 1
ConfirmationsOffByOne(h, best) == (best - h) + 2

\* Signed arithmetic: best may be below h when the node reorganises its chain
\* between the two reads.
Confirmations(h, best) == (best - h) + 1

\* Mutant: > for >=.
EnoughConfirmationsStrict(h, best) ==
    Confirmations(h, best) > ParamsByHeight(h).confirmationDepth

EnoughConfirmations(h, best) ==
    Confirmations(h, best) >= ParamsByHeight(h).confirmationDepth

SpendsStakingOutput(r, params) ==
    r.tx.ins[1].index = StakingOutputIdx(StakingHash(r), params)

StakingTimeInBounds(t, params) ==
    /\ StakingTx[t].opReturn.stakingTime >= params.minStakingTime
    /\ StakingTx[t].opReturn.stakingTime <= params.maxStakingTime

\* Mutant: < for <=.
StakingAmountBelowBound(t, params) ==
    /\ StakingOutput(t, params).value >= params.minStakingAmount
    /\ StakingOutput(t, params).value < params.maxStakingAmount

StakingAmountInBounds(t, params) ==
    /\ StakingOutput(t, params).value >= params.minStakingAmount
    /\ StakingOutput(t, params).value <= params.maxStakingAmount

ExpectedUnbondingValue(t, params) ==
    StakingOutput(t, params).value - params.unbondingFee

\* BuildUnbondingInfo cannot fail here: ParseV0StakingTx has built the staking
\* script of the same keys and quorum before.
ExpectedUnbondingOutput(t, params) ==
    [value |-> ExpectedUnbondingValue(t, params),
     pkScript |-> UnbondingScript(StakingTx[t].opReturn, params)]

\* Mutant: the value is not compared.
ScriptsAreEqual(a, b) == a.pkScript = b.pkScript

OutputsAreEqual(a, b) == a.value = b.value /\ a.pkScript = b.pkScript

\* VerifyTransactionSigWithOutput, over the unbonding path of the staking output,
\* which is built as ParseV0StakingTx built it and so without an error.
StakerSigned(r, params) ==
    LET t == StakingHash(r)
    IN  r.sig = Signature(StakingTx[t].opReturn.staker, r.tx,
                          StakingOutput(t, params), UnbondingPath(t, params))

\* Everything checked before the expected output is computed.
StakeIsAdmissible(r, h, best) ==
    LET params == ParamsByHeight(h)
        t == StakingHash(r)
    IN  /\ IsCovenantMember(r.key, params.covenantPublicKeys)
        /\ EnoughConfirmations(h, best)
        /\ ParsesAsV0StakingTx(t, params)
        /\ SpendsStakingOutput(r, params)
        /\ StakingTimeInBounds(t, params)
        /\ StakingAmountInBounds(t, params)

\* Everything checked after it.
UnbondingIsAuthorised(r, h) ==
    LET params == ParamsByHeight(h)
    IN  /\ OutputsAreEqual(
               ExpectedUnbondingOutput(StakingHash(r), params), r.tx.outs[1])
        /\ StakerSigned(r, params)

\* Mutant: the errors after the output is computed are not wrapped.
VerdictUnwrapped(r, h, best) ==
    IF ParamsVersion(h) = 0 THEN "internal"
    ELSE IF ~StakeIsAdmissible(r, h, best) THEN "invalid"
    ELSE IF \/ ExpectedUnbondingValue(StakingHash(r), ParamsByHeight(h)) <= 0
            \/ ~UnbondingIsAuthorised(r, h)
         THEN "internal"
    ELSE "ok"

\* The order of the checks decides which error the caller gets: "invalid" wraps
\* ErrInvalidSigningRequest, "internal" is any other error.
Verdict(r, h, best) ==
    IF ParamsVersion(h) = 0 THEN "internal"
    ELSE IF ~StakeIsAdmissible(r, h, best) THEN "invalid"
    ELSE IF ExpectedUnbondingValue(StakingHash(r), ParamsByHeight(h)) <= 0
         THEN "internal"
    ELSE IF ~UnbondingIsAuthorised(r, h) THEN "invalid"
    ELSE "ok"

-----------------------------------------------------------------------------
(* What the wallet is asked to sign.                                       *)

\* Mutant: the packet spends the first output.
PsbtTxOfFirstOutput(tx) ==
    [version |-> tx.version, lockTime |-> tx.lockTime,
     ins |-> <<[hash |-> tx.ins[1].hash, index |-> 0, sequence |-> "final"]>>,
     outs |-> tx.outs]

\* The packet rebuilds the transaction from its parts.
PsbtTx(tx) ==
    [version |-> tx.version, lockTime |-> tx.lockTime,
     ins |-> <<[hash |-> tx.ins[1].hash, index |-> tx.ins[1].index,
                sequence |-> "final"]>>,
     outs |-> tx.outs]

CovenantSignature(r, h) ==
    LET params == ParamsByHeight(h)
        t == StakingHash(r)
    IN  Signature(r.key, PsbtTx(r.tx), StakingOutput(t, params),
                  UnbondingPath(t, params))

-----------------------------------------------------------------------------
(* A reference: what docs/validation.md lets a committee sign, written as  *)
(* the one transaction it describes instead of as a list of checks.        *)

InForce(v, h) ==
    /\ Versions[v].activationHeight <= h
    /\ \A w \in DOMAIN Versions : w > v => Versions[w].activationHeight > h

\* The outputs of stake t that lock to the committee of version v.
Locked(t, v) ==
    LET data == StakingTx[t].opReturn
        outs == StakingTx[t].outs
    IN  {i \in DOMAIN outs :
            outs[i].pkScript = [kind |-> "staking", staker |-> data.staker,
                                fp |-> data.fp, keys |-> Versions[v].covenantPks,
                                quorum |-> Versions[v].covenantQuorum,
                                time |-> data.stakingTime]}

\* It spends output i of the stake and pays its value, less the fee, to the
\* unbonding script of the same staker, finality provider and committee.
TheUnbondingTx(t, i, v) ==
    LET data == StakingTx[t].opReturn
    IN  [version |-> 2, lockTime |-> 0,
         ins |-> <<[hash |-> t, index |-> i - 1, sequence |-> "final"]>>,
         outs |-> <<[value |-> StakingTx[t].outs[i].value
                                  - Versions[v].unbondingFee,
                     pkScript |-> [kind |-> "unbonding", staker |-> data.staker,
                                   fp |-> data.fp,
                                   keys |-> Versions[v].covenantPks,
                                   quorum |-> Versions[v].covenantQuorum,
                                   time |-> Versions[v].unbondingTime]]>>]

DeservesUnder(r, t, v) ==
    LET data == StakingTx[t].opReturn
        outs == StakingTx[t].outs
    IN  /\ data.tag = Versions[v].tag
        /\ r.key \in Versions[v].covenantPks
        /\ Versions[v].minStakingTime <= data.stakingTime
        /\ data.stakingTime <= Versions[v].maxStakingTime
        /\ \E i \in DOMAIN outs :
              /\ Locked(t, v) = {i}
              /\ Versions[v].minStakingAmount <= outs[i].value
              /\ outs[i].value <= Versions[v].maxStakingAmount
              /\ Versions[v].unbondingFee < outs[i].value
              /\ r.tx = TheUnbondingTx(t, i, v)
              /\ r.sig = Signature(data.staker, r.tx, outs[i],
                            [path |-> "unbonding", of |-> outs[i].pkScript])

\* r deserves a signature for a stake included at height h.
Deserves(r, h) ==
    \E v \in DOMAIN Versions :
        InForce(v, h) /\ DeservesUnder(r, r.tx.ins[1].hash, v)

DeepEnough(h, depth) ==
    \A v \in DOMAIN Versions :
        InForce(v, h) => depth >= Versions[v].confirmationDepth

=============================================================================
