----------------------------- MODULE MCSignerApp -----------------------------
(***************************************************************************)
(* Instances of SignerApp.  One stake that two versions of the parameters  *)
(* accept, at a height where the second takes over, and the requests that  *)
(* tell the versions, the committee keys and the outcomes apart.           *)
(***************************************************************************)
EXTENDS SignerApp, TLC

MCKeys == {"c1", "c2"}

Version(activation, fee, depthRequired) ==
    [activationHeight |-> activation, covenantPks |-> {"c1", "c2"},
     covenantQuorum |-> 2, tag |-> "bbn", unbondingTime |-> 3,
     unbondingFee |-> fee, maxStakingAmount |-> 9, minStakingAmount |-> 3,
     maxStakingTime |-> 9, minStakingTime |-> 2,
     confirmationDepth |-> depthRequired]

MCVersions == <<Version(1, 1, 2), Version(2, 2, 2)>>

Script(kind, time) ==
    [kind |-> kind, staker |-> "alice", fp |-> "fp", keys |-> {"c1", "c2"},
     quorum |-> 2, time |-> time]

Wallet == [kind |-> "nontaproot"]
MCScripts == {Wallet, Script("staking", 5), Script("unbonding", 3)}

MCStakingTx ==
    [stake |-> [opReturn |-> [tag |-> "bbn", staker |-> "alice", fp |-> "fp",
                              stakingTime |-> 5],
                outs |-> <<[value |-> 1, pkScript |-> Wallet],
                           [value |-> 5, pkScript |-> Script("staking", 5)]>>]]

Tx(fee) ==
    [version |-> 2, lockTime |-> 0,
     ins |-> <<[hash |-> "stake", index |-> 1, sequence |-> "final"]>>,
     outs |-> <<[value |-> 5 - fee, pkScript |-> Script("unbonding", 3)]>>]

Request(tx, key) ==
    [pkScript |-> Script("staking", 5), tx |-> tx, key |-> key,
     sig |-> Signature("alice", tx, MCStakingTx["stake"].outs[2],
                 [path |-> "unbonding", of |-> Script("staking", 5)])]

UnderFirst == Request(Tx(1), "c1")
UnderSecond == Request(Tx(2), "c1")
NotInWallet == Request(Tx(1), "c2")
NotTaproot == [UnderFirst EXCEPT !.pkScript = Wallet]
OtherScript == [UnderFirst EXCEPT !.pkScript = Script("unbonding", 3)]
Forged == [UnderFirst EXCEPT !.sig.signer = "fp"]
Replaceable == Request([Tx(1) EXCEPT !.ins[1].sequence = "replaceable"], "c1")

\* Two handlers racing with the chain.
RaceRequests == {UnderFirst, UnderSecond}
\* Every outcome of every call.
AllRequests == {UnderFirst, UnderSecond, NotInWallet, NotTaproot, OtherScript,
                Forged, Replaceable}
\* One that is due in some states and not in others, one refused at once.
FewRequests == {UnderFirst, NotTaproot}

\* Handlers are interchangeable: no property names one.
HandlerSymmetry == Permutations(Procs)

=============================================================================
