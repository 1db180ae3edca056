-------------------------- MODULE MCUnbondingRules --------------------------
(***************************************************************************)
(* A bounded space of requests, stakes and heights for RepeatedRequest.    *)
(* Two versions of the parameters that differ in every field, stakes on    *)
(* and beyond every bound, requests with every field right or wrong.       *)
(***************************************************************************)
EXTENDS RepeatedRequest

MCKeys == {"c1", "c2", "c3"}

MCVersions ==
    <<[activationHeight |-> 2, covenantPks |-> {"c1", "c2"},
       covenantQuorum |-> 2, tag |-> "bbn", unbondingTime |-> 3,
       unbondingFee |-> 1, maxStakingAmount |-> 8, minStakingAmount |-> 3,
       maxStakingTime |-> 6, minStakingTime |-> 4, confirmationDepth |-> 2],
      [activationHeight |-> 4, covenantPks |-> {"c1", "c3"},
       covenantQuorum |-> 1, tag |-> "bbn", unbondingTime |-> 4,
       unbondingFee |-> 3, maxStakingAmount |-> 9, minStakingAmount |-> 3,
       maxStakingTime |-> 7, minStakingTime |-> 5, confirmationDepth |-> 1]>>

Script(kind, v, time) ==
    [kind |-> kind, staker |-> "alice", fp |-> "fp",
     keys |-> MCVersions[v].covenantPks, quorum |-> MCVersions[v].covenantQuorum,
     time |-> time]

Wallet == [kind |-> "nontaproot"]
MCScripts ==
    {Wallet} \cup {Script(k, v, t) : k \in {"staking", "unbonding"},
                                     v \in {1, 2}, t \in 3..8}

Stake(tag, time, outs) ==
    [opReturn |-> [tag |-> tag, staker |-> "alice", fp |-> "fp",
                   stakingTime |-> time],
     outs |-> outs]

Pays(value, script) == [value |-> value, pkScript |-> script]

MCStakingTx ==
    [largest |-> Stake("bbn", 4, <<Pays(1, Wallet), Pays(8, Script("staking", 1, 4))>>),
     longest |-> Stake("bbn", 7, <<Pays(9, Script("staking", 2, 7)), Pays(1, Wallet)>>),
     twice   |-> Stake("bbn", 5, <<Pays(5, Script("staking", 1, 5)),
                                   Pays(5, Script("staking", 1, 5))>>),
     alien   |-> Stake("tag", 5, <<Pays(5, Script("staking", 1, 5))>>),
     early   |-> Stake("bbn", 3, <<Pays(5, Script("staking", 1, 3))>>),
     late    |-> Stake("bbn", 8, <<Pays(5, Script("staking", 2, 8))>>),
     rich    |-> Stake("bbn", 5, <<Pays(9, Script("staking", 1, 5))>>),
     poor    |-> Stake("bbn", 5, <<Pays(2, Script("staking", 1, 5))>>),
     dust    |-> Stake("bbn", 5, <<Pays(3, Script("staking", 2, 5))>>)]

Faults == {"none", "version", "lockTime", "replaceable", "twoIns", "twoOuts",
           "pkScript"}

\* An unbonding transaction, right or wrong in one part of its shape.
Tx(fault, t, index, out) ==
    LET in == [hash |-> t, index |-> index,
               sequence |-> IF fault = "replaceable" THEN "replaceable" ELSE "final"]
    IN  [version |-> IF fault = "version" THEN 1 ELSE 2,
         lockTime |-> IF fault = "lockTime" THEN 1 ELSE 0,
         ins |-> IF fault = "twoIns" THEN <<in, in>> ELSE <<in>>,
         outs |-> IF fault = "twoOuts" THEN <<out, out>> ELSE <<out>>]

\* The output the request says it spends, the first if it has no such output.
Spent(t, index) ==
    IF index + 1 \in DOMAIN StakingTx[t].outs
    THEN StakingTx[t].outs[index + 1] ELSE StakingTx[t].outs[1]

\* The staker's signature, right or wrong in one part of what it covers.
Sig(fault, tx, output) ==
    Signature(IF fault = "signer" THEN "fp" ELSE "alice",
              IF fault = "tx" THEN [tx EXCEPT !.lockTime = 2] ELSE tx,
              IF fault = "output" THEN [output EXCEPT !.value = 1] ELSE output,
              [path |-> IF fault = "leaf" THEN "timelock" ELSE "unbonding",
               of |-> output.pkScript])

\* What is wrong with a request besides the amount, the script and the output it
\* spends: the shape of the transaction, what the signature covers, or the key.
Mistakes ==
    {[shape |-> f, sig |-> "none", key |-> "c1"] : f \in Faults}
    \cup {[shape |-> "none", sig |-> f, key |-> "c1"] :
             f \in {"signer", "tx", "output", "leaf"}}
    \cup {[shape |-> "none", sig |-> "none", key |-> "c2"]}

Request(m, t, index, out) ==
    LET tx == Tx(m.shape, t, index, out)
    IN  [pkScript |-> IF m.shape = "pkScript" THEN Wallet
                                              ELSE Spent(t, index).pkScript,
         tx |-> tx, sig |-> Sig(m.sig, tx, Spent(t, index)), key |-> m.key]

MCRequests ==
    {Request(m, t, index,
             Pays(Spent(t, index).value - fee, Script("unbonding", v, time))) :
        m \in Mistakes, t \in TxHash, index \in 0..1, fee \in {0, 1, 3},
        v \in {1, 2}, time \in {3, 4}}

MCHeights == 1..4

=============================================================================
