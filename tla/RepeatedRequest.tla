--------------------------- MODULE RepeatedRequest ---------------------------
(***************************************************************************)
(* One request that is judged again and again: a client sends it, for a    *)
(* stake included at some height, and repeats it while the tip of the      *)
(* chain moves.  SignUnbondingTransaction keeps nothing from one call to   *)
(* the next, so that what a repetition gets depends on the tip alone.      *)
(***************************************************************************)
EXTENDS UnbondingRules

CONSTANTS
    Heights,  \* at which stakes are included
    MaxBest   \* bound: height of the tip

ASSUME HeightsAssumption == Heights \subseteq Nat /\ MaxBest \in Nat

VARIABLES
    request,
    minedAt,  \* stakingTxInfo.TxInclusionHeight
    bestNow   \* bestBlock

asked == <<request, minedAt, bestNow>>

FirstAsked == request \in Requests /\ minedAt \in Heights /\ bestNow = 0

\* The request comes again at another tip.
Repeat ==
    /\ bestNow' \in 0..MaxBest
    /\ UNCHANGED <<request, minedAt>>

RepeatSpec == FirstAsked /\ [][Repeat]_asked

Judgement == Verdict(request, minedAt, bestNow)

\* The checks of signer.go accept exactly the requests validation.md describes,
\* for a stake as deep as its parameters demand, at every bound of every
\* parameter.
VerdictIsRight ==
    (WellFormed(request) /\ Judgement = "ok")
        <=> /\ WellFormed(request)
            /\ Deserves(request, minedAt)
            /\ DeepEnough(minedAt, bestNow - minedAt + 1)

\* A request once accepted is accepted again at any later tip: a client that
\* retries is never refused because time went by (signer.go:148-156).
RetriesStayAccepted ==
    [][bestNow' >= bestNow /\ Judgement = "ok" => Judgement' = "ok"]_asked

\* Only bad parameters make the server blame itself: none in force at the
\* height, or a fee that eats the stake (signer.go:132, 198).
InternalMeansBadParameters ==
    WellFormed(request) /\ Judgement = "internal"
        => \A v \in DOMAIN Versions :
              InForce(v, minedAt) =>
                  \E i \in Locked(StakingHash(request), v) :
                      StakingTx[StakingHash(request)].outs[i].value
                          <= Versions[v].unbondingFee

\* docs/validation.md:87 bounds the staking value above by min_staking_value.
DocumentedAmountBound ==
    WellFormed(request) /\ Judgement = "ok"
        => \A v \in DOMAIN Versions : InForce(v, minedAt) =>
              \A i \in Locked(StakingHash(request), v) :
                  StakingTx[StakingHash(request)].outs[i].value
                      <= Versions[v].minStakingAmount

=============================================================================
