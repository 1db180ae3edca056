--------------------------- MODULE MCCoinSelection ---------------------------
(***************************************************************************)
(* A wallet of any of five outputs: one worth less than the fee of         *)
(* spending it, one watched only, and three any two of which fall short of *)
(* some payment by the fee of the second input.                            *)
(***************************************************************************)
EXTENDS CoinSelection, TLC

MCAmount == [a |-> 6, b |-> 5, c |-> 5, crumb |-> 1, watched |-> 9]
MCUtxo == DOMAIN MCAmount
MCSpendable == MCUtxo \ {"watched"}
MCPayments == {<<>>, <<2>>, <<3, 4>>, <<8>>}

CallerSymmetry == Permutations(Callers)

=============================================================================
