--------------------------- MODULE CommitteeSigner ---------------------------
(***************************************************************************)
(* What one committee member promises, with no server, nodes or handlers:  *)
(* there is a ledger, which does as it likes, and a set of signatures,     *)
(* which only grows, by signatures that answer a request.  A request is    *)
(* answered when its stake has once been included at a height, and the     *)
(* ledger has then or later once been deep enough above that height.       *)
(*                                                                         *)
(* The promise is in the past tense, and does not say that the stake was   *)
(* still included when the ledger was deep enough: a signer that reads the *)
(* two facts one after the other can promise no more.                      *)
(***************************************************************************)
EXTENDS UnbondingRules

VARIABLES
    tip,        \* height of the ledger
    incl,       \* height at which each stake is included, 0 if it is not
    included,   \* <<stake, height>> that have been
    buried,     \* those above which the ledger has then been deep enough
    signatures  \* the member's signatures

ledger == <<tip, incl, included, buried>>

Init ==
    /\ tip = 0
    /\ incl = [t \in TxHash |-> 0]
    /\ included = {}
    /\ buried = {}
    /\ signatures = {}

Remember ==
    /\ included' = included \cup
          {<<t, incl'[t]>> : t \in {u \in TxHash : incl'[u] # 0}}
    /\ buried' = buried \cup
          {x \in included' : DeepEnough(x[2], tip' - x[2] + 1)}

LedgerMoves ==
    /\ tip' \in Nat
    /\ incl' \in [TxHash -> Nat]
    /\ \A t \in TxHash : incl'[t] <= tip'
    /\ Remember
    /\ UNCHANGED signatures

\* The member signs what the staker signed.
Issue(r) ==
    /\ \E x \in buried : x[1] = StakingHash(r) /\ Deserves(r, x[2])
    /\ signatures' = signatures \cup {[r.sig EXCEPT !.signer = r.key]}
    /\ UNCHANGED ledger

Next == LedgerMoves \/ \E r \in Requests : Issue(r)

Spec == Init /\ [][Next]_<<ledger, signatures>>

=============================================================================
