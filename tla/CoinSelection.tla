---------------------------- MODULE CoinSelection ----------------------------
(***************************************************************************)
(* Payments from bitcoind's wallet (btcclient/client.go): callers list the *)
(* wallet's outputs, choose inputs largest first until they cover the      *)
(* payment and a fee that grows with every input, and let the wallet sign. *)
(* One step takes one output or asks the input source once more.           *)
(* Nothing reserves an output between the listing and the broadcast, so    *)
(* callers and other users of the wallet race for the same ones.           *)
(***************************************************************************)
EXTENDS Integers, FiniteSets, Functions, SequencesExt

CONSTANTS
    Utxo,       \* the outputs the wallet knows
    Amount,     \* of each, in satoshi
    Spendable,  \* those whose keys it holds
    Callers,    \* concurrent calls of CreateAndSignTx
    Payments,   \* the outputs asked for: sequences of amounts
    BaseFee, InputFee,  \* fee of a transaction and of each of its inputs
    Dust        \* least value of a change output

ASSUME FeeAssumption ==
    BaseFee \in Nat /\ InputFee \in Nat /\ Dust \in Nat /\ Dust > 0

ASSUME AmountAssumption ==
    IsFiniteSet(Utxo) /\ Amount \in [Utxo -> Nat] /\ Spendable \subseteq Utxo

ASSUME PaymentsAssumption == Payments \subseteq Seq(Nat)

VARIABLES
    unspent,  \* outputs neither the chain nor the mempool spends
    pc,       \* what each caller does next
    listed,   \* history: the outputs its listing offered
    asked,    \* what it is to pay
    source,   \* its input source
    tx,       \* its transaction
    err,      \* why it failed
    accepted  \* history: callers whose transaction the node has taken

vars == <<unspent, pc, listed, asked, source, tx, err, accepted>>

Paid(outputs) == SumFunction(outputs)

\* txrules.FeeForSerializeSize of a transaction with n inputs of one type.
Fee(n) == BaseFee + n * InputFee

\* What the closure of makeInputSource captures, and the target it is asked for.
NoSource == [target |-> 0, total |-> 0, inputs |-> <<>>, utxos |-> <<>>]

NoTx == [inputs |-> <<>>, outputs |-> <<>>, change |-> 0]

Init ==
    /\ unspent \in SUBSET Utxo
    /\ pc = [c \in Callers |-> "idle"]
    /\ listed = [c \in Callers |-> {}]
    /\ asked = [c \in Callers |-> <<>>]
    /\ source = [c \in Callers |-> NoSource]
    /\ tx = [c \in Callers |-> NoTx]
    /\ err = [c \in Callers |-> "none"]
    /\ accepted = {}

-----------------------------------------------------------------------------
(* Listing the outputs.                                                    *)

\* Mutant: outputs of a watch-only address are kept.
resultsToUtxosAll(results, onlySpendable) == results

resultsToUtxos(results, onlySpendable) ==
    IF onlySpendable THEN results \cap Spendable ELSE results

\* Mutant: the order is not reversed.
SmallestFirst(utxos) ==
    {s \in SetToSeqs(utxos) : \A i, j \in DOMAIN s :
        i < j => Amount[s[i]] <= Amount[s[j]]}

\* sort.Sort leaves equal amounts in any order.
LargestFirst(utxos) ==
    {s \in SetToSeqs(utxos) : \A i, j \in DOMAIN s :
        i < j => Amount[s[i]] >= Amount[s[j]]}

-----------------------------------------------------------------------------
(* CreateTransaction: one RPC, the rest is computed from its answer.       *)

Fail(c, e) ==
    /\ pc' = [pc EXCEPT ![c] = "failed"]
    /\ err' = [err EXCEPT ![c] = e]

makeInputSource(utxos, target) ==
    [target |-> target, total |-> 0, inputs |-> <<>>, utxos |-> utxos]

CreateTransaction(c, outputs) ==
    LET utxos == resultsToUtxos(unspent, TRUE)
    IN  /\ pc[c] = "idle"
        /\ \/ /\ Fail(c, "rpc")
              /\ UNCHANGED <<listed, asked, source>>
           \/ /\ listed' = [listed EXCEPT ![c] = unspent]
              /\ asked' = [asked EXCEPT ![c] = outputs]
              /\ \/ /\ utxos = {} \/ outputs = <<>>
                    /\ Fail(c, IF utxos = {} THEN "insufficient"
                                             ELSE "nothing to pay")
                    /\ UNCHANGED source
                 \/ /\ utxos # {} /\ outputs # <<>>
                    /\ pc' = [pc EXCEPT ![c] = "choosing"]
                    /\ \E s \in LargestFirst(utxos) :
                          source' = [source EXCEPT ![c] =
                              makeInputSource(s, Paid(outputs) + Fee(1))]
                    /\ UNCHANGED err
        /\ UNCHANGED <<unspent, tx, accepted>>

NeedsCredit(s) == s.total < s.target /\ s.utxos # <<>>

\* Mutant: the output that was taken stays in the list.
CreditStays(s) ==
    [s EXCEPT !.total = @ + Amount[Head(s.utxos)],
              !.inputs = Append(@, Head(s.utxos))]

\* What is taken stays taken from one call of the source to the next.
NextCredit(s) ==
    [s EXCEPT !.total = @ + Amount[Head(s.utxos)],
              !.inputs = Append(@, Head(s.utxos)),
              !.utxos = Tail(@)]

TakeCredit(c) ==
    /\ pc[c] = "choosing"
    /\ NeedsCredit(source[c])
    /\ source' = [source EXCEPT ![c] = NextCredit(@)]
    /\ UNCHANGED <<unspent, pc, listed, asked, tx, err, accepted>>

\* txauthor.NewUnsignedTransaction, when the source has answered: it asks for
\* more as long as the fee of what it got is not covered.
NewUnsignedTransaction(c) ==
    LET got == source[c]
        fee == Fee(Len(got.inputs))
        rest == got.total - Paid(asked[c]) - fee
    IN  /\ pc[c] = "choosing"
        /\ ~NeedsCredit(got)
        /\ \/ /\ got.total < got.target
              /\ Fail(c, "insufficient")
              /\ UNCHANGED <<source, tx>>
           \/ /\ got.total >= got.target /\ rest < 0
              /\ source' = [source EXCEPT ![c].target = Paid(asked[c]) + fee]
              /\ UNCHANGED <<pc, tx, err>>
           \/ /\ got.total >= got.target /\ rest >= 0
              /\ tx' = [tx EXCEPT ![c] =
                    [inputs |-> got.inputs, outputs |-> asked[c],
                     change |-> IF rest < Dust THEN 0 ELSE rest]]
              /\ pc' = [pc EXCEPT ![c] = "created"]
              /\ UNCHANGED <<source, err>>
        /\ UNCHANGED <<unspent, listed, asked, accepted>>

-----------------------------------------------------------------------------
(* The rest of CreateAndSignTx, and the broadcast that follows it.         *)

\* The wallet signs what it holds keys for and finds unspent; a spend that is
\* only in the mempool it may overlook.
SignRawTransaction(c) ==
    LET inputs == ToSet(tx[c].inputs)
    IN  /\ pc[c] = "created"
        /\ \/ Fail(c, "rpc")
           \/ ~(inputs \subseteq unspent \cap Spendable) /\ Fail(c, "not all signed")
           \/ /\ inputs \subseteq Spendable
              /\ pc' = [pc EXCEPT ![c] = "signed"]
              /\ UNCHANGED err
        /\ UNCHANGED <<unspent, listed, asked, source, tx, accepted>>

\* The node may take the transaction and its answer be lost; the RPC client then
\* posts it again, and in the end gives up or is told that it is already in the
\* chain.
SendTx(c) ==
    LET inputs == ToSet(tx[c].inputs)
    IN  /\ pc[c] = "signed"
        /\ \/ Fail(c, "rpc") /\ UNCHANGED <<unspent, accepted>>
           \/ /\ c \in accepted \/ ~(inputs \subseteq unspent)
              /\ Fail(c, "rejected")
              /\ UNCHANGED <<unspent, accepted>>
           \/ /\ c \in accepted \/ inputs \subseteq unspent
              /\ unspent' = unspent \ inputs
              /\ accepted' = accepted \cup {c}
              /\ pc' = [pc EXCEPT ![c] = "sent"] \/ UNCHANGED pc
              /\ UNCHANGED err
        /\ UNCHANGED <<listed, asked, source, tx>>

\* The caller is done, and may call again.
Finish(c) ==
    /\ pc[c] \in {"sent", "failed"}
    /\ pc' = [pc EXCEPT ![c] = "idle"]
    /\ listed' = [listed EXCEPT ![c] = {}]
    /\ asked' = [asked EXCEPT ![c] = <<>>]
    /\ source' = [source EXCEPT ![c] = NoSource]
    /\ tx' = [tx EXCEPT ![c] = NoTx]
    /\ err' = [err EXCEPT ![c] = "none"]
    /\ accepted' = accepted \ {c}
    /\ UNCHANGED unspent

\* Somebody else with the keys.
SpendElsewhere(u) ==
    /\ u \in unspent
    /\ unspent' = unspent \ {u}
    /\ UNCHANGED <<pc, listed, asked, source, tx, err, accepted>>

Next ==
    \/ \E c \in Callers :
          \/ \E outputs \in Payments : CreateTransaction(c, outputs)
          \/ TakeCredit(c) \/ NewUnsignedTransaction(c)
          \/ SignRawTransaction(c) \/ SendTx(c) \/ Finish(c)
    \/ \E u \in Utxo : SpendElsewhere(u)

Spec == Init /\ [][Next]_vars

-----------------------------------------------------------------------------
(* Properties.                                                             *)

Made == {c \in Callers : tx[c] # NoTx}

\* Every output is spent once, the fee is what the final number of inputs calls
\* for, and what it exceeds that by is less than a change output is worth: the
\* source is asked again and again and must not count an output twice
\* (client.go:143-163).
FeeIsCovered ==
    \A c \in Made :
        LET inputs == ToSet(tx[c].inputs)
            fee == SumFunctionOnSet(Amount, inputs)
                      - Paid(tx[c].outputs) - tx[c].change
        IN  /\ Cardinality(inputs) = Len(tx[c].inputs)
            /\ fee >= Fee(Len(tx[c].inputs))
            /\ fee < Fee(Len(tx[c].inputs)) + Dust
            /\ tx[c].change = 0 \/ tx[c].change >= Dust

Covers(U, outputs) ==
    SumFunctionOnSet(Amount, U) >= Paid(outputs) + Fee(Cardinality(U))

\* Largest first finds a way to pay with the fewest inputs: no smaller choice of
\* the wallet's outputs would have covered the payment (client.go:233-235).
FewestInputs ==
    \A c \in Made : \A U \in SUBSET (listed[c] \cap Spendable) :
        U # {} /\ Covers(U, tx[c].outputs) => Cardinality(U) >= Len(tx[c].inputs)

\* A caller told that the wallet is too poor could not have been paid for by any
\* choice of its outputs, although each input it adds raises the target
\* (client.go:152, 171).
InsufficientIsTrue ==
    \A c \in Callers : err[c] = "insufficient" =>
        \A U \in SUBSET (listed[c] \cap Spendable) :
            U # {} => ~Covers(U, asked[c])

\* A transaction that cannot be signed or sent, and that the node did not take
\* before its answer was lost, lost an input to somebody else since the listing:
\* of two callers that race for one output, one is paid, and a retry starts from
\* a listing without it (client.go:221, 263-273).
LosesOnlyToOthers ==
    \A c \in Callers \ accepted :
        err[c] \in {"not all signed", "rejected"} =>
            ToSet(tx[c].inputs) \cap (listed[c] \ unspent) # {}

=============================================================================
