# Covenant signer: TLA+ models, model checking and proofs

The covenant signer is the program a Babylon covenant committee member runs to
sign unbonding transactions. A client sends it an unbonding transaction with the
staker's signature; the program looks the staking transaction up on a Bitcoin
full node, judges the request by the global parameters in force at the stake's
height, has an offline wallet sign, and returns the signature. Nothing is
persisted: what it must get right is *what* it signs while the chain, the nodes,
its clients and its own process change under it.

## 1. The system

| component | state | operations | talks to |
|---|---|---|---|
| signing rules (`signerapp/signer.go`, `babylon_params_retriever.go`) | none | the checks of `SignUnbondingTransaction`, `ParamsByHeight` | staking library, parameters |
| request handlers (`signer.go`, `btc_chain_info.go`, `btc_psbt_signer.go`) | locals of each call: request, inclusion height, tip | `TxByHash`, `BestBlockHeight`, `RawSignature` | full node, wallet node |
| HTTP service (`signerservice/`) | one handler per request, counters | content-length middleware, `SignUnbonding`, `registerHandler`, `writeResponse`, `Start`, `Stop` | client, handlers, metrics |
| client (`signerservice/client.go`) | one call | `RequestCovenantSignaure`, its timeout | HTTP service |
| metrics (`observability/metrics`) | three counters, a server of its own | `Inc...`, scrape, `log.Fatal` | HTTP service, process |
| process (`cmd/`, `main.go`) | running or not | `start` | everything |
| signers, wallet RPCs (`btc_psbt_signer.go`, `btc_priv_key_signer.go`, `btcclient/client.go`) | a key in memory, the queue of the RPC client, the wallet's lock | `RawSignature`, `SignPsbt`, `DumpPrivateKey`, `UnlockWallet` | wallet node |
| wallet transactions (`btcclient/client.go`) | locals of each call, the wallet's outputs | `CreateTransaction`, coin selection, `SignRawTransaction`, `SendTx` | wallet node (end-to-end tests only) |
| configuration (`config/`, `cmd/dumpDefaultCfgCmd.go`) | a file | `dump-cfg`, `GetConfig`, `Parse` | process |

**What is hard.** `TxByHash` and `BestBlockHeight` are two RPCs and a
reorganisation may fall between them (signer.go:143 says so). Handlers run
concurrently and remember nothing. Parameters depend on a height that a
reorganisation changes. The wallet must be unlocked by hand and locks itself
again. The client's context is not passed on, so its timeout does not stop the
server. Success is counted before the response is written. The metrics server
kills the process when it cannot listen, and nothing ever calls `Stop`. All
handlers queue behind one RPC connection without a timeout, and a request the
wallet performed may be posted again. The configuration file is looked for,
written and read by steps that others can come between. The full
list, with the line each hazard bites at and the properties that guard it, is
`hazards` in PROJECT.json.

**What makes each part correct.** The rules sign exactly the one transaction
docs/validation.md describes. The handlers act on evidence that was true, sign
at most one transaction per stake and parameter version, never blame a caller
for a node's failure, and always return. The service counts every request in and
out once, tells the client what happened and no more, and leaves nobody waiting.
Together they give each client the signature made for its own request, and count
every one the wallet made. A signer returns a signature only of a key the wallet
holds, and keeps no key. A payment covers its fee with the fewest inputs. A
process serves with settings somebody chose, on both its listeners.

## 2. Modules

| module | what it is |
|---|---|
| `UnbondingRules` | the checks as operators, one per check, composed by `StakeIsAdmissible`, `UnbondingIsAuthorised` and `Verdict` in the order of signer.go; at its end the reference definition `Deserves` |
| `RepeatedRequest`, `RepeatedRequest_proofs` | one request judged again and again while the tip moves; what is said of a single verdict; theorems |
| `SignerApp` | extends it with the state machine of the handlers, the chain and the two nodes; its properties |
| `SignerApp_proofs` | theorems about `SignerApp` |
| `CommitteeSigner` | abstract specification: what one committee member promises |
| `SignerRefinement` | `SignerApp` with the history of the chain added, and the mapping to `CommitteeSigner` |
| `SignerRefinement_proofs` | the proof that it implements it |
| `SigningService`, `SigningService_proofs` | clients, HTTP server, counters, process; its properties; theorems |
| `CovenantSigner`, `CovenantSigner_proofs` | `SigningService` and `SignerApp` joined into the whole signer; theorems |
| `ExternalBtcSigner` | abstract specification: what `SignerApp` expects of a signer |
| `WalletSigner`, `WalletSigner_proofs` | `PsbtSigner` and `PrivKeySigner` over the shared RPC client; the proof that they implement `ExternalBtcSigner` |
| `CoinSelection`, `CoinSelection_proofs` | payments from the wallet by concurrent callers; theorems |
| `Startup`, `Startup_proofs` | `dump-cfg`, the file, `start` and its two listeners; theorems |
| `MC...` | instances for TLC |

### UnbondingRules

`Verdict(r, h, best)` is "ok", "invalid" (an error that wraps
`ErrInvalidSigningRequest`, answered 400) or "internal" (any other error, 500).
Scripts, signatures and transactions are symbolic: a script is the record of the
arguments it was built from, a signature the record of what it covers. Hashing
and Schnorr signatures are thereby injective, and a staker's signature cannot be
made by anybody else than whoever the request says signed. Amounts, heights and
times are integers; `int64` and `uint32` do not overflow at the sizes Bitcoin
allows, and the one subtraction that could wrap is `Confirmations`, which the
code does in signed arithmetic. The staking library and the parameter parser are
not in the repository; they are modelled from the way signer.go uses them.

`Deserves(r, h)` states the same thing from the other side: the transaction a
committee may sign is *constructed* (`TheUnbondingTx`) and the request must equal
it. It shares no check with `Verdict`.

`RepeatedRequest` puts a client around the checks that asks once at tip 0 and
again at any other tip: what a repetition gets depends on the tip alone, since
nothing is kept between calls. The run `rules` explores it.

### SignerApp

| model | code |
|---|---|
| `SignUnbondingTransaction` | signer.go:86-107, rejecting before any RPC |
| `TxByHash` | signer.go:109-120 and btc_chain_info.go: not found, in the mempool or node down is "internal", too high is "invalid"; the height the node gave is kept in either case where it gave one |
| `BestBlockHeight` | signer.go:122-267: the second read, then `Verdict`; none of the checks looks at the node again |
| `RawSignature` | signer.go:269-291 and btc_psbt_signer.go: wallet locked, down, without the key or with a signature that does not parse is "internal" |
| `Return` | the HTTP handler takes the answer; the locals are gone |
| `Connect`, `Disconnect` | the node's chain, one block at a time, so that the intermediate states of a reorganisation are seen |
| `NodeStops`, `WalletLocks`, ... | outages, `unlock_time`, restarts |
| `Crash`, `Restart` | the signer's process; its handlers and all they know are gone |
| `InclusionHeights` | what the node's transaction index says; with `StaleIndex` it may still name the block a transaction was disconnected from |

`RawSignature` may sign and lose the answer, which is "internal" for the caller,
as is an answer that holds no signature that parses.

`TxByHash` is one step although the library makes two RPCs: the second asks for
a block by hash, and a block does not change. `disturbed`, `depth` and `signed`
are history variables; no guard of a handler reads them, except that no new
request is taken once `MaxSigned` requests are signed, which is a bound.

### CommitteeSigner and SignerRefinement

`CommitteeSigner` has a ledger, the set of its `<<stake, height>>` pairs so far,
and signatures. The ledger moves as it likes; `Issue(r)` adds the signature of a
request that `Deserves` one at a height where its stake has been included and
above which the ledger has, then or later, been deep enough. There are no nodes,
handlers, reads or errors in it, and it shares no check with `Verdict`. It is in
the past tense because the code can promise no more (see the first divergence in
§3): it does not say that the stake was still included when the ledger was deep.

`SignerRefinement` adds the ledger's history to `SignerApp` as history variables
and maps `signatures` to what the wallet signed. A request that fails, a read, an
outage and a second signature of the same request are stutters; `RawSignature` of
a wallet that answers is `Issue`.

### SigningService

An exchange is one HTTP request. `Send`, `TimeOut`, `SeeDisconnect`, `TakeResult`
are its client; `RejectTooLong` (413), `RejectBody` (400), `Decode`,
`SignUnbonding`, `WriteResponse` its handler; `Start`, `Crash`, `Stop`, `Drained`
the process. Bodies are of five kinds: fine, not decodable, too slow for
ReadTimeout, too long and saying so, too long without saying so. What SignerApp
returns is nondeterministic; `SignerApp` says when it is what. A retry is another
`Send`. `internal` and `delivered` are history variables.

### CovenantSigner

It extends `SignerApp` and instantiates `SigningService` with the handlers as
exchanges. The two meet at sign_unbonding.go:65: `Enter` is `Decode` together with
`SignUnbondingTransaction`, `Leaves` is `Return` together with `SignUnbonding` of
the outcome `SignerApp` has reached, which was nondeterministic in the part. A
crash is a crash of both. What is new is the data that travels: the request a
client sent (`asks`), the signature in a response (`payload`), the one a client
read (`holds`), and two tallies of what the wallet made and of answers it lost.
`Stop` is not composed, since the start command never calls it.

### WalletSigner and ExternalBtcSigner

`ExternalBtcSigner` says what the interface promises: a call returns an error, or
a signature made for this very request after the call began, while the wallet
could. `WalletSigner` has callers of both signers, the queue of the RPC client,
which posts one request at a time, tries again when the connection fails and
gives up after `MaxTries`, and a wallet that is down, hung, locked or unlocked.
`Post` may perform the request and lose the answer, and so perform it twice.
`ReadPacket` may find bytes that are no signature in a packet the wallet signed.
`keys` are the callers that hold a private key in memory: from `TakeKey` to
`SignAndZero`, the deferred `Zero`.

### CoinSelection

`source` is what the closure of `makeInputSource` captures, which survives from
one call of it to the next, and the target it was last asked for.
`CreateTransaction` lists, sorts and makes it; `TakeCredit` is one round of the
closure's loop, one output taken; `NewUnsignedTransaction` what txauthor does
when the source has answered: fail, ask for more because the fee of what it got
is not covered, or make the transaction. Nothing shared is touched between the
listing and the signing, so these steps add no behaviour to the code's; they are
steps so that what the loop keeps can be stated as an invariant.
`SignRawTransaction` and `SendTx` are an RPC each. The node may take a transaction
whose answer is lost, as in `WalletSigner`: the client posts it again, and ends
with the transaction's hash, with an error, or with a rejection of what is already
paid. `accepted` is the history variable of that, so that `LosesOnlyToOthers` can
say what a rejection means: an input went to somebody else, or the payment was
made. `SpendElsewhere` is anybody else with the keys. All inputs are of one type, so the fee is linear in their
number.

### Startup

A file is the function from settings to values its text stands for, `NoFile`, or
`Unreadable`. Only settings that a check or a listener looks at are kept.
`WriteConfigToFile` is os.Stat, `OpenToWrite` the truncation, `Write` the bytes,
which may stop anywhere: `CutFiles` has what can then be read, a shortened number
included. `beside` is a file that viper tries before the one that was named, absent,
unreadable or a configuration of its own; nobody changes it while the model runs.
`RunSigner` reads and checks; `Metrics` and `Serve` are the two
goroutines that listen, each of which ends the process when it cannot.

## 3. Runs

| run | asks | bounds, and why they are enough |
|---|---|---|
| `rules` | does `Verdict` accept exactly what `Deserves` describes (`VerdictIsRight`); is the server blamed only for bad parameters; is a repeated request accepted again | two versions that differ in all they can; nine stakes on and just beyond every bound; requests right or with one mistake in each field, and every amount, script and output with either; heights below, on and above both activations; tips 0..5 around every depth |
| `race` | do the reads, the judgement and the signature hang together (`Evidence`); one transaction per stake and version; maturity; no wrap-around | two handlers, two requests that are each due under one version only, height 3: enough for a reorganisation of any depth up to and beyond the confirmation depth (2) that moves the stake across the activation of the second version (2); handlers are interchangeable, so they are a symmetry set |
| `refinement` | does `SignerApp` implement `CommitteeSigner`; was what a handler read once so; is only what is due signed, as the staker signed it, and only what is not due called invalid, also when a node or the wallet fails; does a stake get a second transaction only if the chain moved it | one handler, seven requests that reach every branch, height 3, two signatures, so that a stake can be signed for on both sides of an activation |
| `service` | do the counters balance, is success counted first, do status and text tell what they should; is every client answered; does a shutdown end | two exchanges, so that handlers overlap; no new request after three received, so that one is sent again |
| `whole` | does a client read the signature made for its own request; is every signature counted, pending or lost | two clients with a good and a bad request, one block that comes and goes, one signature; restarts, timeouts, lost answers; what the chain does in detail is `race`'s matter |
| `whole_liveness` | if its RPCs return, does every call of `SignerApp`; is a good request signed; does its client read the signature | one client, since handlers share nothing but the chain; a good request and one refused at once; height 3, so that a stake of the depth that is required (2) stays good while the tip goes from 2 to 3 and back |
| `wallet` | do both signers implement `ExternalBtcSigner`; is every key zeroed; is the wait of a caller bounded whatever else happens; does only a hung node block | a `PsbtSigner` and a `PrivKeySigner` caller, requests that are good, not simple, for a missing key and with a bad leaf, three tries |
| `coins` | is the fee covered, with the fewest inputs; is poverty real; is only a lost race an error | two callers, answers to a broadcast that are lost, outputs of equal and different amounts, one not spendable, payments that need one to all of them or too much; fee 1 + 2 per input so that an added input can cost more than it brings |
| `startup` | where do the settings come from; what does a late dump touch; does a process end up with both listeners or none | one dump (`LateDumpsAreHarmless` is proved for any number), two processes, six files: two that make them take ports from each other, one that cannot be listened on, refused, partial and unreadable ones; no neighbour, one with settings nobody else writes, an unreadable one; MaxUint32 as 429, which has shorter numbers in it too |
| `atomic_reads` | violated: `MatureWhenChecked` | see below |
| `amount_bound` | violated: `DocumentedAmountBound` | see below |
| `failed_counter` | violated: `FailedMeansInternal` | see below |

Every property of a passing run has a mutant of the code that breaks it. The
mutants stand beside the definitions they change (`ConfirmationsUnsigned`,
`ScriptsAreEqual`, `RejectBodyNeverSlow`, ...); nothing else uses them.

**Where documents and code part.**

1. docs/validation.md step 6 and the comment at signer.go:225 have the stake
   mature in the ledger. The code computes the depth from two reads that are not
   atomic: read the stake at height h, disconnect its block, connect two blocks
   without it, read the tip, and a stake that is in no block is signed for. One
   disconnected block is enough with a confirmation depth of 2. What the code
   does guarantee is `MatureUnlessReorged` and `NeverAheadOfTheTip`, both proved.
2. `signer_failed_signing_requests` is documented as internal errors
   (observability/metrics/signer.go:31, docs/deployment.md:436) and also counts
   requests refused as invalid.
3. docs/validation.md step 10 bounds the staking value above by
   `min_staking_value`, the code by the maximum.

Seen while modelling, and shown by no run:

* expected_interfaces.go:38 has `TxByHash` return only transactions of the
  canonical chain. A node whose index still names a disconnected block makes it
  return one that is in no block. `race` and `refinement` run with such a node
  (`StaleIndex`), and the theorems hold of it.
* dump-cfg reports that the default was dumped when it left a file alone.
* An IPv6 metrics host passes `Parse`; the address made of it (signerCmd.go:82)
  does not listen, and log.Fatal ends the signer.
* `--config` names a directory and a name without extension to viper, which
  takes `config.json` before `config.toml`.
* main.go drops the error of `Execute`, so a start that fails exits with status
  0. Two processes started at once may each take one port, and both end. A wallet
  that hangs blocks everybody.

Two requests for one stake may both be signed, with different transactions, when
the stake moves across an activation height between them: `OneUnbondingPerStake`
is stated per version. `OneUnbondingUnlessMoved` says that this is the only way
to a second transaction: the stake was buried, at two heights, under both versions.
The server keeps no memory by design.

**Fairness.** Goroutines are scheduled: a call that has its result returns
(`FairSpec` of `SignerApp`), a handler runs on between its RPCs (`Runs(p)` in
`CovenantSigner`). That an RPC ends is not the code's doing: the RPC client has no
timeout that the repository sets, and a node that accepts a call and stays silent
holds its handlers. So it is in no specification of the two. The properties that
need it have it as a hypothesis, for the one call they speak of: `RpcsReturn(p)`,
which says nothing of what the answer is, in `EveryCallReturns`,
`GoodRequestsAreSigned` and `GoodClientsAreServed`. `WalletSigner` says what holds
without it: its fairness is on the client's goroutine (`Post`) and on the callers
only, and `OnlyAHungNodeBlocks` says what is left. In `SigningService`, where
SignerApp's answer is nondeterministic, `WF_vars(Serve(e))` has the call of
SignerApp end as well; `EveryClientIsAnswered` and `ShutdownEnds` rest on that. A
body arrives or ReadTimeout ends it. Nothing is assumed of the chain, whether nodes
and wallet are up, of clients sending or timing out. A client notices a connection
that was cut, and `Shutdown` polls until no handler is left. In `Startup` both goroutines of
a process run; nobody need edit, dump or restart.

No run needs a state in which nothing can happen; deadlock is checked throughout.

## 4. Theorems

All of them hold for any constants that satisfy the assumptions, and every safety
property of a passing run is the subject of one.

* **Assumptions**: `VersionsAssumption`, `StakingTxAssumption`,
  `RequestsAssumption` are typing facts about decoded inputs, and there is some
  request; `PaymentsAssumption` and `AmountAssumption` that amounts are not
  negative and the wallet's outputs finite in number, `FeeAssumption` that fees
  are not negative and a change output is worth something, `HeightsAssumption`
  that heights are not negative. Activation heights need not be sorted, nor
  confirmation depths positive. `ExchangesAssumption` and `ClientsAssumption` say
  that the clients whose handlers are counted are finite in number,
  `MaxTriesAssumption` that a request is posted at least once,
  `StaleIndexAssumption` nothing: the index may be stale or not. TLC evaluates all of them on the instances.
* **SignerApp.** None of the properties of `signed` is inductive: a signature
  appears two steps after the checks and one after the reads. `Evidence` carries
  what a handler knows at each step: after `TxByHash`, *unless disturbed*, that
  the stake still sits where it was read (`Disconnect` keeps it because it marks
  the handlers it disturbs, `Connect` because a transaction is not included
  twice); after `BestBlockHeight`, that the verdict was "ok" for what will be
  sent to the wallet and, unless disturbed, the true depth is the computed one;
  after `RawSignature`, the same of the record. `TypeOK` adds that only
  well-formed requests get that far, which is what makes `ins[1]` an input.
  `TypeCorrect` and `EvidenceAlwaysHolds` are inductions, one step per action.
  The rest are state facts: `OkIsDeepEnough` turns a verdict into a depth
  (`NeverAhead`, `Maturity`); `OkDeterminesTx` shows a verdict leaves no freedom
  in the transaction (`OneUnbonding`); `PsbtKeepsTx` that the packet is the
  transaction (`StakerAndCommitteeAgree`); `LastActiveVersion`, from the
  well-foundedness of <, that one version is in force, and with it
  `OkIsDeserved` that the checks imply the reference (`OnlyTheDeserved`).
* **The rules are exact.** `DeservedIsOk` is the converse, the constructed
  transaction passes every check, and `VerdictIsExact` the two together: what
  `VerdictIsRight` checks on an instance, for all parameters, and
  `VerdictIsAlwaysRight` says of `RepeatedRequest`. `NoRetryIsRefused` rests on
  `DeeperIsAsGood`, that of all checks only `EnoughConfirmations` looks at the tip;
  `OnlyBadParametersAreInternal` traces an "internal" back to the one subtraction
  that may leave nothing to pay. `Refusals`, the
  invariant of the handlers that refuse, keeps what the refusal rests on, and
  with `DeservedIsOk` gives `OnlyTheUndeservingAreRejected`: at every return, those
  on a node's or the wallet's failure included, "invalid" has a reason in the
  request, or in a chain that moved after it was read.
* **The refinement.** `SignerRefinement_proofs` proves `Implements`: `HSpec =>
  KeepsThePromise`. Its invariant `HInv` adds to `Evidence` that the history
  knows the present (`Remembered`) and that each handler's reads are in it
  (`ReadsWereTrue`); `WalletIssues` turns `RawSignature` into `Issue` with
  `OkIsDeserved` and `SameSignature`. `HistoryIsHarmless` carries the theorems
  about `SignerApp` over to `HSpec`. `WhatIsSignedWasBuried` ties each record of a
  signature to the history. What the promise is worth is proved of
  `CommitteeSigner` alone, so that it does not rest on anything `SignerApp` does:
  `ThePromiseHoldsForEach`, every signature was due for a stake that had been
  buried, and `ThePromiseLeavesOneUnbonding`, a stake gets one unbonding
  transaction unless it was buried under two versions of the parameters. The
  second needs no invariant but the first, since what is due is constructed. With
  `Implements` it is `OneUnbondingUnlessMovedAlways`, the same of the server.
* **The service.** `StatusTellsTheOutcome` needs to know what a handler is about
  to answer, not only what was read: `OneOutcome` is the same of `response`.
  `CountersBalance` and `SuccessIsCountedFirst` are proved together (`Counted`),
  with the cardinality of the handlers at a step changing by one or not at all.
* **The whole.** `UsesSignerApp` and `UsesTheService` are the two halves of the
  composition: each of its steps is a step of either part or a stutter. The
  theorems about the parts then hold of the whole (`WholeSignsOnlyTheDeserved`), and
  so does the promise: `WholeKeepsThePromise` puts `UsesSignerApp` and `Implements`
  together. `WholeServesAsPromised` carries the theorems about the service over by
  instantiating its proof module with the handlers as exchanges. `Recorded` is the history of the chain written down beside the whole,
  which constrains nothing but the two history variables. `EachReadsADeserved` is
  the statement from end to end.
  `ReadsItsOwnSignature` follows from `Traced`: a handler that is in `SignerApp`
  works on the request its client sent, and a payload that waits to be written is
  a signature on record for it. `SigningsAreCounted` is the inductive `Tally`,
  with `Returned`, that the two parts agree on which handlers are being served.
  What both parts know together gives the rest: `EachReadsAUsable`, the signature
  read is over what was sent, by whom it was sent to; `CountsStayOrdered`, read at
  most as often as counted, counted at most as often as made; and
  `NoTwoUnbondingsUnlessMoved`, from `OneUnbonding` and `WhatIsSignedWasBuried`,
  says of what clients hold what `ThePromiseLeavesOneUnbonding` says of what is
  signed.
* **The signers.** `EachWaitsOnce`, that a caller is queued once and exactly
  while it waits, is a lemma. `NobodyIsOvertaken` bounds a wait
  in posts, without fairness: `TriesAreBounded` bounds the posts of one request, and
  `PlaceOfWaiting` makes the place in the queue a number, which `EachWaitsOnce` is
  needed for. `NoKeyLeftBehind` needs `Granted`:
  a caller answered "done" is one the wallet performed for. `Implements` maps each
  step of `WalletSigner`, a repeated post included, to `Sign`, `Answer`, a change
  of the wallet, or a stutter. `SignersMeetTheGuard` is the other end of the
  interface: what the wallet signs for either signer it signs unlocked, with the
  key, for a simple transfer, which is the guard `WalletSigns` of `SignerApp`, and
  a signature is returned only if it was made during the call.
* **Coin selection.** The loop of the input source is a recursion over data that
  the provers cannot do induction on; as steps of the caller it is an ordinary
  induction. The invariant is `SourceOK`: what was taken and what is left are the
  outputs offered, what is taken is worth no less than what is left, the total is
  the sum, the target is no more than any choice of as many outputs as were taken
  would have to reach, and no choice of fewer pays (`NoneSmaller`). Its last part
  is what `FewestInputs` needs, and it is inductive by `StillNotEnough`: while the
  total is below the target, a choice of as many outputs is worth no more than the
  largest ones (`LargestAreWorthMost`, an exchange argument) and must pay at least
  the fee in the target. The same lemma gives `PovertyIsTrue`, where every output
  has been taken. `AuthoredWell` turns the source into the transaction. The sums
  are folds of the community modules in an unspecified order; `SumExists`,
  `SumsAgree`, `SumUnfolds` and `SumAdds` derive from their definition that any
  element may be added last, by `SubsetInduction`, which is induction over finite
  sets stated for a set of sets instead of a predicate.
* **Startup.** `LateAreDone`: a dump that found the file there has nothing left to
  write. `Traceable`: every setting in the file was chosen by somebody or a broken
  dump left it, with digits missing, and every setting of a process comes from that
  file (`Chosen`), or all that are not the default come from the neighbour
  (`Sourced`); `CutKeepsValues` is the fact about files that were cut.

**Only model-checked**: the liveness properties, `EveryClientIsAnswered`,
`ShutdownEnds`, `EveryCallReturns`, `GoodRequestsAreSigned`, `GoodClientsAreServed`,
`OnlyAHungNodeBlocks` and `BothOrNeither`: fairness and ENABLED are out of the
prover's reach.

## 5. Not modelled

* bitcoind, the RPC library, viper and the Go HTTP stack themselves: what the code
  relies on is modelled from its use and marked external.
* bytes: hex, JSON, wire encodings, script parsing; a body that does not decode
  is one kind of body. `PsbtSigner` takes the first signature of the packet
  without asking whose it is (btc_psbt_signer.go:81); the wallet that is modelled
  adds only its own, and that the first is the wallet's is not verified.
* three error returns that are not wrapped, of `BuildUnbondingInfo`,
  `BuildStakingInfo` and `UnbondingPathSpendInfo` (signer.go:215-217, 240-242,
  246-248): each is asked for a script of keys and a quorum of which
  `ParseV0StakingTx` has made one before, and so does not fail; it would be an
  internal error and sign nothing.
* what the code does not prevent and no property forbids: dump-cfg empties a file
  that appears between its look and its write (`LateDumpsTouchNothing` speaks of
  files that were there before), a port or a height of the default that lost digits
  is used, and an IPv6 metrics host ends the process instead of being refused.
* logging and tracing, which no part reads; the scrape endpoint, which only reads.
* settings nothing depends on but a library: hosts, users, passwords, timeouts
  (their effect, a request that is cut off, is in `SigningService`).
* the test harness (`itest/`, `mocks/`): read for what the tests expect.

## 6. Plan

1. *(done)* `UnbondingRules`, `SignerApp`, `SigningService`, and their proofs.
2. *(done)* `CommitteeSigner`, and `SignerApp` shown to implement it.
3. *(done)* `CovenantSigner`, `WalletSigner`, `CoinSelection`, `Startup`.
4. *(done)* Theorems for every safety property of the runs, and the promise of
   `CommitteeSigner` for the whole signer.
5. *(done)* `SignersMeetTheGuard`: what `SignerApp` takes for granted of its wallet
   is what the signers do. There is no refinement mapping between the two, because
   `RawSignature` of `SignerApp` signs and settles the answer in one step and
   `ExternalBtcSigner` in two, so that the mapped signer would have to know the
   answer ahead of it. No other handler can see the difference: the wallet keeps no
   record of what it signed.
