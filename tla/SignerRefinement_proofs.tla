----------------------- MODULE SignerRefinement_proofs -----------------------
(***************************************************************************)
(* SignerApp implements CommitteeSigner, for any number of handlers, any   *)
(* requests, stakes and versions of the parameters, and any chain.         *)
(***************************************************************************)
EXTENDS SignerRefinement, SignerApp_proofs

\* The history variables change nothing.
LEMMA HistoryIsHarmless == HSpec => Spec
<1>1. HInit => Init
  BY DEF HInit
<1>2. [HNext]_<<vars, history>> => [Next]_vars
  BY DEF HNext
<1> QED
  BY <1>1, <1>2, PTL DEF HSpec, Spec

\* The history alone: what is written down whenever the chain moves.
Recorded ==
    /\ included = {} /\ buried = {}
    /\ [][IF UNCHANGED chain THEN UNCHANGED history
                             ELSE Committee!Remember]_<<vars, history>>

\* It may be kept beside any behaviour of SignerApp.
LEMMA HistoryIsKeptBeside == Spec /\ Recorded => HSpec
<1>1. Init /\ included = {} /\ buried = {} => HInit
  BY DEF HInit
<1>2. ASSUME [Next]_vars,
             [IF UNCHANGED chain THEN UNCHANGED history
                                 ELSE Committee!Remember]_<<vars, history>>
      PROVE  [HNext]_<<vars, history>>
  <2>1. CASE UNCHANGED <<vars, history>>
    BY <2>1
  <2>2. CASE IF UNCHANGED chain THEN UNCHANGED history ELSE Committee!Remember
    <3>1. CASE UNCHANGED vars
      BY <2>2, <3>1 DEF vars, chain
    <3>2. CASE Next
      BY <2>2, <3>2 DEF HNext
    <3> QED
      BY <1>2, <3>1, <3>2
  <2> QED
    BY <1>2, <2>1, <2>2
<1> QED
  BY <1>1, <1>2, PTL DEF Spec, Recorded, HSpec

\* The two specifications mean the same by their rules.
LEMMA SameRules ==
    /\ Committee!TxHash = TxHash
    /\ \A r : Committee!StakingHash(r) = StakingHash(r)
    /\ \A h, d : Committee!DeepEnough(h, d) = DeepEnough(h, d)
    /\ \A r, h : Committee!Deserves(r, h) = Deserves(r, h)
<1>1. \A v, h : Committee!InForce(v, h) = InForce(v, h)
  BY DEF InForce, Committee!InForce
<1>2. \A r, t, v : Committee!DeservesUnder(r, t, v) = DeservesUnder(r, t, v)
  BY DEF DeservesUnder, Committee!DeservesUnder, Locked, Committee!Locked,
         TheUnbondingTx, Committee!TheUnbondingTx, Signature, Committee!Signature
<1>3. \A r, h : Committee!Deserves(r, h) = Deserves(r, h)
  BY <1>1, <1>2 DEF Deserves, Committee!Deserves
<1>4. \A h, d : Committee!DeepEnough(h, d) = DeepEnough(h, d)
  BY <1>1 DEF DeepEnough, Committee!DeepEnough
<1>5. /\ Committee!TxHash = TxHash
      /\ \A r : Committee!StakingHash(r) = StakingHash(r)
  BY DEF TxHash, Committee!TxHash, StakingHash, Committee!StakingHash
<1> QED
  BY <1>3, <1>4, <1>5

\* What the history knows of the present.
Remembered ==
    /\ \A t \in TxHash : incl[t] # 0 => <<t, incl[t]>> \in included
    /\ \A t \in TxHash : index[t] # 0 => <<t, index[t]>> \in included
    /\ \A x \in included : DeepEnough(x[2], tip - x[2] + 1) => x \in buried

HInv == Remembered /\ ReadsWereTrue

-----------------------------------------------------------------------------

\* When the chain moves nothing is forgotten and the present is remembered.
LEMMA ChainMoves ==
    ASSUME TypeOK, HInv, HNext, ~UNCHANGED chain
    PROVE  HInv'
<1>1. Committee!Remember
  BY DEF HNext
<1>2. /\ included' = included \cup
            {<<t, incl'[t]>> : t \in {u \in TxHash : incl'[u] # 0}}
      /\ buried' = buried \cup
            {x \in included' : DeepEnough(x[2], tip' - x[2] + 1)}
  BY <1>1, SameRules DEF Committee!Remember
<1>3. Disconnect \/ \E S \in SUBSET TxHash : Connect(S)
  BY DEF HNext, Next, Environment, Handle, Asks, NodeStops, NodeStarts, WalletLocks,
         WalletUnlocks, Crash, Restart, SignUnbondingTransaction, TxByHash,
         BestBlockHeight, RawSignature, Return, chain, reads
<1>4. pc' = pc /\ req' = req /\ height' = height
  BY <1>3 DEF Connect, Disconnect, reads
<1>6. ASSUME NEW t \in TxHash, index'[t] # 0
      PROVE  <<t, index'[t]>> \in included'
  BY <1>2, <1>3, <1>6 DEF Connect, Disconnect, HInv, Remembered, TypeOK
<1>7. Remembered'
  BY <1>2, <1>6 DEF Remembered, DeepEnough, InForce
<1>5. ReadsWereTrue'
  BY <1>2, <1>4 DEF HInv, ReadsWereTrue, StakingHash
<1> QED
  BY <1>7, <1>5 DEF HInv

\* While the chain stands still a handler moves from one true reading to the
\* next.
LEMMA ChainStands ==
    ASSUME TypeOK, HInv, HNext, UNCHANGED chain
    PROVE  HInv'
<1>1. tip' = tip /\ incl' = incl /\ index' = index /\ included' = included /\ buried' = buried
  BY DEF HNext, chain, history
<1>2. Remembered'
  BY <1>1 DEF HInv, Remembered, DeepEnough, InForce
<1> SUFFICES ReadsWereTrue'
  BY <1>2 DEF HInv
<1> USE DEF chain, nodes, reads, ReturnWith, Steps, TypeOK
<1>3. CASE \E S \in SUBSET TxHash : Connect(S)
  BY <1>1, <1>3 DEF Connect
<1>4. CASE Disconnect
  BY <1>1, <1>4 DEF Disconnect
<1>5. CASE NodeStops \/ NodeStarts \/ WalletLocks \/ WalletUnlocks
  BY <1>1, <1>5 DEF NodeStops, NodeStarts, WalletLocks, WalletUnlocks, HInv,
                    ReadsWereTrue, StakingHash
<1>6. ASSUME NEW p \in Procs, NEW r \in Requests, SignUnbondingTransaction(p, r)
      PROVE  ReadsWereTrue'
  BY <1>1, <1>6 DEF SignUnbondingTransaction, HInv, ReadsWereTrue, StakingHash
<1>7. ASSUME NEW p \in Procs, TxByHash(p)
      PROVE  ReadsWereTrue'
  <2>1. StakingHash(req[p]) \in TxHash
    BY <1>7, StakingHashType DEF TxByHash
  <2>2. ASSUME pc'[p] = "bestBlock"
        PROVE  <<StakingHash(req[p]), height'[p]>> \in included
    BY <1>7, <2>1, <2>2 DEF TxByHash, TxIsInChain, Found, InclusionHeights,
                            HInv, Remembered
  <2> QED
    BY <1>1, <1>7, <2>2 DEF TxByHash, Found, HInv, ReadsWereTrue, StakingHash
<1>8. ASSUME NEW p \in Procs, BestBlockHeight(p)
      PROVE  ReadsWereTrue'
  <2> DEFINE x == <<StakingHash(req[p]), height[p]>>
  <2>1. ASSUME pc'[p] = "rawSignature"
        PROVE  x \in buried
    <3>1. x \in included
      BY <1>8 DEF BestBlockHeight, HInv, ReadsWereTrue
    <3>2. DeepEnough(height[p], tip - height[p] + 1)
      BY <1>8, <2>1, OkIsDeepEnough DEF BestBlockHeight
    <3> QED
      BY <3>1, <3>2 DEF HInv, Remembered
  <2> QED
    BY <1>1, <1>8, <2>1 DEF BestBlockHeight, HInv, ReadsWereTrue, StakingHash
<1>9. ASSUME NEW p \in Procs, RawSignature(p)
      PROVE  ReadsWereTrue'
  BY <1>1, <1>9 DEF RawSignature, HInv, ReadsWereTrue, StakingHash
<1>11. ASSUME NEW p \in Procs, Return(p)
       PROVE  ReadsWereTrue'
  BY <1>1, <1>11 DEF Return, Forget, HInv, ReadsWereTrue, StakingHash
<1>10. CASE Crash \/ Restart
  BY <1>1, <1>10 DEF Crash, Restart, Forget, HInv, ReadsWereTrue, StakingHash
<1> QED
  BY <1>3, <1>4, <1>5, <1>6, <1>7, <1>8, <1>9, <1>10, <1>11
  DEF HNext, Next, Environment, Handle, Asks

LEMMA HistoryIsKept == HSpec => []HInv
<1>1. HInit => HInv
  BY DEF HInit, Init, HInv, Remembered, ReadsWereTrue
<1>2. TypeOK /\ HInv /\ [HNext]_<<vars, history>> => HInv'
  <2>1. CASE HNext
    BY <2>1, ChainMoves, ChainStands
  <2>2. CASE UNCHANGED <<vars, history>>
    BY <2>2 DEF vars, chain, reads, history, HInv, Remembered, ReadsWereTrue,
                DeepEnough, InForce, StakingHash
  <2> QED
    BY <2>1, <2>2
<1> QED
  BY <1>1, <1>2, HistoryIsHarmless, TypeCorrect, PTL DEF HSpec

\* What a handler read was so when it read it, whatever has become of it.
THEOREM TheReadsWereTrue == HSpec => []ReadsWereTrue
<1>1. HInv => ReadsWereTrue
  BY DEF HInv
<1> QED
  BY <1>1, HistoryIsKept, PTL

\* Each signature on record was made for a stake that has been buried at the
\* height it was judged at.
SignedWereBuried == \A s \in signed : <<StakingHash(s.req), s.height>> \in buried

\* A signature and the past it rests on stay together: no reorganisation, restart
\* or later signature takes the burial of its stake back.
THEOREM WhatIsSignedWasBuried == HSpec => []SignedWereBuried
<1>1. HInit => SignedWereBuried
  BY DEF HInit, Init, SignedWereBuried
<1>2. HInv /\ SignedWereBuried /\ [HNext]_<<vars, history>> => SignedWereBuried'
  <2> SUFFICES ASSUME HInv, SignedWereBuried, HNext \/ UNCHANGED <<vars, history>>
               PROVE  SignedWereBuried'
    OBVIOUS
  <2>1. \A x \in buried : x \in buried'
    BY DEF HNext, Committee!Remember, history
  <2>2. CASE signed' = signed
    BY <2>1, <2>2 DEF SignedWereBuried, StakingHash
  <2>3. ASSUME NEW p \in Procs, RawSignature(p), NEW s \in signed', s \notin signed
        PROVE  <<StakingHash(s.req), s.height>> \in buried'
    <3>1. s.req = req[p] /\ s.height = height[p] /\ pc[p] = "rawSignature"
      BY <2>3 DEF RawSignature
    <3> QED
      BY <2>1, <3>1 DEF HInv, ReadsWereTrue
  <2>4. signed' = signed \/ \E p \in Procs : RawSignature(p)
    BY DEF HNext, Next, Environment, Handle, Asks, Connect, Disconnect, NodeStops, NodeStarts,
           WalletLocks, WalletUnlocks, Crash, Restart, SignUnbondingTransaction,
           TxByHash, BestBlockHeight, Return, vars
  <2> QED
    BY <2>1, <2>2, <2>3, <2>4 DEF SignedWereBuried, StakingHash
<1> QED
  BY <1>1, <1>2, HistoryIsKept, PTL DEF HSpec

-----------------------------------------------------------------------------
(* The refinement.                                                         *)

\* The signature of the wallet is the staker's with another signer.
LEMMA SameSignature ==
    ASSUME NEW r \in Requests, WellFormed(r),
           NEW h \in Nat, NEW b \in Nat, Verdict(r, h, b) = "ok"
    PROVE  CovenantSignature(r, h) = [r.sig EXCEPT !.signer = r.key]
<1>1. StakerSigned(r, ParamsByHeight(h))
  BY DEF Verdict, UnbondingIsAuthorised
<1> QED
  BY <1>1, PsbtKeepsTx DEF StakerSigned, CovenantSignature, Signature

\* The wallet's answer is a signature the promise allows.
LEMMA WalletIssues ==
    ASSUME TypeOK, Evidence, HInv, HNext, NEW p \in Procs, RawSignature(p)
    PROVE  [Committee!Next]_<<Committee!ledger, {s.sig : s \in signed}>>
<1> DEFINE r == req[p]
           h == height[p]
           record == [req |-> r, sig |-> CovenantSignature(r, h), height |-> h,
                      best |-> best[p], depth |-> depth[p],
                      disturbed |-> disturbed[p]]
<1>1. UNCHANGED <<tip, incl, included, buried>>
  BY DEF RawSignature, HNext, chain, history
<1>2. CASE signed' = signed
  BY <1>1, <1>2 DEF Committee!ledger
<1>3. CASE signed' = signed \cup {record}
  <2>1. /\ r \in Requests /\ WellFormed(r) /\ h \in Nat /\ best[p] \in Nat
        /\ Verdict(r, h, best[p]) = "ok"
    BY DEF RawSignature, TypeOK, Evidence, Judged
  <2>2. Deserves(r, h) /\ CovenantSignature(r, h) = [r.sig EXCEPT !.signer = r.key]
    BY <2>1, OkIsDeserved, SameSignature
  <2>3. <<StakingHash(r), h>> \in buried
    BY DEF RawSignature, HInv, ReadsWereTrue
  <2>4. {s.sig : s \in signed'} = {s.sig : s \in signed} \cup {record.sig}
    BY <1>3
  <2>5. Committee!Issue(r)
    BY <1>1, <2>2, <2>3, <2>4, SameRules DEF Committee!Issue, Committee!ledger
  <2>6. Committee!Next
    BY <2>1, <2>5 DEF Committee!Next, Committee!Issue
  <2> QED
    BY <2>6
<1> QED
  BY <1>2, <1>3 DEF RawSignature

\* Every step of handlers, chain and nodes is a move of the ledger, one signature
\* that is due, or a stutter: SignerApp implements CommitteeSigner.
THEOREM Implements == HSpec => KeepsThePromise
<1>1. HInit => Committee!Init
  BY SameRules DEF HInit, Init, Committee!Init
<1>2. ASSUME TypeOK, TypeOK', Evidence, HInv, [HNext]_<<vars, history>>
      PROVE  [Committee!Next]_<<Committee!ledger, {s.sig : s \in signed}>>
  <2>1. CASE UNCHANGED <<vars, history>>
    BY <2>1 DEF vars, chain, history, Committee!ledger
  <2>2. CASE HNext /\ signed' = signed
    <3>1. CASE UNCHANGED chain
      BY <2>2, <3>1 DEF HNext, chain, history, Committee!ledger
    <3>2. CASE ~UNCHANGED chain
      <4>1. Committee!LedgerMoves
        BY <1>2, <2>2, <3>2, SameRules DEF HNext, Committee!LedgerMoves, TypeOK
      <4> QED
        BY <4>1 DEF Committee!Next
    <3> QED
      BY <3>1, <3>2
  <2>3. CASE HNext /\ signed' # signed
    <3>1. PICK p \in Procs : RawSignature(p)
      BY <2>3 DEF HNext, Next, Environment, Handle, Asks, Connect, Disconnect,
                  NodeStops, NodeStarts, WalletLocks, WalletUnlocks,
                  Crash, Restart, SignUnbondingTransaction, TxByHash, BestBlockHeight, Return
    <3> QED
      BY <1>2, <2>3, <3>1, WalletIssues
  <2> QED
    BY <1>2, <2>1, <2>2, <2>3
<1> QED
  BY <1>1, <1>2, HistoryIsHarmless, HistoryIsKept, TypeCorrect,
     EvidenceAlwaysHolds, PTL
  DEF HSpec, KeepsThePromise, Committee!Spec

-----------------------------------------------------------------------------
(* What the promise is worth, whoever keeps it.                            *)

\* Every signature answers a request that was due one for a stake that was buried.
IssuedForTheBuried ==
    \A g \in signatures :
        \E r \in Requests, x \in buried :
            /\ StakingHash(r) = x[1] /\ Deserves(r, x[2])
            /\ g = [r.sig EXCEPT !.signer = r.key]

\* CommitteeSigner alone, with nothing said of handlers, reads or nodes, makes
\* every signature one that was due: it is what a staker may count on.
THEOREM ThePromiseHoldsForEach == KeepsThePromise => []IssuedForTheBuried
<1>1. Committee!Init => IssuedForTheBuried
  BY DEF Committee!Init, IssuedForTheBuried, signatures
<1>2. IssuedForTheBuried /\ [Committee!Next]_<<Committee!ledger, {s.sig : s \in signed}>>
      => IssuedForTheBuried'
  <2> SUFFICES ASSUME IssuedForTheBuried,
                      \/ Committee!LedgerMoves
                      \/ \E r \in Requests : Committee!Issue(r)
                      \/ UNCHANGED <<buried, signatures>>
               PROVE  IssuedForTheBuried'
    BY DEF Committee!Next, Committee!ledger, signatures
  <2>1. \A r : StakingHash(r)' = StakingHash(r) /\ \A h : Deserves(r, h)' = Deserves(r, h)
    BY DEF StakingHash, Deserves, InForce, DeservesUnder, Locked, TheUnbondingTx, Signature
  <2>2. CASE Committee!LedgerMoves
    BY <2>2 DEF Committee!LedgerMoves, Committee!Remember, IssuedForTheBuried, signatures
  <2>3. ASSUME NEW r \in Requests, Committee!Issue(r)
        PROVE  IssuedForTheBuried'
    <3>1. /\ signatures' = signatures \cup {[r.sig EXCEPT !.signer = r.key]}
          /\ buried' = buried
          /\ \E x \in buried : StakingHash(r) = x[1] /\ Deserves(r, x[2])
      BY <2>3, SameRules DEF Committee!Issue, Committee!ledger, signatures
    <3> QED
      BY <3>1 DEF IssuedForTheBuried
  <2>4. CASE UNCHANGED <<buried, signatures>>
    BY <2>4 DEF IssuedForTheBuried
  <2> QED
    BY <2>2, <2>3, <2>4
<1> QED
  BY <1>1, <1>2, PTL DEF KeepsThePromise, Committee!Spec

\* The promise leaves a stake one unbonding transaction, unless the stake has been
\* buried under two versions of the parameters.
THEOREM ThePromiseLeavesOneUnbonding == KeepsThePromise => []OneUnbondingUnlessMoved
<1>1. ASSUME IssuedForTheBuried, NEW g \in signatures
      PROVE  \E x \in buried, v \in DOMAIN Versions :
                /\ InForce(v, x[2]) /\ g.tx.ins[1].hash = x[1]
                /\ \E i : Locked(x[1], v) = {i} /\ g.tx = TheUnbondingTx(x[1], i, v)
  <2>1. PICK r \in Requests, x \in buried :
           /\ StakingHash(r) = x[1] /\ Deserves(r, x[2])
           /\ g = [r.sig EXCEPT !.signer = r.key]
    BY <1>1 DEF IssuedForTheBuried
  <2>2. PICK v \in DOMAIN Versions : InForce(v, x[2]) /\ DeservesUnder(r, x[1], v)
    BY <2>1 DEF Deserves, StakingHash
  <2>3. PICK i : /\ Locked(x[1], v) = {i} /\ r.tx = TheUnbondingTx(x[1], i, v)
                 /\ \E key, output, leaf : r.sig = Signature(key, r.tx, output, leaf)
    BY <2>2 DEF DeservesUnder
  <2>4. g.tx = r.tx
    BY <2>1, <2>3 DEF Signature
  <2>5. r.tx.ins[1].hash = x[1]
    BY <2>1 DEF StakingHash
  <2> QED
    BY <2>2, <2>3, <2>4, <2>5
<1>2. IssuedForTheBuried => OneUnbondingUnlessMoved
  <2> SUFFICES ASSUME IssuedForTheBuried, NEW g \in signatures, NEW k \in signatures,
                      g.tx.ins[1].hash = k.tx.ins[1].hash, g.tx # k.tx
               PROVE  \E x, y \in buried, v, w \in DOMAIN Versions :
                         /\ x[1] = g.tx.ins[1].hash /\ y[1] = g.tx.ins[1].hash
                         /\ InForce(v, x[2]) /\ InForce(w, y[2]) /\ v # w
    BY DEF OneUnbondingUnlessMoved
  <2>1. PICK x \in buried, v \in DOMAIN Versions :
           /\ InForce(v, x[2]) /\ g.tx.ins[1].hash = x[1]
           /\ \E i : Locked(x[1], v) = {i} /\ g.tx = TheUnbondingTx(x[1], i, v)
    BY <1>1
  <2>2. PICK y \in buried, w \in DOMAIN Versions :
           /\ InForce(w, y[2]) /\ k.tx.ins[1].hash = y[1]
           /\ \E i : Locked(y[1], w) = {i} /\ k.tx = TheUnbondingTx(y[1], i, w)
    BY <1>1
  <2>3. v # w
    <3>1. \A i, j : {i} = {j} => i = j
      OBVIOUS
    <3> QED
      BY <2>1, <2>2, <3>1
  <2> QED
    BY <2>1, <2>2, <2>3
<1> QED
  BY <1>2, ThePromiseHoldsForEach, PTL

\* So does the server: two different unbonding transactions of one stake are both
\* signed only after the stake was buried at two heights with different versions
\* in force, whoever asked and in whatever order, restarts included.
THEOREM OneUnbondingUnlessMovedAlways == HSpec => []OneUnbondingUnlessMoved
BY Implements, ThePromiseLeavesOneUnbonding, PTL

=============================================================================
