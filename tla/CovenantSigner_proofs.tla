------------------------ MODULE CovenantSigner_proofs ------------------------
(***************************************************************************)
(* Theorems about CovenantSigner, for any number of clients, any requests  *)
(* and versions of the parameters, and any chain.                          *)
(***************************************************************************)
EXTENDS CovenantSigner, SignerRefinement_proofs, FiniteSetTheorems

\* A call of SignerApp that has returned tells what it came to, and a signature
\* it returns is one the wallet made for this call.
Returned ==
    \A p \in Procs : pc[p] = "returned" =>
        /\ outcome[p] \in {"signature", "invalid", "internal"}
        /\ outcome[p] = "signature" =>
              \E s \in signed : /\ s.req = req[p]
                                /\ s.sig = CovenantSignature(req[p], height[p])

LEMMA ReturnedAlways == Spec => []Returned
<1>1. Init => Returned
  BY DEF Init, Returned
<1>2. TypeOK /\ Returned /\ [Next]_vars => Returned'
  <2> SUFFICES ASSUME TypeOK, Returned, Next \/ UNCHANGED vars
               PROVE  Returned'
    OBVIOUS
  <2>0. /\ pc \in [Procs -> Steps] /\ outcome \in [Procs -> Outcomes]
        /\ req \in [Procs -> Requests] /\ height \in [Procs -> Nat]
    BY DEF TypeOK
  <2> USE <2>0 DEF Steps, reads, ReturnWith
  <2>1. ASSUME UNCHANGED <<pc, outcome, req, height, signed>>
        PROVE  Returned'
    BY <2>1 DEF Returned
  <2>2. CASE \/ \E S \in SUBSET TxHash : Connect(S)
             \/ Disconnect \/ NodeStops \/ NodeStarts
             \/ WalletLocks \/ WalletUnlocks \/ Restart \/ UNCHANGED vars
    BY <2>1, <2>2 DEF Connect, Disconnect, NodeStops, NodeStarts, WalletLocks,
         WalletUnlocks, Restart, vars
  <2>3. CASE Crash
    BY <2>3 DEF Crash, Forget, Returned
  <2>4. ASSUME NEW p \in Procs, NEW r \in Requests, SignUnbondingTransaction(p, r)
        PROVE  Returned'
    BY <2>4 DEF SignUnbondingTransaction, Returned
  <2>5. ASSUME NEW p \in Procs, TxByHash(p)
        PROVE  Returned'
    <3>1. /\ pc[p] = "txByHash" /\ UNCHANGED <<req, signed>>
          /\ \A q \in Procs : q # p => pc'[q] = pc[q] /\ outcome'[q] = outcome[q]
                                       /\ height'[q] = height[q]
          /\ pc'[p] = "returned" => outcome'[p] \in {"internal", "invalid"}
      BY <2>5 DEF TxByHash, Found
    <3> QED
      BY <3>1 DEF Returned
  <2>6. ASSUME NEW p \in Procs, BestBlockHeight(p)
        PROVE  Returned'
    <3>1. /\ pc[p] = "bestBlock" /\ UNCHANGED <<req, height, signed>>
          /\ \A q \in Procs : q # p => pc'[q] = pc[q] /\ outcome'[q] = outcome[q]
          /\ pc'[p] = "returned" => outcome'[p] \in {"internal", "invalid"}
      BY <2>6, VerdictType DEF BestBlockHeight
    <3> QED
      BY <3>1 DEF Returned
  <2>7. ASSUME NEW p \in Procs, RawSignature(p)
        PROVE  Returned'
    <3>1. /\ pc[p] = "rawSignature" /\ UNCHANGED <<req, height>>
          /\ \A q \in Procs : q # p => pc'[q] = pc[q] /\ outcome'[q] = outcome[q]
          /\ \A s \in signed : s \in signed'
      BY <2>7 DEF RawSignature
    <3>2. \/ outcome'[p] = "internal"
          \/ /\ outcome'[p] = "signature"
             /\ \E s \in signed' : /\ s.req = req[p]
                                   /\ s.sig = CovenantSignature(req[p], height[p])
      <4> DEFINE s == [req |-> req[p], sig |-> CovenantSignature(req[p], height[p]),
                       height |-> height[p], best |-> best[p],
                       depth |-> depth[p], disturbed |-> disturbed[p]]
      <4>1. s.req = req[p] /\ s.sig = CovenantSignature(req[p], height[p])
        OBVIOUS
      <4>2. \/ outcome' = [outcome EXCEPT ![p] = "internal"]
            \/ outcome' = [outcome EXCEPT ![p] = "signature"] /\ s \in signed'
        BY <2>7, Zenon DEF RawSignature
      <4> HIDE DEF s
      <4> QED
        BY <4>1, <4>2
    <3> QED
      BY <3>1, <3>2 DEF Returned
  <2>8. ASSUME NEW p \in Procs, Return(p)
        PROVE  Returned'
    BY <2>8 DEF Return, Forget, Returned
  <2> QED
    BY <2>2, <2>3, <2>4, <2>5, <2>6, <2>7, <2>8 DEF Next, Environment, Handle, Asks
<1> QED
  BY <1>1, <1>2, TypeCorrect, PTL DEF Spec

LEMMA AsksType == SSpec => [](asks \in [Procs -> Requests])
<1>1. SInit => asks \in [Procs -> Requests]
  BY NoRequestType DEF SInit
<1>2. asks \in [Procs -> Requests] /\ [SNext]_all => (asks \in [Procs -> Requests])'
  <2> SUFFICES ASSUME asks \in [Procs -> Requests], SNext \/ UNCHANGED all
               PROVE  asks' \in [Procs -> Requests]
    OBVIOUS
  <2>1. CASE StartProcess \/ KillProcess \/ World \/ UNCHANGED all
    BY <2>1 DEF StartProcess, KillProcess, World, all, bodies
  <2>2. ASSUME NEW p \in Procs, NEW b, NEW r \in Requests, SendRequest(p, b, r)
        PROVE  asks' \in [Procs -> Requests]
    BY <2>2, NoRequestType DEF SendRequest
  <2>3. ASSUME NEW p \in Procs,
               GiveUp(p) \/ SeeDisconnect(p) \/ Leave(p) \/ HandlerOf(p)
        PROVE  asks' \in [Procs -> Requests]
    BY <2>3 DEF GiveUp, SeeDisconnect, Leave, HandlerOf, Refuse, Enter, Work, AskWallet,
         Leaves, Respond, bodies
  <2> QED
    BY <2>1, <2>2, <2>3 DEF SNext
<1> QED
  BY <1>1, <1>2, PTL DEF SSpec

\* In the whole signer SignerApp is used as its own specification says: a handler
\* calls it once per request and takes every result, a crash ends all calls at
\* once, and nothing else touches its state.
THEOREM UsesSignerApp == SSpec => Spec
<1>1. SInit => Init
  BY DEF SInit
<1>2. asks \in [Procs -> Requests] /\ [SNext]_all => [Next]_vars
  <2> SUFFICES ASSUME asks \in [Procs -> Requests], SNext \/ UNCHANGED all
               PROVE  Next \/ UNCHANGED vars
    OBVIOUS
  <2>1. CASE StartProcess \/ KillProcess \/ World
    BY <2>1 DEF StartProcess, KillProcess, World, Next, Environment
  <2>2. ASSUME NEW p \in Procs, NEW b, NEW r \in Requests, SendRequest(p, b, r)
        PROVE  UNCHANGED vars
    BY <2>2 DEF SendRequest
  <2>3. ASSUME NEW p \in Procs,
               GiveUp(p) \/ SeeDisconnect(p) \/ Leave(p) \/ Refuse(p) \/ Respond(p)
        PROVE  UNCHANGED vars
    BY <2>3 DEF GiveUp, SeeDisconnect, Leave, Refuse, Respond
  <2>4. ASSUME NEW p \in Procs, Enter(p)
        PROVE  Next
    <3>1. asks[p] \in Requests /\ SignUnbondingTransaction(p, asks[p])
      BY <2>4 DEF Enter
    <3> QED
      BY <3>1 DEF Next
  <2>5. ASSUME NEW p \in Procs, Work(p) \/ AskWallet(p) \/ Leaves(p)
        PROVE  Next
    BY <2>5 DEF Work, AskWallet, Leaves, Next, Handle, Asks
  <2>6. CASE UNCHANGED all
    BY <2>6 DEF all
  <2> QED
    BY <2>1, <2>2, <2>3, <2>4, <2>5, <2>6 DEF SNext, HandlerOf
<1> QED
  BY <1>1, <1>2, AsksType, PTL DEF SSpec, Spec

\* Around it the service is used as its specification says, with answers that
\* SignerApp really gives.
THEOREM UsesTheService == SSpec => Service!Spec
<1>1. SInit => Service!Init
  BY DEF SInit
<1>2. Returned /\ [SNext]_all => [Service!Next]_(Service!vars)
  <2> SUFFICES ASSUME Returned, SNext \/ UNCHANGED all
               PROVE  Service!Next \/ UNCHANGED service
    BY DEF service, Service!vars, Service!server, Service!counters, Service!clients
  <2>1. CASE StartProcess \/ KillProcess
    BY <2>1 DEF StartProcess, KillProcess, Service!Next
  <2>2. CASE World
    BY <2>2 DEF World
  <2>3. ASSUME NEW p \in Procs, NEW b \in Service!Bodies, NEW r \in Requests,
               SendRequest(p, b, r)
        PROVE  Service!Next
    BY <2>3 DEF SendRequest, Service!Next
  <2>4. ASSUME NEW p \in Procs, GiveUp(p) \/ SeeDisconnect(p) \/ Leave(p)
        PROVE  Service!Next
    BY <2>4 DEF GiveUp, SeeDisconnect, Leave, Service!Next
  <2>5. ASSUME NEW p \in Procs, Refuse(p) \/ Enter(p) \/ Respond(p)
        PROVE  Service!Next
    BY <2>5 DEF Refuse, Enter, Respond, Service!Next, Service!Serve
  <2>6. ASSUME NEW p \in Procs, Work(p) \/ AskWallet(p)
        PROVE  UNCHANGED service
    BY <2>6 DEF Work, AskWallet
  <2>7. ASSUME NEW p \in Procs, Leaves(p)
        PROVE  Service!Next
    <3>1. outcome[p] \in Service!Outcomes /\ Service!SignUnbonding(p, outcome[p])
      BY <2>7 DEF Leaves, Return, Returned, Service!Outcomes
    <3> QED
      BY <3>1 DEF Service!Next, Service!Serve
  <2>8. CASE UNCHANGED all
    BY <2>8 DEF all
  <2> QED
    BY <2>1, <2>2, <2>3, <2>4, <2>5, <2>6, <2>7, <2>8 DEF SNext, HandlerOf
<1> QED
  BY <1>1, <1>2, UsesSignerApp, ReturnedAlways, PTL DEF SSpec, Service!Spec

\* What was proved of SignerApp holds of the whole: whatever clients send and
\* however often, only what is due is signed, as the staker signed it, when it is
\* mature, and once per stake and version; only what is not due is called invalid.
THEOREM WholeSignsOnlyTheDeserved ==
    SSpec => [](/\ SignsOnlyTheDeserved /\ SignsWhatTheStakerSigned
                /\ NeverAheadOfTheTip /\ MatureUnlessReorged
                /\ OneUnbondingPerStake /\ RejectsOnlyTheUndeserving)
BY UsesSignerApp, OnlyTheDeserved, StakerAndCommitteeAgree, NeverAhead, Maturity,
   OneUnbonding, OnlyTheUndeservingAreRejected, PTL

\* Nothing that clients, the server or a restart do makes the whole break the
\* promise of one committee member, the history of the chain kept beside it.
THEOREM WholeKeepsThePromise == SSpec /\ Recorded => KeepsThePromise
BY UsesSignerApp, HistoryIsKeptBeside, Implements, PTL

-----------------------------------------------------------------------------
(* The way of a signature from the wallet to the client.                   *)

\* A call belongs to the handler that waits for it and has the request of its
\* client; a response or a client with a signature has one made for that request.
Traced ==
    /\ \A v \in {client, handler, response, payload, holds} : DOMAIN v = Procs
    /\ \A p \in Procs :
          /\ handler[p] # "none" => phase = "up" /\ client[p] # "signature"
          /\ pc[p] # "idle" => handler[p] = "signing" /\ req[p] = asks[p]
          /\ handler[p] = "answering" /\ response[p].status = 200 =>
                \E s \in signed : s.req = asks[p] /\ s.sig = payload[p]
          /\ client[p] = "signature" =>
                \E s \in signed : s.req = asks[p] /\ s.sig = holds[p]

LEMMA SignedOnlyGrows ==
    ASSUME SNext \/ UNCHANGED all
    PROVE  signed \subseteq signed'
<1>1. CASE World
  BY <1>1 DEF World, Connect, Disconnect, NodeStops, NodeStarts, WalletLocks, WalletUnlocks
<1>2. CASE StartProcess \/ KillProcess
  BY <1>2 DEF StartProcess, KillProcess, Restart, Crash
<1>3. ASSUME NEW p \in Procs, NEW b, NEW r, SendRequest(p, b, r)
      PROVE  signed \subseteq signed'
  BY <1>3 DEF SendRequest, vars
<1>4. ASSUME NEW p \in Procs,
             GiveUp(p) \/ SeeDisconnect(p) \/ Leave(p) \/ Refuse(p) \/ Respond(p)
      PROVE  signed \subseteq signed'
  BY <1>4 DEF GiveUp, SeeDisconnect, Leave, Refuse, Respond, vars
<1>5. ASSUME NEW p \in Procs, Enter(p) \/ Work(p) \/ AskWallet(p) \/ Leaves(p)
      PROVE  signed \subseteq signed'
  BY <1>5 DEF Enter, SignUnbondingTransaction, Work, TxByHash, BestBlockHeight,
       AskWallet, RawSignature, Leaves, Return
<1>6. CASE UNCHANGED all
  BY <1>6 DEF all, vars
<1> QED
  BY <1>1, <1>2, <1>3, <1>4, <1>5, <1>6 DEF SNext, HandlerOf

LEMMA ErrorsAreNot200 ==
    /\ Service!ErrorResponse(Service!NewError(400, "malformed")).status # 200
    /\ Service!ErrorResponse(Service!NewError(400, "reason")).status # 200
    /\ Service!ErrorResponse(Service!NewError(500, "reason")).status # 200
BY DEF Service!ErrorResponse, Service!NewError, Service!KnownStatuses

LEMMA TracedAlways == SSpec => []Traced
<1>1. SInit => Traced
  BY DEF SInit, Init, Service!Init, Traced
<1>2. /\ TypeOK /\ Returned /\ asks \in [Procs -> Requests] /\ Traced /\ [SNext]_all
      => Traced'
  <2> SUFFICES ASSUME TypeOK, Returned, asks \in [Procs -> Requests], Traced,
                      SNext \/ UNCHANGED all
               PROVE  Traced'
    OBVIOUS
  <2>0. signed \subseteq signed' /\ pc \in [Procs -> Steps] /\ req \in [Procs -> Requests]
    BY SignedOnlyGrows DEF TypeOK
  <2> USE <2>0 DEF Steps, Service!server, Service!clients, Service!counters
  <2>1. CASE StartProcess
    BY <2>1 DEF StartProcess, Restart, Service!Start, reads, bodies, Traced
  <2>2. CASE KillProcess
    BY <2>2 DEF KillProcess, Crash, Forget, Service!Crash, Service!NoResponse, Traced
  <2>3. CASE World \/ UNCHANGED all
    <3>1. UNCHANGED <<pc, req, client, handler, response, phase, asks, payload, holds>>
      BY <2>3 DEF World, Connect, Disconnect, NodeStops, NodeStarts, WalletLocks,
           WalletUnlocks, reads, service, bodies, all, vars
    <3> QED
      BY <3>1 DEF Traced
  <2>4. ASSUME NEW p \in Procs, NEW b \in Service!Bodies, NEW r \in Requests,
               SendRequest(p, b, r)
        PROVE  Traced'
    BY <2>4 DEF SendRequest, Service!Send, vars, reads, Traced
  <2>5. ASSUME NEW p \in Procs, GiveUp(p) \/ SeeDisconnect(p) \/ Leave(p)
        PROVE  Traced'
    BY <2>5 DEF GiveUp, SeeDisconnect, Leave, Service!TimeOut, Service!SeeDisconnect,
         Service!TakeResult, vars, reads, bodies, Traced
  <2>6. ASSUME NEW p \in Procs, Refuse(p)
        PROVE  Traced'
    BY <2>6, ErrorsAreNot200 DEF Refuse, Service!RejectTooLong, Service!RejectBody,
         Service!Answer, vars, reads, bodies, Traced
  <2>7. ASSUME NEW p \in Procs, Enter(p)
        PROVE  Traced'
    <3>1. /\ pc[p] = "idle" /\ \A q \in Procs : q # p => pc'[q] = pc[q]
          /\ req' = [req EXCEPT ![p] = asks[p]]
      BY <2>7 DEF Enter, SignUnbondingTransaction, ReturnWith
    <3>2. /\ handler[p] = "accepted" /\ handler' = [handler EXCEPT ![p] = "signing"]
          /\ UNCHANGED <<phase, client, response, asks, payload, holds>>
      BY <2>7 DEF Enter, Service!Decode, bodies
    <3> QED
      BY <3>1, <3>2 DEF Traced
  <2>8. ASSUME NEW p \in Procs, Work(p) \/ AskWallet(p)
        PROVE  Traced'
    <3>1. /\ UNCHANGED <<req, client, handler, response, phase, asks, payload, holds>>
          /\ pc[p] # "idle" /\ \A q \in Procs : q # p => pc'[q] = pc[q]
      BY <2>8 DEF Work, TxByHash, Found, BestBlockHeight, AskWallet, RawSignature,
           ReturnWith, reads, service, bodies
    <3> QED
      BY <3>1 DEF Traced
  <2>9. ASSUME NEW p \in Procs, Leaves(p)
        PROVE  Traced'
    <3>1. /\ pc' = [q \in Procs |-> IF q = p THEN "idle" ELSE pc[q]]
          /\ req' = [q \in Procs |-> IF q = p THEN NoRequest ELSE req[q]]
          /\ pc[p] = "returned" /\ signed' = signed
      BY <2>9 DEF Leaves, Return, Forget
    <3>2. /\ handler[p] = "signing" /\ handler' = [handler EXCEPT ![p] = "answering"]
          /\ \E res : response' = [response EXCEPT ![p] = res]
                      /\ (res.status = 200 => outcome[p] = "signature")
          /\ UNCHANGED <<phase, client, asks, holds>>
      BY <2>9, ErrorsAreNot200 DEF Leaves, Service!SignUnbonding, Service!Answer
    <3>3. outcome[p] = "signature" =>
             \E s \in signed : s.req = asks[p] /\ s.sig = CovenantSignature(req[p], height[p])
      BY <3>1 DEF Returned, Traced
    <3>4. payload' = [payload EXCEPT ![p] = IF outcome[p] = "signature"
                        THEN CovenantSignature(req[p], height[p]) ELSE NoSignature]
      BY <2>9 DEF Leaves
    <3> QED
      BY <3>1, <3>2, <3>3, <3>4 DEF Traced
  <2>10. ASSUME NEW p \in Procs, Respond(p)
         PROVE  Traced'
    <3>1. /\ handler[p] = "answering" /\ handler' = [handler EXCEPT ![p] = "none"]
          /\ \E res : response' = [response EXCEPT ![p] = res]
          /\ UNCHANGED <<pc, req, phase, asks>>
      BY <2>10 DEF Respond, Service!WriteResponse, vars, reads
    <3>2. /\ payload' = [payload EXCEPT ![p] = NoSignature]
          /\ holds' = [holds EXCEPT ![p] =
                IF client'[p] = "signature" THEN payload[p] ELSE holds[p]]
      BY <2>10 DEF Respond, Traced
    <3>3. \/ client' = client
          \/ client' = [client EXCEPT ![p] = IF response[p].status = 200
                          THEN "signature" ELSE "error"]
      BY <2>10 DEF Respond, Service!WriteResponse, Service!ClientResult
    <3> QED
      BY <3>1, <3>2, <3>3 DEF Traced
  <2> QED
    BY <2>1, <2>2, <2>3, <2>4, <2>5, <2>6, <2>7, <2>8, <2>9, <2>10 DEF SNext, HandlerOf
<1> QED
  BY <1>1, <1>2, UsesSignerApp, TypeCorrect, ReturnedAlways, AsksType, PTL DEF SSpec

\* A client never reads a signature made for another, or for an earlier request
\* of its own.
THEOREM EachReadsItsOwn == SSpec => []ReadsItsOwnSignature
<1>1. Traced => ReadsItsOwnSignature
  BY DEF Traced, ReadsItsOwnSignature
<1> QED
  BY <1>1, TracedAlways, PTL

\* What a client reads is the signature of the request it sent last, which
\* deserved one at the height its stake was read at.
ReadsADeservedSignature ==
    \A p \in Procs : client[p] = "signature" =>
        \E s \in signed : /\ s.req = asks[p] /\ s.sig = holds[p]
                          /\ Deserves(asks[p], s.height)

\* From end to end: no client, handler, retry or restart gets a signature out of
\* the committee for a request that is not due one.
THEOREM EachReadsADeserved == SSpec => []ReadsADeservedSignature
<1>1. ReadsItsOwnSignature /\ SignsOnlyTheDeserved => ReadsADeservedSignature
  <2> SUFFICES ASSUME ReadsItsOwnSignature, SignsOnlyTheDeserved,
                      NEW p \in Procs, client[p] = "signature"
               PROVE  \E s \in signed : /\ s.req = asks[p] /\ s.sig = holds[p]
                                        /\ Deserves(asks[p], s.height)
    BY DEF ReadsADeservedSignature
  <2>1. PICK s \in signed : s.req = asks[p] /\ s.sig = holds[p]
    BY DEF ReadsItsOwnSignature
  <2>2. Deserves(s.req, s.height)
    BY DEF SignsOnlyTheDeserved
  <2> QED
    BY <2>1, <2>2
<1> QED
  BY <1>1, EachReadsItsOwn, WholeSignsOnlyTheDeserved, PTL

\* What a client reads is its own transaction signed with the key it named, over
\* the output and the script path its staker signed: put beside the staker's
\* signature it completes the unbonding, no other part of the answer is needed.
ReadsAUsableSignature ==
    \A p \in Procs : client[p] = "signature" =>
        /\ holds[p].tx = asks[p].tx /\ holds[p].signer = asks[p].key
        /\ holds[p].output = asks[p].sig.output /\ holds[p].leaf = asks[p].sig.leaf

\* From end to end: the packet the wallet signs, the answer of the wallet, the
\* response and the client's reading of it keep the transaction the client sent.
THEOREM EachReadsAUsable == SSpec => []ReadsAUsableSignature
<1>1. ASSUME ReadsItsOwnSignature, SignsWhatTheStakerSigned, Evidence, TypeOK,
             NEW p \in Procs, client[p] = "signature"
      PROVE  /\ holds[p].tx = asks[p].tx /\ holds[p].signer = asks[p].key
             /\ holds[p].output = asks[p].sig.output /\ holds[p].leaf = asks[p].sig.leaf
  <2>1. PICK s \in signed : s.req = asks[p] /\ s.sig = holds[p]
    BY <1>1 DEF ReadsItsOwnSignature
  <2>2. /\ s.req \in Requests /\ s.height \in Nat
        /\ WellFormed(s.req) /\ Verdict(s.req, s.height, s.best) = "ok"
    BY <1>1 DEF Evidence, Judged, TypeOK
  <2>3. s.req.sig.tx = s.req.tx
    <3>1. StakerSigned(s.req, ParamsByHeight(s.height))
      BY <2>2 DEF Verdict, UnbondingIsAuthorised
    <3> QED
      BY <3>1 DEF StakerSigned, Signature
  <2> QED
    BY <1>1, <2>1, <2>3 DEF SignsWhatTheStakerSigned
<1>2. ReadsItsOwnSignature /\ SignsWhatTheStakerSigned /\ Evidence /\ TypeOK
      => ReadsAUsableSignature
  BY <1>1 DEF ReadsAUsableSignature
<1> QED
  BY <1>2, EachReadsItsOwn, WholeSignsOnlyTheDeserved, UsesSignerApp, EvidenceAlwaysHolds,
     TypeCorrect, PTL

\* Two clients hold signatures over two transactions that spend one stake only if
\* the stake was buried at two heights with different versions of the parameters.
TwoUnbondingsMeanAMove ==
    \A p, q \in Procs :
        /\ client[p] = "signature" /\ client[q] = "signature"
        /\ StakingHash(asks[p]) = StakingHash(asks[q])
        /\ holds[p].tx # holds[q].tx
        => \E h, k \in Nat :
              /\ <<StakingHash(asks[p]), h>> \in buried
              /\ <<StakingHash(asks[p]), k>> \in buried
              /\ ParamsVersion(h) # ParamsVersion(k)

\* From end to end: as long as a stake stays where it is buried, or moves within
\* one version, all clients together hold one unbonding transaction for it, over
\* any number of restarts and repetitions.
THEOREM NoTwoUnbondingsUnlessMoved == SSpec /\ Recorded => []TwoUnbondingsMeanAMove
<1>1. ASSUME ReadsItsOwnSignature, OneUnbondingPerStake, SignedWereBuried, TypeOK,
             NEW p \in Procs, NEW q \in Procs,
             client[p] = "signature", client[q] = "signature",
             StakingHash(asks[p]) = StakingHash(asks[q]),
             holds[p].tx # holds[q].tx
      PROVE  \E h, k \in Nat :
                /\ <<StakingHash(asks[p]), h>> \in buried
                /\ <<StakingHash(asks[p]), k>> \in buried
                /\ ParamsVersion(h) # ParamsVersion(k)
  <2>1. PICK s \in signed : s.req = asks[p] /\ s.sig = holds[p]
    BY <1>1 DEF ReadsItsOwnSignature
  <2>2. PICK u \in signed : u.req = asks[q] /\ u.sig = holds[q]
    BY <1>1 DEF ReadsItsOwnSignature
  <2>3. s.height \in Nat /\ u.height \in Nat
    BY <1>1 DEF TypeOK
  <2>4. ParamsVersion(s.height) # ParamsVersion(u.height)
    BY <1>1, <2>1, <2>2 DEF OneUnbondingPerStake
  <2>5. /\ <<StakingHash(asks[p]), s.height>> \in buried
        /\ <<StakingHash(asks[p]), u.height>> \in buried
    BY <1>1, <2>1, <2>2 DEF SignedWereBuried
  <2> QED
    BY <2>3, <2>4, <2>5
<1>2. ReadsItsOwnSignature /\ OneUnbondingPerStake /\ SignedWereBuried /\ TypeOK
      => TwoUnbondingsMeanAMove
  BY <1>1 DEF TwoUnbondingsMeanAMove
<1> QED
  BY <1>2, EachReadsItsOwn, WholeSignsOnlyTheDeserved, WhatIsSignedWasBuried,
     UsesSignerApp, HistoryIsKeptBeside, TypeCorrect, PTL

-----------------------------------------------------------------------------
(* The service, as part of the whole.                                      *)

Proved == INSTANCE SigningService_proofs WITH Exchanges <- Procs, outcome <- told

\* Its theorems were proved of any set of exchanges that is finite.
LEMMA ServiceAssumptions == Proved!ExchangesAssumption /\ Proved!BoundAssumption
BY ClientsAssumption
DEF Proved!ExchangesAssumption, Proved!BoundAssumption, Proved!IsFiniteSet, IsFiniteSet

LEMMA SameService == Service!Spec => Proved!Spec
<1>1. Service!Init => Proved!Init
  BY DEF Service!Init, Proved!Init, Service!NoResponse, Proved!NoResponse
<1>2. Service!Next => Proved!Next
  <2>1. \A e, b : Service!Send(e, b) => Proved!Send(e, b)
    BY DEF Service!Send, Service!counters, Proved!Send, Proved!counters
  <2>2. \A e : \/ Service!TimeOut(e) \/ Service!SeeDisconnect(e) \/ Service!TakeResult(e)
                  => Proved!TimeOut(e) \/ Proved!SeeDisconnect(e) \/ Proved!TakeResult(e)
    BY DEF Service!TimeOut, Service!SeeDisconnect, Service!TakeResult, Service!server,
        Service!counters, Service!NoResponse, Proved!TimeOut, Proved!SeeDisconnect,
        Proved!TakeResult, Proved!server, Proved!counters, Proved!NoResponse
  <2>3. \A status, text : Service!ErrorResponse(Service!NewError(status, text))
                              = Proved!ErrorResponse(Proved!NewError(status, text))
    BY DEF Service!ErrorResponse, Service!NewError, Service!KnownStatuses,
        Proved!ErrorResponse, Proved!NewError, Proved!KnownStatuses
  <2>4. \A e : Service!RejectTooLong(e) \/ Service!RejectBody(e)
                  => Proved!RejectTooLong(e) \/ Proved!RejectBody(e)
    BY <2>3 DEF Service!RejectTooLong, Service!RejectBody, Service!Answer, Service!counters,
        Service!clients, Proved!RejectTooLong, Proved!RejectBody, Proved!Answer,
        Proved!counters, Proved!clients
  <2>5. \A e : Service!Decode(e) => Proved!Decode(e)
    BY DEF Service!Decode, Service!clients, Proved!Decode, Proved!clients
  <2>6. \A e, o : Service!SignUnbonding(e, o) => Proved!SignUnbonding(e, o)
    BY <2>3 DEF Service!SignUnbonding, Service!Answer, Service!clients,
        Proved!SignUnbonding, Proved!Answer, Proved!clients
  <2>7. \A e : Service!WriteResponse(e) => Proved!WriteResponse(e)
    BY DEF Service!WriteResponse, Service!ClientResult, Service!NoResponse,
        Proved!WriteResponse, Proved!ClientResult, Proved!NoResponse
  <2>8. \/ Service!Start \/ Service!Crash \/ Service!Stop \/ Service!Drained
        => Proved!Start \/ Proved!Crash \/ Proved!Stop \/ Proved!Drained
    BY DEF Service!Start, Service!Crash, Service!Stop, Service!Drained, Service!server,
        Service!counters, Service!clients, Service!NoResponse, Proved!Start,
        Proved!Crash, Proved!Stop, Proved!Drained, Proved!server, Proved!counters,
        Proved!clients, Proved!NoResponse
  <2>9. Service!Bodies = Proved!Bodies /\ Service!Outcomes = Proved!Outcomes
    BY DEF Service!Bodies, Service!Outcomes, Proved!Bodies, Proved!Outcomes
  <2> QED
    BY <2>1, <2>2, <2>4, <2>5, <2>6, <2>7, <2>8, <2>9
    DEF Service!Next, Service!Serve, Proved!Next, Proved!Serve
<1>3. [Service!Next]_(Service!vars) => [Proved!Next]_(Proved!vars)
  BY <1>2 DEF Service!vars, Service!server, Service!counters, Service!clients, Proved!vars,
      Proved!server, Proved!counters, Proved!clients
<1> QED
  BY <1>1, <1>3, PTL DEF Service!Spec, Proved!Spec

\* What was proved of the service holds of the whole: no request is counted twice
\* or not at all, no client reads a signature before it is counted, and the status
\* tells what SignerApp really returned.
THEOREM WholeServesAsPromised ==
    SSpec => [](/\ Service!CountersBalance /\ Service!SuccessIsCountedFirst
                /\ Service!StatusTellsTheOutcome)
<1>1. Service!Spec => [](/\ Proved!CountersBalance /\ Proved!SuccessIsCountedFirst
                         /\ Proved!StatusTellsTheOutcome)
  BY SameService, ServiceAssumptions, Proved!CountersAlwaysBalance,
     Proved!SuccessCountedFirst, Proved!StatusIsTrue, PTL
<1>2. \A S : Service!Cardinality(S) = Proved!Cardinality(S)
  BY DEF Service!Cardinality, Proved!Cardinality
<1>3. /\ Proved!CountersBalance => Service!CountersBalance
      /\ Proved!SuccessIsCountedFirst => Service!SuccessIsCountedFirst
      /\ Proved!StatusTellsTheOutcome => Service!StatusTellsTheOutcome
  BY <1>2 DEF Service!CountersBalance, Service!SuccessIsCountedFirst,
      Service!StatusTellsTheOutcome, Service!At, Service!NoResponse,
      Proved!CountersBalance, Proved!SuccessIsCountedFirst,
      Proved!StatusTellsTheOutcome, Proved!At, Proved!NoResponse
<1> QED
  BY <1>1, <1>3, UsesTheService, PTL

-----------------------------------------------------------------------------
(* The account of the signatures.                                          *)

\* Handlers that have a signature from the wallet and have not yet counted it.
Holding == {p \in Procs : pc[p] = "returned" /\ outcome[p] = "signature"}

Tally ==
    /\ made \in Nat /\ lost \in Nat /\ succeeded \in Nat
    /\ phase = "up" => made = succeeded + lost + Cardinality(Holding)

LEMMA OneHolder ==
    ASSUME NEW S \in SUBSET Procs, NEW p \in Procs
    PROVE  /\ Cardinality(S) \in Nat
           /\ p \notin S => Cardinality(S \cup {p}) = Cardinality(S) + 1
           /\ p \in S => Cardinality(S \ {p}) = Cardinality(S) - 1
           /\ p \notin S => S \ {p} = S
BY ClientsAssumption, FS_Subset, FS_CardinalityType, FS_AddElement, FS_RemoveElement

LEMMA TallyAlways == SSpec => []Tally
<1>1. SInit => Tally
  BY DEF SInit, Service!Init, Tally
<1>2. TypeOK /\ Traced /\ Tally /\ [SNext]_all => Tally'
  <2> SUFFICES ASSUME TypeOK, Traced, Tally, SNext \/ UNCHANGED all
               PROVE  Tally'
    OBVIOUS
  <2>0. /\ pc \in [Procs -> Steps] /\ outcome \in [Procs -> Outcomes]
        /\ Holding \in SUBSET Procs
    BY DEF TypeOK, Holding
  <2> USE <2>0 DEF Steps, Service!server, Service!clients, Service!counters
  <2>1. ASSUME UNCHANGED <<phase, succeeded, tallies>>, Holding' = Holding
        PROVE  Tally'
    BY <2>1 DEF Tally, tallies
  <2>2. CASE StartProcess
    <3>1. /\ made' = 0 /\ lost' = 0 /\ succeeded' = 0
          /\ UNCHANGED <<pc, outcome>> /\ phase = "down"
      BY <2>2 DEF StartProcess, Restart, Service!Start
    <3>2. Holding' = {}
      BY <3>1 DEF Holding, Traced
    <3> QED
      BY <3>1, <3>2, FS_EmptySet DEF Tally
  <2>3. CASE KillProcess
    <3>1. phase' = "down" /\ UNCHANGED <<made, lost, succeeded>>
      BY <2>3 DEF KillProcess, Service!Crash, tallies
    <3> QED
      BY <3>1 DEF Tally
  <2>4. CASE World \/ UNCHANGED all
    <3>1. UNCHANGED <<pc, outcome, phase, succeeded, tallies>>
      BY <2>4 DEF World, Connect, Disconnect, NodeStops, NodeStarts, WalletLocks,
           WalletUnlocks, service, all, vars
    <3> QED
      BY <2>1, <3>1 DEF Holding
  <2>5. ASSUME NEW p \in Procs,
               \/ \E b \in Service!Bodies, r \in Requests : SendRequest(p, b, r)
               \/ GiveUp(p) \/ SeeDisconnect(p) \/ Leave(p) \/ Refuse(p) \/ Respond(p)
        PROVE  Tally'
    <3>1. UNCHANGED <<pc, outcome, phase, succeeded, tallies>>
      BY <2>5 DEF SendRequest, GiveUp, SeeDisconnect, Leave, Refuse, Respond, vars,
           Service!Send, Service!TimeOut, Service!SeeDisconnect, Service!TakeResult,
           Service!RejectTooLong, Service!RejectBody, Service!WriteResponse
    <3> QED
      BY <2>1, <3>1 DEF Holding
  <2>6. ASSUME NEW p \in Procs, Enter(p) \/ Work(p)
        PROVE  Tally'
    <3>1. /\ UNCHANGED <<phase, succeeded, tallies>>
          /\ \A q \in Procs : q # p => pc'[q] = pc[q] /\ outcome'[q] = outcome[q]
          /\ pc[p] # "returned"
          /\ pc'[p] = "returned" => outcome'[p] # "signature"
      BY <2>6, VerdictType DEF Enter, Service!Decode, SignUnbondingTransaction, Work,
           TxByHash, Found, BestBlockHeight, ReturnWith, service
    <3> QED
      BY <2>1, <3>1 DEF Holding
  <2>7. ASSUME NEW p \in Procs, AskWallet(p)
        PROVE  Tally'
    <3>1. /\ UNCHANGED <<phase, succeeded>> /\ pc[p] = "rawSignature"
          /\ pc' = [pc EXCEPT ![p] = "returned"]
          /\ made' = made + (IF WalletSigns(req[p]) THEN 1 ELSE 0)
          /\ lost' = lost +
                (IF WalletSigns(req[p]) /\ outcome'[p] # "signature" THEN 1 ELSE 0)
          /\ \/ outcome' = [outcome EXCEPT ![p] = "internal"]
             \/ outcome' = [outcome EXCEPT ![p] = "signature"] /\ WalletSigns(req[p])
      BY <2>7 DEF AskWallet, RawSignature, ReturnWith, service
    <3>2. p \notin Holding
      BY <3>1 DEF Holding
    <3>3. CASE outcome' = [outcome EXCEPT ![p] = "signature"]
      <4>1. Holding' = Holding \cup {p}
        BY <3>1, <3>3 DEF Holding
      <4>2. /\ Cardinality(Holding') = Cardinality(Holding) + 1
            /\ Cardinality(Holding) \in Nat
        BY <3>2, <4>1, OneHolder
      <4>3. made' = made + 1 /\ lost' = lost
        BY <3>1, <3>3 DEF Tally
      <4> QED
        BY <3>1, <4>2, <4>3 DEF Tally
    <3>4. CASE outcome' = [outcome EXCEPT ![p] = "internal"]
      <4>1. Holding' = Holding
        BY <3>1, <3>2, <3>4 DEF Holding
      <4>2. Cardinality(Holding) \in Nat
        BY OneHolder
      <4>3. (made' = made + 1 /\ lost' = lost + 1) \/ (made' = made /\ lost' = lost)
        BY <3>1, <3>4 DEF Tally
      <4> QED
        BY <3>1, <4>1, <4>2, <4>3 DEF Tally
    <3> QED
      BY <3>1, <3>3, <3>4
  <2>8. ASSUME NEW p \in Procs, Leaves(p)
        PROVE  Tally'
    <3>1. /\ phase' = phase /\ UNCHANGED <<made, lost>> /\ pc[p] = "returned"
          /\ succeeded' = succeeded + (IF outcome[p] = "signature" THEN 1 ELSE 0)
      BY <2>8 DEF Leaves, Return, Service!SignUnbonding, tallies, Tally
    <3>2. Holding' = Holding \ {p} /\ (p \in Holding <=> outcome[p] = "signature")
      <4>1. pc' = [q \in Procs |-> IF q = p THEN "idle" ELSE pc[q]]
        BY <2>8 DEF Leaves, Return, Forget
      <4>2. outcome' = [q \in Procs |-> IF q = p THEN "none" ELSE outcome[q]]
        BY <2>8 DEF Leaves, Return, Forget
      <4> QED
        BY <3>1, <4>1, <4>2 DEF Holding
    <3>3. /\ Cardinality(Holding) \in Nat
          /\ Cardinality(Holding') =
                Cardinality(Holding) - (IF outcome[p] = "signature" THEN 1 ELSE 0)
      <4>1. CASE outcome[p] = "signature"
        BY <3>2, <4>1, OneHolder
      <4>2. CASE outcome[p] # "signature"
        <5>1. Holding' = Holding
          BY <3>2, <4>2
        <5>2. Cardinality(Holding) \in Nat
          BY OneHolder
        <5>3. Cardinality(Holding') = Cardinality(Holding)
          BY <5>1
        <5> QED
          BY <4>2, <5>2, <5>3
      <4> QED
        BY <4>1, <4>2
    <3> QED
      BY <3>1, <3>3 DEF Tally
  <2> QED
    BY <2>2, <2>3, <2>4, <2>5, <2>6, <2>7, <2>8 DEF SNext, HandlerOf
<1> QED
  BY <1>1, <1>2, UsesSignerApp, TypeCorrect, TracedAlways, PTL DEF SSpec

\* With any number of clients, none of the wallet's signatures is dropped between
\* the wallet's answer and the counter.
THEOREM NoSigningIsForgotten == SSpec => []SigningsAreCounted
<1>1. Tally => SigningsAreCounted
  BY DEF Tally, SigningsAreCounted, Holding
<1> QED
  BY <1>1, TallyAlways, PTL

\* The clients together have read no more signatures than the counter says, and
\* the counter says no more than the wallet made.
CountsAreOrdered ==
    phase = "up" => delivered <= succeeded /\ succeeded + lost <= made

\* From end to end: what is lost on the way can only make the counter too high for
\* the clients, never too low, and no retry counts a signature of the wallet twice.
THEOREM CountsStayOrdered == SSpec => []CountsAreOrdered
<1>1. SSpec => []Service!TypeOK
  <2>1. Proved!TypeOK => Service!TypeOK
    BY DEF Proved!TypeOK, Service!TypeOK, Proved!Phases, Service!Phases, Proved!Bodies,
           Service!Bodies, Proved!Responses, Service!Responses, Proved!KnownStatuses,
           Service!KnownStatuses, Proved!Messages, Service!Messages, Proved!Outcomes,
           Service!Outcomes
  <2> QED
    BY <2>1, SameService, ServiceAssumptions, Proved!TypeCorrect, UsesTheService, PTL
<1>2. ASSUME Service!TypeOK, Service!SuccessIsCountedFirst, Tally, phase = "up"
      PROVE  delivered <= succeeded /\ succeeded + lost <= made
  <2>1. \A n \in {succeeded, delivered} : n \in Nat
    BY <1>2 DEF Service!TypeOK
  <2>2. Cardinality(Holding) \in Nat
    BY ClientsAssumption, FS_Subset, FS_CardinalityType DEF Holding
  <2> DEFINE writing == {e \in Service!At("answering") : response[e].status = 200}
  <2>3. Service!Cardinality(writing) \in Nat
    <3>1. writing \subseteq Procs
      BY DEF Service!At
    <3>2. Cardinality(writing) \in Nat
      BY <3>1, ClientsAssumption, FS_Subset, FS_CardinalityType
    <3>3. \A S : Service!Cardinality(S) = Cardinality(S)
      BY DEF Service!Cardinality, Cardinality
    <3> QED
      BY <3>2, <3>3
  <2>4. delivered + Service!Cardinality(writing) <= succeeded
    BY <1>2 DEF Service!SuccessIsCountedFirst
  <2>5. delivered <= succeeded
    BY <2>1, <2>3, <2>4
  <2> QED
    BY <1>2, <2>1, <2>2, <2>5 DEF Tally
<1> QED
  BY <1>1, <1>2, WholeServesAsPromised, TallyAlways, PTL DEF CountsAreOrdered

=============================================================================
