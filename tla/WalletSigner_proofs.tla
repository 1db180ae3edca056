-------------------------- MODULE WalletSigner_proofs --------------------------
(***************************************************************************)
(* Theorems about WalletSigner, for any callers, requests and number of    *)
(* tries, and any wallet.                                                  *)
(***************************************************************************)
EXTENDS WalletSigner, SequenceTheorems, TLAPS

LEMMA HeadAndTail ==
    ASSUME NEW q \in Seq(Callers), q # <<>>
    PROVE  /\ Head(q) = q[1] /\ q[1] \in Callers /\ 1 \in DOMAIN q
           /\ Tail(q) \in Seq(Callers)
           /\ \A i \in DOMAIN Tail(q) :
                 i + 1 \in DOMAIN q /\ i + 1 # 1 /\ Tail(q)[i] = q[i + 1]
           /\ \A i \in DOMAIN q :
                 i # 1 => i - 1 \in DOMAIN Tail(q) /\ Tail(q)[i - 1] = q[i]
<1>1. /\ Len(q) \in Nat /\ DOMAIN q = 1..Len(q)
      /\ Head(q) = q[1] /\ Head(q) \in Callers /\ Tail(q) \in Seq(Callers)
      /\ DOMAIN Tail(q) = 1..(Len(q) - 1)
      /\ \A i \in 1..(Len(q) - 1) : Tail(q)[i] = q[i + 1]
  BY HeadTailProperties, LenProperties
<1>2. 1 \in DOMAIN q
  BY <1>1, EmptySeq
<1> QED
  BY <1>1, <1>2

LEMMA OneMoreTry == \A n \in Nat : n + 1 \in Nat
OBVIOUS

LEMMA PostMeans ==
    ASSUME Post
    PROVE  /\ Repost \/ Deliver(WalletAnswers(Head(queue)))
           /\ wallet' = wallet \/ wallet' = "down"
           /\ performed' = performed \/
                 /\ performed' = performed \cup {Head(queue)}
                 /\ WalletAnswers(Head(queue)) = "done"
           /\ Deliver(WalletAnswers(Head(queue))) /\ WalletAnswers(Head(queue)) = "done"
                 => Repost \/ performed' = performed \cup {Head(queue)}
           /\ UNCHANGED <<req, keys, result>>
BY Zenon DEF Post

Types ==
    /\ wallet \in {"down", "hung", "locked", "unlocked"}
    /\ queue \in Seq(Callers)
    /\ tries \in Nat
    /\ pc \in [Callers -> {"idle", "waiting", "answered", "signing", "returned"}]
    /\ req \in [Callers -> Requests \cup {NoRequest}]
    /\ reply \in [Callers -> {"none", "error", "done", "unsigned packet"}]
    /\ keys \in SUBSET Callers
    /\ result \in [Callers -> {"none", "error", "signature"}]
    /\ performed \in SUBSET Callers

LEMMA TypeCorrect == Spec => []Types
<1>1. Init => Types
  BY DEF Init, Types
<1>2. Types /\ [Next]_vars => Types'
  <2> SUFFICES ASSUME Types, [Next]_vars
               PROVE  Types'
    OBVIOUS
  <2> USE DEF Types, rpcs, calls
  <2>1. CASE UnlockWallet \/ TimerLocks \/ Stops \/ Starts \/ Hangs
    BY <2>1 DEF UnlockWallet, TimerLocks, Stops, Starts, Hangs, Becomes
  <2>2. CASE Post
    <3>1. Head(queue) \in Callers /\ Tail(queue) \in Seq(Callers)
      BY <2>2, HeadAndTail DEF Post
    <3>2. /\ WalletAnswers(Head(queue)) \in {"error", "done", "unsigned packet"}
          /\ wallet' \in {"down", "hung", "locked", "unlocked"}
          /\ performed' \in SUBSET Callers
          /\ UNCHANGED <<req, keys, result>>
      BY <2>2, <3>1, PostMeans DEF WalletAnswers
    <3>3. CASE tries' = tries + 1 /\ UNCHANGED <<queue, reply, pc>>
      <4>1. tries' = tries + 1 /\ queue' = queue /\ reply' = reply /\ pc' = pc
        BY <3>3, Zenon
      <4>2. tries' \in Nat
        BY <4>1, OneMoreTry, Zenon
      <4> QED
        BY <3>2, <4>1, <4>2
    <3>4. CASE Deliver("error")
      BY <3>1, <3>2, <3>4 DEF Deliver
    <3>5. CASE Deliver(WalletAnswers(Head(queue)))
      BY <3>1, <3>2, <3>5 DEF Deliver
    <3> QED
      BY <2>2, <3>3, <3>4, <3>5, PostMeans DEF Repost
  <2>3. ASSUME NEW c \in Callers, NEW r \in Requests, RawSignature(c, r)
        PROVE  Types'
    <3>1. Append(queue, c) \in Seq(Callers)
      BY AppendProperties
    <3> QED
      BY <2>3, <3>1 DEF RawSignature, ReturnWith
  <2>4. ASSUME NEW c \in Callers, Proceed(c) \/ TakeResult(c)
        PROVE  Types'
    BY <2>4 DEF Proceed, ReadPacket, TakeKey, SignAndZero, TakeResult, ReturnWith
  <2>5. CASE UNCHANGED vars
    BY <2>5 DEF vars
  <2> QED
    BY <2>1, <2>2, <2>3, <2>4, <2>5 DEF Next
<1> QED
  BY <1>1, <1>2, PTL DEF Spec

-----------------------------------------------------------------------------
(* The queue.                                                              *)

\* A caller that waits is in the queue once, and nobody else is.
EachWaitsOnce ==
    /\ \A c \in Callers : pc[c] = "waiting" <=>
          \E i \in DOMAIN queue : queue[i] = c
    /\ \A i, j \in DOMAIN queue : queue[i] = queue[j] => i = j

\* It stays so however many callers arrive while the node is slow: with it a
\* caller has one place, and what is posted is the request of one that waits.
LEMMA OncePerCaller == Spec => []EachWaitsOnce
<1>1. Init => EachWaitsOnce
  BY DEF Init, EachWaitsOnce
<1>2. Types /\ EachWaitsOnce /\ [Next]_vars => EachWaitsOnce'
  <2> SUFFICES ASSUME Types, EachWaitsOnce, [Next]_vars
               PROVE  EachWaitsOnce'
    OBVIOUS
  <2> USE DEF rpcs, calls
  <2>1. ASSUME UNCHANGED queue,
               \A c \in Callers : pc[c] = "waiting" <=> pc'[c] = "waiting"
        PROVE  EachWaitsOnce'
    BY <2>1 DEF EachWaitsOnce
  <2>2. CASE Post
    <3>1. CASE UNCHANGED <<queue, pc>>
      BY <2>1, <3>1
    <3>2. CASE \E a : Deliver(a)
      <4>1. /\ queue' = Tail(queue)
            /\ pc' = [pc EXCEPT ![queue[1]] = "answered"]
        BY <2>2, <3>2, HeadAndTail DEF Post, Deliver, Types
      <4>2. /\ queue[1] \in Callers /\ 1 \in DOMAIN queue
            /\ \A i \in DOMAIN queue' :
                  i + 1 \in DOMAIN queue /\ i + 1 # 1 /\ queue'[i] = queue[i + 1]
            /\ \A i \in DOMAIN queue : i # 1 =>
                  i - 1 \in DOMAIN queue' /\ queue'[i - 1] = queue[i]
        BY <2>2, <4>1, HeadAndTail DEF Post, Types
      <4>3. \A i, j \in DOMAIN queue' : queue'[i] = queue'[j] => i = j
        BY <4>1, <4>2 DEF EachWaitsOnce
      <4>4. ASSUME NEW c \in Callers
            PROVE  pc'[c] = "waiting" <=> \E i \in DOMAIN queue' : queue'[i] = c
        <5>1. CASE c = queue[1]
          <6>1. pc'[c] # "waiting"
            BY <4>1, <5>1 DEF Types
          <6>2. \A i \in DOMAIN queue' : queue'[i] # queue[1]
            BY <4>2 DEF EachWaitsOnce
          <6> QED
            BY <5>1, <6>1, <6>2
        <5>2. CASE c # queue[1]
          <6>1. pc'[c] = pc[c]
            BY <4>1, <5>2 DEF Types
          <6>2. pc[c] = "waiting" <=> \E i \in DOMAIN queue : queue[i] = c
            BY DEF EachWaitsOnce
          <6> QED
            BY <4>2, <5>2, <6>1, <6>2
        <5> QED
          BY <5>1, <5>2
      <4> QED
        BY <4>3, <4>4 DEF EachWaitsOnce
    <3> QED
      BY <2>2, <3>1, <3>2 DEF Post, Repost
  <2>3. ASSUME NEW c \in Callers, NEW r \in Requests, RawSignature(c, r)
        PROVE  EachWaitsOnce'
    <3>1. CASE r \notin SimpleTransfers
      BY <2>1, <2>3, <3>1 DEF RawSignature, ReturnWith, Types
    <3>2. CASE r \in SimpleTransfers
      <4>1. /\ queue \in Seq(Callers) /\ queue' = Append(queue, c)
            /\ pc[c] = "idle" /\ pc' = [pc EXCEPT ![c] = "waiting"]
        BY <2>3, <3>2 DEF RawSignature, Types
      <4>2. /\ DOMAIN queue' = DOMAIN queue \cup {Len(queue) + 1}
            /\ queue'[Len(queue) + 1] = c
            /\ \A i \in DOMAIN queue : queue'[i] = queue[i]
        BY <4>1
      <4>3. \A i \in DOMAIN queue : queue[i] # c
        BY <4>1 DEF EachWaitsOnce
      <4>4. \A i, j \in DOMAIN queue' : queue'[i] = queue'[j] => i = j
        BY <4>2, <4>3 DEF EachWaitsOnce
      <4>5. \A d \in Callers : pc'[d] = "waiting" <=> pc[d] = "waiting" \/ d = c
        BY <4>1 DEF Types
      <4>6. ASSUME NEW d \in Callers
            PROVE  pc'[d] = "waiting" <=> \E i \in DOMAIN queue' : queue'[i] = d
        BY <4>2, <4>5 DEF EachWaitsOnce
      <4> QED
        BY <4>4, <4>6 DEF EachWaitsOnce
    <3> QED
      BY <3>1, <3>2
  <2>4. ASSUME NEW c \in Callers, Proceed(c) \/ TakeResult(c)
        PROVE  EachWaitsOnce'
    BY <2>1, <2>4 DEF Proceed, ReadPacket, TakeKey, SignAndZero, TakeResult, ReturnWith,
         Types
  <2>5. CASE \/ UnlockWallet \/ TimerLocks \/ Stops \/ Starts \/ Hangs
             \/ UNCHANGED vars
    BY <2>1, <2>5 DEF UnlockWallet, TimerLocks, Stops, Starts, Hangs, Becomes, vars
  <2> QED
    BY <2>2, <2>3, <2>4, <2>5 DEF Next
<1> QED
  BY <1>1, <1>2, TypeCorrect, PTL DEF Spec

\* A request is given up before it has been posted more than MaxTries times.
LEMMA TriesAreBounded == Spec => [](tries < MaxTries)
<1>1. Init => tries < MaxTries
  BY MaxTriesAssumption DEF Init
<1>2. Types /\ tries < MaxTries /\ [Next]_vars => (tries < MaxTries)'
  <2> SUFFICES ASSUME Types, tries < MaxTries, [Next]_vars
               PROVE  tries' < MaxTries
    OBVIOUS
  <2>1. CASE Post
    BY <2>1, MaxTriesAssumption, PostMeans DEF Repost, Deliver
  <2>2. CASE UNCHANGED tries
    BY <2>2
  <2>3. Post \/ UNCHANGED tries
    BY DEF Next, UnlockWallet, TimerLocks, Stops, Starts, Hangs, Becomes, RawSignature,
           Proceed, ReadPacket, TakeKey, SignAndZero, TakeResult, vars, rpcs
  <2> QED
    BY <2>1, <2>2, <2>3
<1> QED
  BY <1>1, <1>2, TypeCorrect, PTL DEF Spec

\* A caller that waits has one place in the queue.
LEMMA PlaceOfWaiting ==
    ASSUME EachWaitsOnce, NEW c \in Callers, pc[c] = "waiting"
    PROVE  /\ Place(c) \in DOMAIN queue /\ queue[Place(c)] = c
           /\ \A i \in DOMAIN queue : queue[i] = c => i = Place(c)
<1>1. \E i \in DOMAIN queue : queue[i] = c
  BY DEF EachWaitsOnce
<1>2. Place(c) \in DOMAIN queue /\ queue[Place(c)] = c
  BY <1>1 DEF Place
<1> QED
  BY <1>2 DEF EachWaitsOnce

\* The queue is served in the order of arrival: a post takes everybody on, and
\* the steps of other callers, of the wallet and of the node take nobody back.
THEOREM NobodyIsOvertaken == Spec => WaitIsBounded
<1>1. ASSUME Types, EachWaitsOnce, EachWaitsOnce', tries < MaxTries, (tries < MaxTries)',
             Next, NEW c \in Callers, pc[c] = "waiting"
      PROVE  \/ pc'[c] = "answered"
             \/ /\ pc'[c] = "waiting"
                /\ \/ Place(c)' = Place(c) - 1
                   \/ Place(c)' = Place(c) /\ tries' = tries + 1 /\ tries' < MaxTries
                   \/ ~Post /\ Place(c)' = Place(c) /\ tries' = tries
  <2>1. /\ Place(c) \in DOMAIN queue /\ queue[Place(c)] = c
        /\ queue \in Seq(Callers) /\ DOMAIN queue = 1..Len(queue) /\ Len(queue) \in Nat
    BY <1>1, PlaceOfWaiting, LenProperties DEF Types
  <2>2. ASSUME pc'[c] = "waiting", NEW i \in DOMAIN queue', queue'[i] = c
        PROVE  Place(c)' = i
    <3>1. \A j \in DOMAIN queue' : queue'[j] = c => i = j
      BY <1>1, <2>2 DEF EachWaitsOnce
    <3> QED
      BY <2>2, <3>1 DEF Place
  <2>3. CASE Post
    <3>1. CASE tries' = tries + 1 /\ UNCHANGED <<queue, reply, pc>>
      BY <1>1, <2>1, <2>2, <3>1
    <3>2. CASE \E a : Deliver(a)
      <4>1. /\ queue' = Tail(queue)
            /\ pc' = [pc EXCEPT ![queue[1]] = "answered"]
        BY <1>1, <2>3, <3>2, HeadAndTail DEF Post, Deliver, Types
      <4>2. CASE queue[1] = c
        BY <1>1, <4>1, <4>2 DEF Types
      <4>3. CASE queue[1] # c
        <5>1. pc'[c] = "waiting"
          BY <1>1, <4>1, <4>3 DEF Types
        <5>2. Place(c) - 1 \in DOMAIN queue' /\ queue'[Place(c) - 1] = c
          BY <2>1, <2>3, <4>1, <4>3, HeadAndTail DEF Post
        <5> QED
          BY <2>2, <5>1, <5>2
      <4> QED
        BY <4>2, <4>3
    <3> QED
      BY <2>3, <3>1, <3>2, PostMeans DEF Repost
  <2>4. CASE ~Post
    <3>1. /\ tries' = tries /\ pc'[c] = "waiting"
          /\ queue' = queue \/ \E d \in Callers : queue' = Append(queue, d)
      BY <1>1, <2>4
         DEF Next, UnlockWallet, TimerLocks, Stops, Starts, Hangs, Becomes, RawSignature,
             Proceed, ReadPacket, TakeKey, SignAndZero, TakeResult, ReturnWith, rpcs,
             calls, Types
    <3>2. Place(c) \in DOMAIN queue' /\ queue'[Place(c)] = c
      BY <2>1, <3>1, AppendProperties
    <3> QED
      BY <2>2, <2>4, <3>1, <3>2
  <2> QED
    BY <2>3, <2>4
<1>2. /\ Types /\ EachWaitsOnce /\ EachWaitsOnce' /\ tries < MaxTries
      /\ (tries < MaxTries)' /\ [Next]_vars
      => [\A c \in Callers : pc[c] = "waiting" =>
            \/ pc'[c] = "answered"
            \/ /\ pc'[c] = "waiting"
               /\ \/ Place(c)' = Place(c) - 1
                  \/ Place(c)' = Place(c) /\ tries' = tries + 1 /\ tries' < MaxTries
                  \/ ~Post /\ Place(c)' = Place(c) /\ tries' = tries]_vars
  BY <1>1
<1> QED
  BY <1>2, TypeCorrect, OncePerCaller, TriesAreBounded, PTL DEF Spec, WaitIsBounded

-----------------------------------------------------------------------------
(* The keys, and the promise of the interface.                             *)

\* What a caller holds came from the wallet, in this call, for its own request,
\* and the key is held in one step of it only.
GrantedTo(c) ==
    /\ pc[c] = "idle" <=> req[c] = NoRequest
    /\ c \in performed => pc[c] # "idle" /\ req[c] \in WalletHas
    /\ pc[c] = "answered" /\ reply[c] = "done" => c \in performed
    /\ pc[c] = "signing" => c \in performed
    /\ c \in keys <=> pc[c] = "signing"
    /\ pc[c] = "returned" =>
          result[c] = "error" \/ (result[c] = "signature" /\ c \in performed)

Granted == \A c \in Callers : GrantedTo(c)

\* A caller that a step leaves alone keeps what it was granted.
LEMMA OthersKeepTheirs ==
    ASSUME NEW d, GrantedTo(d),
           pc'[d] = pc[d], req'[d] = req[d], reply'[d] = reply[d],
           result'[d] = result[d], d \in keys' <=> d \in keys,
           d \in performed' <=> d \in performed
    PROVE  GrantedTo(d)'
BY DEF GrantedTo

LEMMA WalletGrants ==
    ASSUME NEW c \in Callers, WalletAnswers(c) = "done"
    PROVE  wallet = "unlocked" /\ req[c] \in WalletHas
BY DEF WalletAnswers

\* The head of the queue waits, so that an answer never reaches a caller that
\* has moved on.
LEMMA HeadWaits ==
    ASSUME Types, EachWaitsOnce, Post
    PROVE  Head(queue) \in Callers /\ pc[Head(queue)] = "waiting"
<1>1. /\ Head(queue) = queue[1] /\ queue[1] \in Callers
      /\ \E i \in DOMAIN queue : queue[i] = queue[1]
  BY HeadAndTail, Zenon DEF Types, Post
<1> QED
  BY <1>1 DEF EachWaitsOnce

LEMMA GrantedAlways == Spec => []Granted
<1>1. Init => Granted
  BY DEF Init, Granted, GrantedTo
<1>2. Types /\ EachWaitsOnce /\ Granted /\ [Next]_vars => Granted'
  <2> SUFFICES ASSUME Types, EachWaitsOnce, Granted, [Next]_vars
               PROVE  Granted'
    OBVIOUS
  <2>0. /\ pc \in [Callers -> {"idle", "waiting", "answered", "signing", "returned"}]
        /\ req \in [Callers -> Requests \cup {NoRequest}]
        /\ reply \in [Callers -> {"none", "error", "done", "unsigned packet"}]
        /\ keys \in SUBSET Callers
        /\ result \in [Callers -> {"none", "error", "signature"}]
        /\ performed \in SUBSET Callers
    BY DEF Types
  <2> USE <2>0 DEF Granted, rpcs, calls
  <2>1. CASE \/ UnlockWallet \/ TimerLocks \/ Stops \/ Starts \/ Hangs
             \/ UNCHANGED vars
    <3>1. UNCHANGED <<pc, req, reply, keys, result, performed>>
      BY <2>1 DEF UnlockWallet, TimerLocks, Stops, Starts, Hangs, Becomes, vars
    <3> QED
      BY <3>1 DEF GrantedTo
  <2>2. CASE Post
    <3>1. PICK c \in Callers : c = Head(queue) /\ pc[c] = "waiting"
      BY <2>2, HeadWaits
    <3>2. /\ req' = req /\ keys' = keys /\ result' = result
          /\ \/ performed' = performed
             \/ performed' = performed \cup {c} /\ req[c] \in WalletHas
      BY <2>2, <3>1, PostMeans, WalletGrants
    <3>3. \/ pc' = pc /\ reply' = reply
          \/ /\ pc' = [pc EXCEPT ![c] = "answered"]
             /\ \/ reply' = [reply EXCEPT ![c] = "error"]
                \/ /\ reply' = [reply EXCEPT ![c] = WalletAnswers(c)]
                   /\ WalletAnswers(c) = "done" => performed' = performed \cup {c}
      BY <2>2, <3>1, Zenon DEF Post, Repost, Deliver
    <3>4. ASSUME NEW d \in Callers, d # c
          PROVE  GrantedTo(d)'
      BY <3>2, <3>3, <3>4, OthersKeepTheirs
    <3>5. GrantedTo(c)'
      BY <3>1, <3>2, <3>3 DEF GrantedTo
    <3> QED
      BY <3>4, <3>5
  <2>3. ASSUME NEW c \in Callers, NEW r \in Requests, RawSignature(c, r)
        PROVE  Granted'
    <3>1. ASSUME NEW d \in Callers, d # c
          PROVE  GrantedTo(d)'
      BY <2>3, <3>1, OthersKeepTheirs DEF RawSignature, ReturnWith
    <3>2. /\ pc[c] = "idle" /\ req'[c] = r /\ r # NoRequest
          /\ keys' = keys /\ performed' = performed
          /\ \/ pc'[c] = "waiting"
             \/ pc'[c] = "returned" /\ result'[c] = "error"
      BY <2>3, NoRequestAssumption DEF RawSignature, ReturnWith
    <3>3. GrantedTo(c)'
      BY <3>2 DEF GrantedTo
    <3> QED
      BY <3>1, <3>3
  <2>4. ASSUME NEW c \in Callers, Proceed(c)
        PROVE  Granted'
    <3>1. ASSUME NEW d \in Callers, d # c
          PROVE  GrantedTo(d)'
      <4>1. /\ pc'[d] = pc[d] /\ req'[d] = req[d] /\ reply'[d] = reply[d]
            /\ result'[d] = result[d] /\ performed' = performed
        BY <2>4, <3>1 DEF Proceed, ReadPacket, TakeKey, SignAndZero, ReturnWith
      <4>2. d \in keys' <=> d \in keys
        BY <2>4, <3>1 DEF Proceed, ReadPacket, TakeKey, SignAndZero
      <4> QED
        BY <4>1, <4>2, OthersKeepTheirs
    <3>2. req' = req /\ performed' = performed
      BY <2>4 DEF Proceed, ReadPacket, TakeKey, SignAndZero
    <3>3. ASSUME ReadPacket(c)  PROVE GrantedTo(c)'
      <4>1. /\ pc[c] = "answered" /\ pc'[c] = "returned" /\ keys' = keys
            /\ \/ result'[c] = "error"
               \/ reply[c] = "done" /\ result'[c] = "signature"
        BY <3>3 DEF ReadPacket, ReturnWith
      <4> QED
        BY <3>2, <4>1 DEF GrantedTo
    <3>4. ASSUME TakeKey(c)  PROVE GrantedTo(c)'
      <4>1. /\ pc[c] = "answered"
            /\ \/ pc'[c] = "returned" /\ result'[c] = "error" /\ keys' = keys
               \/ reply[c] = "done" /\ pc'[c] = "signing" /\ keys' = keys \cup {c}
        BY <3>4 DEF TakeKey, ReturnWith
      <4> QED
        BY <3>2, <4>1 DEF GrantedTo
    <3>5. ASSUME SignAndZero(c)  PROVE GrantedTo(c)'
      <4>1. /\ pc[c] = "signing" /\ pc'[c] = "returned" /\ keys' = keys \ {c}
            /\ result'[c] \in {"error", "signature"}
        BY <3>5 DEF SignAndZero, ReturnWith
      <4> QED
        BY <3>2, <4>1 DEF GrantedTo
    <3>6. GrantedTo(c)'
      BY <2>4, <3>3, <3>4, <3>5 DEF Proceed
    <3> QED
      BY <3>1, <3>6
  <2>5. ASSUME NEW c \in Callers, TakeResult(c)
        PROVE  Granted'
    <3>1. ASSUME NEW d \in Callers, d # c
          PROVE  GrantedTo(d)'
      BY <2>5, <3>1, OthersKeepTheirs DEF TakeResult
    <3>2. /\ pc[c] = "returned" /\ pc'[c] = "idle" /\ req'[c] = NoRequest
          /\ keys' = keys /\ c \notin performed'
      BY <2>5 DEF TakeResult
    <3>3. GrantedTo(c)'
      BY <3>2 DEF GrantedTo
    <3> QED
      BY <3>1, <3>3
  <2> QED
    BY <2>1, <2>2, <2>3, <2>4, <2>5 DEF Next
<1> QED
  BY <1>1, <1>2, TypeCorrect, OncePerCaller, PTL DEF Spec

\* No private key is in memory between two calls, whether the call that fetched
\* it has signed or failed.
THEOREM KeysAreZeroed == Spec => []NoKeyLeftBehind
<1>1. Granted => NoKeyLeftBehind
  BY DEF Granted, GrantedTo, NoKeyLeftBehind
<1> QED
  BY <1>1, GrantedAlways, PTL

\* Every step of either signer, of the RPC client and of the wallet is a step of
\* the interface SignerApp relies on, or does not show there.
THEOREM Implements == Spec => IsExternalBtcSigner
<1> DEFINE shown == [c \in Callers |-> IF pc[c] = "idle" THEN result[c] ELSE "none"]
<1>1. Init => Interface!Init
  BY DEF Init, Interface!Init
<1>2. /\ Types /\ EachWaitsOnce /\ Granted /\ [Next]_vars
      => [Interface!Next]_<<wallet = "unlocked", req, performed, shown>>
  <2> SUFFICES ASSUME Types, EachWaitsOnce, Granted, [Next]_vars
               PROVE  \/ Interface!Next
                      \/ UNCHANGED <<wallet = "unlocked", req, performed, shown>>
    OBVIOUS
  <2>0. /\ pc \in [Callers -> {"idle", "waiting", "answered", "signing", "returned"}]
        /\ req \in [Callers -> Requests \cup {NoRequest}]
        /\ result \in [Callers -> {"none", "error", "signature"}]
        /\ performed \in SUBSET Callers
    BY DEF Types
  <2> USE <2>0 DEF Granted, GrantedTo, rpcs, calls
  <2>1. CASE \/ UnlockWallet \/ TimerLocks \/ Stops \/ Starts \/ Hangs
    <3>1. UNCHANGED <<req, performed, shown>>
      BY <2>1 DEF UnlockWallet, TimerLocks, Stops, Starts, Hangs, Becomes
    <3> QED
      BY <3>1 DEF Interface!Next, Interface!WalletChanges
  <2>2. CASE Post
    <3> DEFINE c == Head(queue)
    <3>1. c \in Callers /\ pc[c] = "waiting"
      BY <2>2, HeadWaits
    <3>2. req' = req /\ result' = result /\ (pc' = pc \/ pc' = [pc EXCEPT ![c] = "answered"])
      BY <2>2, PostMeans DEF Repost, Deliver
    <3>3. shown' = shown
      BY <3>1, <3>2
    <3>4. \/ performed' = performed
          \/ performed' = performed \cup {c} /\ wallet = "unlocked" /\ req[c] \in WalletHas
      BY <2>2, <3>1, PostMeans, WalletGrants
    <3>5. CASE performed' = performed
      BY <3>2, <3>3, <3>5 DEF Interface!Next, Interface!WalletChanges
    <3>6. CASE performed' = performed \cup {c} /\ wallet = "unlocked" /\ req[c] \in WalletHas
      BY <3>1, <3>2, <3>3, <3>6 DEF Interface!Next, Interface!Sign
    <3> QED
      BY <3>4, <3>5, <3>6
  <2>3. ASSUME NEW c \in Callers, NEW r \in Requests, RawSignature(c, r)
        PROVE  Interface!Next
    <3>1. /\ req[c] = NoRequest /\ req' = [req EXCEPT ![c] = r]
          /\ wallet' = wallet /\ performed' = performed
      BY <2>3 DEF RawSignature
    <3>2. shown' = [shown EXCEPT ![c] = "none"]
      BY <2>3 DEF RawSignature, ReturnWith
    <3> QED
      BY <3>1, <3>2 DEF Interface!Next, Interface!Ask
  <2>4. ASSUME NEW c \in Callers, Proceed(c)
        PROVE  UNCHANGED <<wallet = "unlocked", req, performed, shown>>
    BY <2>4 DEF Proceed, ReadPacket, TakeKey, SignAndZero, ReturnWith
  <2>5. ASSUME NEW c \in Callers, TakeResult(c)
        PROVE  Interface!Next
    <3>1. /\ req[c] # NoRequest /\ req' = [req EXCEPT ![c] = NoRequest]
          /\ wallet' = wallet /\ performed' = performed \ {c}
          /\ result[c] \in {"signature", "error"}
          /\ result[c] = "signature" => c \in performed
      BY <2>5 DEF TakeResult
    <3>2. shown' = [shown EXCEPT ![c] = result[c]]
      BY <2>5 DEF TakeResult
    <3> QED
      BY <3>1, <3>2 DEF Interface!Next, Interface!Answer
  <2>6. CASE UNCHANGED vars
    BY <2>6 DEF vars
  <2> QED
    BY <2>1, <2>2, <2>3, <2>4, <2>5, <2>6 DEF Next
<1> QED
  BY <1>1, <1>2, TypeCorrect, OncePerCaller, GrantedAlways, PTL
     DEF Spec, IsExternalBtcSigner, Interface!Spec

-----------------------------------------------------------------------------
(* What SignerApp takes for granted.                                       *)

SignaturesAreMade ==
    \A c \in Callers : pc[c] = "returned" /\ result[c] = "signature" => c \in performed

SimpleIsSent == \A c \in Callers : pc[c] = "waiting" => req[c] \in SimpleTransfers

\* The guard of SignerApp's RawSignature, WalletSigns, in terms of the signers: a
\* signature is returned only if it was made during the call, and one is made only
\* while the wallet is unlocked, for a transfer that is simple and a key it holds.
SignsUnderTheGuard ==
    /\ []SignaturesAreMade
    /\ [][\A c \in performed' \ performed :
             /\ pc[c] = "waiting" /\ wallet = "unlocked"
             /\ req[c] \in SimpleTransfers \cap WalletHas]_vars

\* Only what IsSimpleTransfer let pass is ever sent to the wallet.
LEMMA SimpleAreSent == Spec => []SimpleIsSent
<1>1. Init => SimpleIsSent
  BY DEF Init, SimpleIsSent
<1>2. Types /\ SimpleIsSent /\ [Next]_vars => SimpleIsSent'
  <2> SUFFICES ASSUME Types, SimpleIsSent, [Next]_vars
               PROVE  SimpleIsSent'
    OBVIOUS
  <2>0. /\ pc \in [Callers -> {"idle", "waiting", "answered", "signing", "returned"}]
        /\ req \in [Callers -> Requests \cup {NoRequest}]
    BY DEF Types
  <2> USE <2>0 DEF calls, SimpleIsSent
  <2>1. CASE Post
    <3>1. req' = req /\ (pc' = pc \/ pc' = [pc EXCEPT ![Head(queue)] = "answered"])
      BY <2>1, PostMeans DEF Repost, Deliver
    <3> QED
      BY <3>1
  <2>2. ASSUME NEW c \in Callers, NEW r \in Requests, RawSignature(c, r)
        PROVE  SimpleIsSent'
    BY <2>2 DEF RawSignature, ReturnWith
  <2>3. ASSUME NEW c \in Callers, Proceed(c) \/ TakeResult(c)
        PROVE  SimpleIsSent'
    BY <2>3 DEF Proceed, ReadPacket, TakeKey, SignAndZero, TakeResult, ReturnWith
  <2>4. CASE \/ UnlockWallet \/ TimerLocks \/ Stops \/ Starts \/ Hangs
             \/ UNCHANGED vars
    BY <2>4 DEF UnlockWallet, TimerLocks, Stops, Starts, Hangs, Becomes, vars
  <2> QED
    BY <2>1, <2>2, <2>3, <2>4 DEF Next
<1> QED
  BY <1>1, <1>2, TypeCorrect, PTL DEF Spec

\* Both signers meet the guard under which SignerApp has the wallet sign, with
\* answers lost and requests repeated while the wallet locks, stops and starts.
THEOREM SignersMeetTheGuard == Spec => SignsUnderTheGuard
<1>1. Granted => SignaturesAreMade
  BY DEF Granted, GrantedTo, SignaturesAreMade
<1>2. ASSUME Types, EachWaitsOnce, Next, SimpleIsSent, NEW c \in performed' \ performed
      PROVE  /\ pc[c] = "waiting" /\ wallet = "unlocked"
             /\ req[c] \in SimpleTransfers \cap WalletHas
  <2>1. Post
    BY <1>2 DEF Next, UnlockWallet, TimerLocks, Stops, Starts, Hangs, Becomes,
                RawSignature, Proceed, ReadPacket, TakeKey, SignAndZero, TakeResult
  <2>2. c = Head(queue) /\ WalletAnswers(Head(queue)) = "done"
    BY <1>2, <2>1, PostMeans
  <2>3. c \in Callers /\ pc[c] = "waiting"
    BY <1>2, <2>1, <2>2, HeadWaits
  <2>4. wallet = "unlocked" /\ req[c] \in WalletHas
    BY <2>2, <2>3, WalletGrants
  <2> QED
    BY <1>2, <2>3, <2>4 DEF SimpleIsSent
<1>3. /\ Types /\ EachWaitsOnce /\ SimpleIsSent /\ [Next]_vars
      => [\A c \in performed' \ performed :
             /\ pc[c] = "waiting" /\ wallet = "unlocked"
             /\ req[c] \in SimpleTransfers \cap WalletHas]_vars
  BY <1>2
<1> QED
  BY <1>1, <1>3, TypeCorrect, OncePerCaller, GrantedAlways, SimpleAreSent, PTL
     DEF Spec, SignsUnderTheGuard

=============================================================================
