---------------------------- MODULE WalletSigner ----------------------------
(***************************************************************************)
(* The two implementations of ExternalBtcSigner: PsbtSigner, which sends   *)
(* the wallet a packet to sign, and PrivKeySigner, which fetches the key   *)
(* and signs itself.  All callers share one RPC client, which posts one    *)
(* request at a time, again when the connection fails, and waits for an    *)
(* answer without a timeout.                                               *)
(***************************************************************************)
EXTENDS Integers, Sequences

CONSTANTS
    Callers,
    Requests,
    NoRequest,        \* none of them
    SimpleTransfers,  \* requests for a transaction with one input and output
    WalletHas,        \* requests for a key the wallet holds
    BadLeaf,          \* requests whose leaf cannot be signed for
    PrivKeyCallers,   \* callers of a PrivKeySigner; the others use PsbtSigner
    MaxTries          \* posts of one request before the client gives up

ASSUME NoRequestAssumption == NoRequest \notin Requests

ASSUME MaxTriesAssumption == MaxTries \in Nat /\ MaxTries > 0

VARIABLES
    wallet,    \* the wallet node: down, hung, locked or unlocked
    queue,     \* callers in the order their RPCs were queued, the first is posted
    tries,     \* failed posts of the first
    pc, req,   \* of each caller
    reply,     \* what its RPC returned
    keys,      \* callers that hold a private key in memory
    result,    \* what RawSignature returns
    performed  \* history: callers for which the wallet has signed, or parted
               \* with the key, since they called

rpcs == <<queue, tries, reply>>
calls == <<pc, req, keys, result>>
vars == <<wallet, rpcs, calls, performed>>

Init ==
    /\ wallet = "locked"
    /\ queue = <<>> /\ tries = 0
    /\ pc = [c \in Callers |-> "idle"]
    /\ req = [c \in Callers |-> NoRequest]
    /\ reply = [c \in Callers |-> "none"]
    /\ keys = {}
    /\ result = [c \in Callers |-> "none"]
    /\ performed = {}

-----------------------------------------------------------------------------
(* The wallet node.                                                        *)

Becomes(from, to) ==
    /\ wallet \in from
    /\ wallet' = to
    /\ UNCHANGED <<rpcs, calls, performed>>

UnlockWallet == Becomes({"locked"}, "unlocked")
TimerLocks == Becomes({"unlocked"}, "locked")
Stops == Becomes({"locked", "unlocked", "hung"}, "down")
Starts == Becomes({"down"}, "locked")
Hangs == Becomes({"locked", "unlocked"}, "hung")

-----------------------------------------------------------------------------
(* The RPC client.                                                         *)

Deliver(answer) ==
    /\ reply' = [reply EXCEPT ![Head(queue)] = answer]
    /\ pc' = [pc EXCEPT ![Head(queue)] = "answered"]
    /\ queue' = Tail(queue)
    /\ tries' = 0

\* Mutant: posted until the node answers.
RepostForever ==
    tries' = tries /\ UNCHANGED <<queue, reply, pc>>

\* No answer: post again after a pause, or give up.
Repost ==
    \/ tries + 1 < MaxTries /\ tries' = tries + 1 /\ UNCHANGED <<queue, reply, pc>>
    \/ tries + 1 = MaxTries /\ Deliver("error")

\* What walletprocesspsbt or dumpprivkey does, and answers.
WalletAnswers(c) ==
    CASE wallet = "locked" -> "error"
      [] wallet = "unlocked" /\ req[c] \in WalletHas -> "done"
      [] OTHER -> IF c \in PrivKeyCallers THEN "error" ELSE "unsigned packet"

\* SignPsbt, DumpPrivateKey: a request may be performed and its answer lost, to
\* the connection or with the node, and is then posted and performed again.
Post ==
    LET c == Head(queue)
    IN  /\ queue # <<>>
        /\ wallet # "hung"
        /\ \/ wallet = "down" /\ Repost /\ UNCHANGED <<wallet, performed>>
           \/ /\ wallet # "down"
              /\ performed' = IF WalletAnswers(c) = "done"
                              THEN performed \cup {c} ELSE performed
              /\ \/ Deliver(WalletAnswers(c)) /\ UNCHANGED wallet
                 \/ Repost /\ wallet' \in {wallet, "down"}
        /\ UNCHANGED <<req, keys, result>>

-----------------------------------------------------------------------------
(* The signers.                                                            *)

ReturnWith(c, o) ==
    /\ pc' = [pc EXCEPT ![c] = "returned"]
    /\ result' = [result EXCEPT ![c] = o]

\* IsSimpleTransfer, then the RPC.
RawSignature(c, r) ==
    /\ pc[c] = "idle"
    /\ req' = [req EXCEPT ![c] = r]
    /\ \/ /\ r \notin SimpleTransfers
          /\ ReturnWith(c, "error")
          /\ UNCHANGED queue
       \/ /\ r \in SimpleTransfers
          /\ queue' = Append(queue, c)
          /\ pc' = [pc EXCEPT ![c] = "waiting"]
          /\ UNCHANGED result
    /\ UNCHANGED <<wallet, tries, reply, keys, performed>>

\* Mutant: a packet that came back is taken to be signed.
ReadPacketUnchecked(c) ==
    /\ pc[c] = "answered" /\ c \notin PrivKeyCallers
    /\ ReturnWith(c, IF reply[c] = "error" THEN "error" ELSE "signature")
    /\ UNCHANGED <<wallet, rpcs, req, keys, performed>>

\* PsbtSigner: the packet holds a signature if the wallet holds the key; bytes
\* that do not parse as a Schnorr signature are an error.
ReadPacket(c) ==
    /\ pc[c] = "answered" /\ c \notin PrivKeyCallers
    /\ \/ reply[c] = "done" /\ ReturnWith(c, "signature")
       \/ ReturnWith(c, "error")
    /\ UNCHANGED <<wallet, rpcs, req, keys, performed>>

\* PrivKeySigner: the key is in memory until the deferred Zero.
TakeKey(c) ==
    /\ pc[c] = "answered" /\ c \in PrivKeyCallers
    /\ \/ reply[c] = "error" /\ ReturnWith(c, "error") /\ UNCHANGED keys
       \/ /\ reply[c] = "done"
          /\ keys' = keys \cup {c}
          /\ pc' = [pc EXCEPT ![c] = "signing"]
          /\ UNCHANGED result
    /\ UNCHANGED <<wallet, rpcs, req, performed>>

\* Mutant: the key is zeroed once it has signed.
SignAndZeroOnSuccess(c) ==
    /\ pc[c] = "signing"
    /\ ReturnWith(c, IF req[c] \in BadLeaf THEN "error" ELSE "signature")
    /\ keys' = IF req[c] \in BadLeaf THEN keys ELSE keys \ {c}
    /\ UNCHANGED <<wallet, rpcs, req, performed>>

SignAndZero(c) ==
    /\ pc[c] = "signing"
    /\ ReturnWith(c, IF req[c] \in BadLeaf THEN "error" ELSE "signature")
    /\ keys' = keys \ {c}
    /\ UNCHANGED <<wallet, rpcs, req, performed>>

\* SignerApp takes the result.
TakeResult(c) ==
    /\ pc[c] = "returned"
    /\ pc' = [pc EXCEPT ![c] = "idle"]
    /\ req' = [req EXCEPT ![c] = NoRequest]
    /\ reply' = [reply EXCEPT ![c] = "none"]
    /\ performed' = performed \ {c}
    /\ UNCHANGED <<wallet, queue, tries, keys, result>>

Proceed(c) == ReadPacket(c) \/ TakeKey(c) \/ SignAndZero(c)

Next ==
    \/ UnlockWallet \/ TimerLocks \/ Stops \/ Starts \/ Hangs
    \/ Post
    \/ \E c \in Callers :
          (\E r \in Requests : RawSignature(c, r)) \/ Proceed(c) \/ TakeResult(c)

Spec == Init /\ [][Next]_vars

\* The client's one goroutine posts on, and every caller runs on.  Nothing is
\* assumed of the node, which may be down or hung for ever.
FairSpec == Spec /\ WF_vars(Post) /\ \A c \in Callers : WF_vars(Proceed(c))

-----------------------------------------------------------------------------
(* Properties.                                                             *)

\* No private key outlives the call that fetched it, on any path out of it, nor
\* is one fetched that the wallet did not part with (btc_priv_key_signer.go:38).
NoKeyLeftBehind ==
    \A c \in Callers :
        c \in keys => pc[c] = "signing" /\ c \in performed /\ req[c] \in WalletHas

\* Both signers do what the interface promises, with answers lost and requests
\* repeated: no signature without the key, none made while the wallet was locked
\* (btc_psbt_signer.go:69-94, btc_priv_key_signer.go:32-53).
Interface ==
    INSTANCE ExternalBtcSigner WITH
        able <- wallet = "unlocked",
        asked <- req,
        signed <- performed,
        result <- [c \in Callers |-> IF pc[c] = "idle" THEN result[c] ELSE "none"],
        Signable <- WalletHas

IsExternalBtcSigner == Interface!Spec

Place(c) == CHOOSE i \in DOMAIN queue : queue[i] = c

\* How long a caller waits is bounded by the callers before it, not by those that
\* come after it nor by what the node does: every post answers it, moves it up,
\* or is one of the MaxTries of the request at the head, and no other step,
\* whoever takes it, moves it back (client.go:63).
WaitIsBounded ==
    [][\A c \in Callers : pc[c] = "waiting" =>
          \/ pc'[c] = "answered"
          \/ /\ pc'[c] = "waiting"
             /\ \/ Place(c)' = Place(c) - 1
                \/ Place(c)' = Place(c) /\ tries' = tries + 1 /\ tries' < MaxTries
                \/ ~Post /\ Place(c)' = Place(c) /\ tries' = tries]_vars

\* All callers wait behind one connection, and each is answered, unless the node
\* takes a request and never answers it: the client has no timeout for that, and
\* everybody waits (client.go:55-69).
OnlyAHungNodeBlocks ==
    \A c \in Callers :
        pc[c] = "waiting" /\ [](wallet # "hung") ~> pc[c] = "returned"

=============================================================================
