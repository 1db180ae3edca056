--------------------------- MODULE CovenantSigner ---------------------------
(***************************************************************************)
(* The whole signer: clients and HTTP handlers (SigningService) around     *)
(* SignerApp, its nodes and its wallet, in one process that may be killed  *)
(* and started again.  A handler is the process of SignerApp of the same   *)
(* name: it enters SignUnbondingTransaction as it has decoded the body,    *)
(* and takes what that returns.  The start command never calls Stop, so    *)
(* the process does not drain.                                             *)
(***************************************************************************)
EXTENDS SignerApp

CONSTANT MaxReceived  \* bound: of SigningService

ASSUME ClientsAssumption == IsFiniteSet(Procs) /\ MaxReceived \in Nat

VARIABLES
    \* of SigningService, where outcome is told
    phase, client, connected, handler, body, response, answer, told,
    received, succeeded, failed, internal, delivered,
    asks,     \* the request in the body each client sends
    payload,  \* the signature in each response
    holds,    \* the signature each client has read
    made,     \* history: what the wallet signed since the process started
    lost      \* history: how often its answer was lost

Service == INSTANCE SigningService WITH Exchanges <- Procs, outcome <- told

service == <<phase, client, connected, handler, body, response, answer, told,
             received, succeeded, failed, internal, delivered>>
bodies == <<asks, payload, holds>>
tallies == <<made, lost>>
all == <<vars, service, bodies, tallies>>

NoSignature == [none |-> TRUE]

SInit ==
    /\ Init
    /\ Service!Init
    /\ asks = [p \in Procs |-> NoRequest]
    /\ payload = [p \in Procs |-> NoSignature]
    /\ holds = [p \in Procs |-> NoSignature]
    /\ made = 0 /\ lost = 0

-----------------------------------------------------------------------------
(* The process.                                                            *)

StartProcess ==
    /\ Restart /\ Service!Start
    /\ made' = 0 /\ lost' = 0
    /\ UNCHANGED bodies

KillProcess ==
    /\ Crash /\ Service!Crash
    /\ payload' = [p \in Procs |-> NoSignature]
    /\ UNCHANGED <<asks, holds, tallies>>

-----------------------------------------------------------------------------
(* Clients.                                                                *)

SendRequest(p, b, r) ==
    /\ Service!Send(p, b)
    /\ asks' = [asks EXCEPT ![p] = IF b = "valid" THEN r ELSE NoRequest]
    /\ UNCHANGED <<vars, payload, holds, tallies>>

GiveUp(p) ==
    /\ Service!TimeOut(p)
    /\ UNCHANGED <<vars, bodies, tallies>>

SeeDisconnect(p) ==
    /\ Service!SeeDisconnect(p)
    /\ UNCHANGED <<vars, bodies, tallies>>

Leave(p) ==
    /\ Service!TakeResult(p)
    /\ holds' = [holds EXCEPT ![p] = NoSignature]
    /\ UNCHANGED <<vars, asks, payload, tallies>>

-----------------------------------------------------------------------------
(* Handlers.                                                               *)

Refuse(p) ==
    /\ Service!RejectTooLong(p) \/ Service!RejectBody(p)
    /\ UNCHANGED <<vars, bodies, tallies>>

\* Mutant: a field of the last request decoded survives in the next.
EnterMixed(p) ==
    /\ Service!Decode(p)
    /\ \E q \in Procs : SignUnbondingTransaction(p, asks[q])
    /\ UNCHANGED <<bodies, tallies>>

Enter(p) ==
    /\ Service!Decode(p)
    /\ SignUnbondingTransaction(p, asks[p])
    /\ UNCHANGED <<bodies, tallies>>

Work(p) ==
    /\ \/ TxByHash(p) \/ BestBlockHeight(p)
    /\ UNCHANGED <<service, bodies, tallies>>

AskWallet(p) ==
    /\ RawSignature(p)
    /\ made' = made + (IF WalletSigns(req[p]) THEN 1 ELSE 0)
    /\ lost' = lost + (IF WalletSigns(req[p]) /\ outcome'[p] # "signature" THEN 1 ELSE 0)
    /\ UNCHANGED <<service, bodies>>

\* Mutant: a handler whose client has left is abandoned.
LeavesUnlessGone(p) ==
    /\ Return(p)
    /\ \/ connected[p] /\ Service!SignUnbonding(p, outcome[p])
       \/ /\ ~connected[p]
          /\ handler' = [handler EXCEPT ![p] = "none"]
          /\ UNCHANGED <<phase, client, connected, body, response, answer, told,
                         received, succeeded, failed, internal, delivered>>
    /\ UNCHANGED <<bodies, tallies>>

Leaves(p) ==
    /\ Return(p)
    /\ Service!SignUnbonding(p, outcome[p])
    /\ payload' = [payload EXCEPT ![p] =
          IF outcome[p] = "signature" THEN CovenantSignature(req[p], height[p])
          ELSE NoSignature]
    /\ UNCHANGED <<asks, holds, tallies>>

Respond(p) ==
    /\ Service!WriteResponse(p)
    /\ holds' = [holds EXCEPT ![p] =
          IF client'[p] = "signature" THEN payload[p] ELSE @]
    /\ payload' = [payload EXCEPT ![p] = NoSignature]
    /\ UNCHANGED <<vars, asks, tallies>>

HandlerOf(p) ==
    Refuse(p) \/ Enter(p) \/ Work(p) \/ AskWallet(p) \/ Leaves(p) \/ Respond(p)

World ==
    /\ \/ \E S \in SUBSET TxHash : Connect(S)
       \/ Disconnect \/ NodeStops \/ NodeStarts \/ WalletLocks \/ WalletUnlocks
    /\ UNCHANGED <<service, bodies, tallies>>

SNext ==
    \/ StartProcess \/ KillProcess \/ World
    \/ \E p \in Procs :
          \/ \E b \in Service!Bodies, r \in Requests : SendRequest(p, b, r)
          \/ GiveUp(p) \/ SeeDisconnect(p) \/ Leave(p) \/ HandlerOf(p)

SSpec == SInit /\ [][SNext]_all

\* What the process does without an RPC.
Runs(p) == Refuse(p) \/ Enter(p) \/ Leaves(p) \/ Respond(p)

\* Handlers run on between their RPCs, clients notice a connection that was cut.
\* That the RPCs return is left to the properties (RpcsReturn).
FairSSpec == SSpec /\ \A p \in Procs : WF_all(Runs(p)) /\ WF_all(SeeDisconnect(p))

-----------------------------------------------------------------------------
(* Properties.                                                             *)

\* A client that reads a signature reads one the wallet made for the request of
\* this client, whatever handlers, retries, timeouts and restarts ran between;
\* answers are not mixed between concurrent exchanges (sign_unbonding.go:25-91,
\* client.go:27-101).
ReadsItsOwnSignature ==
    \A p \in Procs : client[p] = "signature" =>
        \E s \in signed : s.req = asks[p] /\ s.sig = holds[p]

\* Every signature the wallet made for this process is counted as a success, is
\* about to be, or was lost on its way from the wallet: no other path out of a
\* handler drops one, a client that left included (signer.go:275-291,
\* sign_unbonding.go:65-88).
SigningsAreCounted ==
    phase = "up" =>
        made = succeeded + lost +
            Cardinality({p \in Procs : pc[p] = "returned" /\ outcome[p] = "signature"})

\* A client whose good request was decoded reads a signature if the RPCs made for
\* it return, unless it gives up or is cut off first: it never reads an error.
GoodClientsAreServed ==
    \A p \in Procs, r \in Requests :
        RpcsReturn(p) =>
            ((handler[p] = "signing" /\ pc[p] = "txByHash" /\ req[p] = r
                /\ client[p] = "waiting" /\ connected[p] /\ []Good(r))
            ~> (client[p] = "signature"
                  \/ (client[p] # "waiting" /\ answer[p] = Service!NoResponse)))

=============================================================================
