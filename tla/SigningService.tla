--------------------------- MODULE SigningService ---------------------------
(***************************************************************************)
(* The HTTP side (signerservice/, observability/metrics/): clients that    *)
(* call RequestCovenantSignaure, the server's middleware, the handler      *)
(* SignUnbonding, its counters and the response on its way back.  What     *)
(* SignerApp answers is nondeterministic here.                             *)
(*                                                                         *)
(* An exchange is one HTTP request.  Its client may give up at any time;   *)
(* the handler does not notice, since SignerApp passes no context to its   *)
(* RPCs, and goes on to sign, count and answer nobody.                     *)
(***************************************************************************)
EXTENDS Integers, FiniteSets

CONSTANTS
    Exchanges,
    MaxReceived  \* bound: no request is sent once this many were received

ASSUME ExchangesAssumption == IsFiniteSet(Exchanges)

ASSUME BoundAssumption == MaxReceived \in Nat

VARIABLES
    phase,      \* of the server process
    client,     \* what each call of RequestCovenantSignaure returned, if it has
    connected,  \* the client's connection is still there to be answered on
    handler,    \* the step each request handler is at
    body,       \* the kind of body the client sent
    response,   \* what the handler answers with
    answer,     \* history: the response the client has read
    outcome,    \* history: what SignerApp returned in this exchange
    received, succeeded, failed,  \* the counters, gone with the process
    internal,   \* history: internal errors since the process started
    delivered   \* history: signatures clients read since the process started

server == <<handler, response, outcome>>
counters == <<received, succeeded, failed, internal, delivered>>
clients == <<client, connected, body, answer>>
vars == <<phase, server, counters, clients>>

\* "slow": still being sent when ReadTimeout expires.
Bodies == {"valid", "undecodable", "slow", "tooLong", "tooLongUndeclared"}
Outcomes == {"signature", "invalid", "internal"}

NoResponse == [status |-> 0, message |-> "none"]

Init ==
    /\ phase = "down"
    /\ client = [e \in Exchanges |-> "idle"]
    /\ connected = [e \in Exchanges |-> FALSE]
    /\ handler = [e \in Exchanges |-> "none"]
    /\ body = [e \in Exchanges |-> "valid"]
    /\ response = [e \in Exchanges |-> NoResponse]
    /\ answer = [e \in Exchanges |-> NoResponse]
    /\ outcome = [e \in Exchanges |-> "none"]
    /\ received = 0 /\ succeeded = 0 /\ failed = 0
    /\ internal = 0 /\ delivered = 0

-----------------------------------------------------------------------------
(* The process.  The start command never calls Stop: it ends by being      *)
(* killed, or by log.Fatal when the metrics server cannot listen.          *)

Start ==
    /\ phase = "down"
    /\ phase' = "up"
    /\ received' = 0 /\ succeeded' = 0 /\ failed' = 0
    /\ internal' = 0 /\ delivered' = 0
    /\ UNCHANGED <<server, clients>>

Crash ==
    /\ phase # "down"
    /\ phase' = "down"
    /\ handler' = [e \in Exchanges |-> "none"]
    /\ response' = [e \in Exchanges |-> NoResponse]
    /\ connected' = [e \in Exchanges |-> FALSE]
    /\ UNCHANGED <<counters, client, body, answer, outcome>>

\* Shutdown: no new connections, handlers run to their end.
Stop ==
    /\ phase = "up"
    /\ phase' = "draining"
    /\ UNCHANGED <<server, counters, clients>>

\* Mutant: Shutdown does not wait for the handlers.
DrainedEarly ==
    /\ phase = "draining"
    /\ phase' = "down"
    /\ UNCHANGED <<server, counters, clients>>

Drained ==
    /\ phase = "draining"
    /\ \A e \in Exchanges : handler[e] = "none"
    /\ phase' = "down"
    /\ UNCHANGED <<server, counters, clients>>

-----------------------------------------------------------------------------
(* The client: one call of RequestCovenantSignaure.                        *)

\* client.Do: the connection is made, or refused.
Send(e, b) ==
    /\ client[e] = "idle"
    /\ handler[e] = "none"
    /\ received < MaxReceived
    /\ \/ /\ phase = "up"
          /\ client' = [client EXCEPT ![e] = "waiting"]
          /\ connected' = [connected EXCEPT ![e] = TRUE]
          /\ body' = [body EXCEPT ![e] = b]
          /\ handler' = [handler EXCEPT ![e] = "accepted"]
          /\ outcome' = [outcome EXCEPT ![e] = "none"]
       \/ /\ phase # "up"
          /\ client' = [client EXCEPT ![e] = "error"]
          /\ UNCHANGED <<connected, body, handler, outcome>>
    /\ UNCHANGED <<phase, response, answer, counters>>

\* http.Client.Timeout, or the caller's context.
TimeOut(e) ==
    /\ client[e] = "waiting"
    /\ client' = [client EXCEPT ![e] = "error"]
    /\ connected' = [connected EXCEPT ![e] = FALSE]
    /\ UNCHANGED <<phase, server, counters, body, answer>>

\* The connection was cut: the process died or WriteTimeout passed.
SeeDisconnect(e) ==
    /\ client[e] = "waiting"
    /\ ~connected[e]
    /\ client' = [client EXCEPT ![e] = "error"]
    /\ UNCHANGED <<phase, server, counters, connected, body, answer>>

ClientResult(res) == IF res.status = 200 THEN "signature" ELSE "error"

\* The caller takes the result; it may call again (Send), a retry.
TakeResult(e) ==
    /\ client[e] \in {"signature", "error"}
    /\ client' = [client EXCEPT ![e] = "idle"]
    /\ connected' = [connected EXCEPT ![e] = FALSE]
    /\ answer' = [answer EXCEPT ![e] = NoResponse]
    /\ UNCHANGED <<phase, server, counters, body>>

-----------------------------------------------------------------------------
(* The server.                                                             *)

Answer(e, res) ==
    /\ handler' = [handler EXCEPT ![e] = "answering"]
    /\ response' = [response EXCEPT ![e] = res]

KnownStatuses == {200, 400, 413, 500}  \* http.StatusText knows more

\* A handler that names no status means 500.
NewError(status, text) ==
    [status |-> IF status = 0 THEN 500 ELSE status, text |-> text]

\* Mutant: > for >=.
ErrorResponseLeaks(err) ==
    [status |-> err.status, message |-> IF err.status > 500 THEN "generic" ELSE err.text]

\* registerHandler: an error becomes a response, and what went wrong inside is
\* kept from the client.
ErrorResponse(err) ==
    LET status == IF err.status \in KnownStatuses THEN err.status ELSE 500
    IN  [status |-> status,
         message |-> IF status >= 500 THEN "generic" ELSE err.text]

\* ContentLengthMiddleware, for a length declared in the header.
RejectTooLong(e) ==
    /\ handler[e] = "accepted"
    /\ body[e] = "tooLong"
    /\ Answer(e, [status |-> 413, message |-> "generic"])
    /\ UNCHANGED <<phase, outcome, counters, clients>>

\* Mutant: the server has no ReadTimeout.
RejectBodyNeverSlow(e) ==
    /\ handler[e] = "accepted"
    /\ body[e] \in {"undecodable", "tooLongUndeclared"}
    /\ Answer(e, ErrorResponse(NewError(400, "malformed")))
    /\ UNCHANGED <<phase, outcome, counters, clients>>

\* Everything else that is wrong with the body shows while it is decoded, the
\* MaxBytesReader cutting off an undeclared length included.
RejectBody(e) ==
    /\ handler[e] = "accepted"
    /\ body[e] \in {"undecodable", "slow", "tooLongUndeclared"}
    /\ Answer(e, ErrorResponse(NewError(400, "malformed")))
    /\ UNCHANGED <<phase, outcome, counters, clients>>

Decode(e) ==
    /\ handler[e] = "accepted"
    /\ body[e] = "valid"
    /\ received' = received + 1
    /\ handler' = [handler EXCEPT ![e] = "signing"]
    /\ UNCHANGED <<phase, response, outcome, succeeded, failed, internal,
                   delivered, clients>>

\* Mutant: only internal errors are counted.
SignUnbondingUncounted(e, o) ==
    /\ handler[e] = "signing"
    /\ outcome' = [outcome EXCEPT ![e] = o]
    /\ failed' = failed + (IF o = "internal" THEN 1 ELSE 0)
    /\ internal' = internal + (IF o = "internal" THEN 1 ELSE 0)
    /\ Answer(e, CASE o = "signature" -> [status |-> 200, message |-> "signature"]
                   [] o = "invalid" -> ErrorResponse(NewError(400, "reason"))
                   [] o = "internal" -> ErrorResponse(NewError(500, "reason")))
    /\ UNCHANGED <<phase, received, succeeded, delivered, clients>>

\* SignUnbondingTransaction returns o.  NewErrorWithMsg gives an internal error
\* its text as message.
SignUnbonding(e, o) ==
    /\ handler[e] = "signing"
    /\ outcome' = [outcome EXCEPT ![e] = o]
    /\ \/ /\ o = "signature"
          /\ succeeded' = succeeded + 1
          /\ Answer(e, [status |-> 200, message |-> "signature"])
          /\ UNCHANGED <<failed, internal>>
       \/ /\ o = "invalid"
          /\ failed' = failed + 1
          /\ Answer(e, ErrorResponse(NewError(400, "reason")))
          /\ UNCHANGED <<succeeded, internal>>
       \/ /\ o = "internal"
          /\ failed' = failed + 1
          /\ internal' = internal + 1
          /\ Answer(e, ErrorResponse(NewError(500, "reason")))
          /\ UNCHANGED succeeded
    /\ UNCHANGED <<phase, received, delivered, clients>>

\* writeResponse.  A failed write is only logged, and the handler is done.
WriteResponse(e) ==
    /\ handler[e] = "answering"
    /\ handler' = [handler EXCEPT ![e] = "none"]
    /\ response' = [response EXCEPT ![e] = NoResponse]
    /\ \/ /\ connected[e]
          /\ client' = [client EXCEPT ![e] = ClientResult(response[e])]
          /\ answer' = [answer EXCEPT ![e] = response[e]]
          /\ delivered' = delivered + (IF response[e].status = 200 THEN 1 ELSE 0)
          /\ UNCHANGED connected
       \/ /\ connected' = [connected EXCEPT ![e] = FALSE]
          /\ UNCHANGED <<client, answer, delivered>>
    /\ UNCHANGED <<phase, body, outcome, received, succeeded, failed, internal>>

Serve(e) ==
    \/ RejectTooLong(e) \/ RejectBody(e) \/ Decode(e)
    \/ \E o \in Outcomes : SignUnbonding(e, o)
    \/ WriteResponse(e)

Next ==
    \/ Start \/ Crash \/ Stop \/ Drained
    \/ \E e \in Exchanges :
          \/ \E b \in Bodies : Send(e, b)
          \/ TimeOut(e) \/ SeeDisconnect(e) \/ TakeResult(e)
          \/ Serve(e)

Spec == Init /\ [][Next]_vars

\* A handler runs on, SignerApp returning (SignerApp!EveryCallReturns), and a
\* client notices a connection that was cut.  Shutdown polls until no handler is
\* left.  Nothing is assumed of timeouts: a client may be without.
FairSpec ==
    /\ Spec
    /\ \A e \in Exchanges : WF_vars(Serve(e)) /\ WF_vars(SeeDisconnect(e))
    /\ WF_vars(Drained)

-----------------------------------------------------------------------------
(* Properties.                                                             *)

Phases == {"up", "draining", "down"}
Messages == {"none", "signature", "malformed", "reason", "generic"}
Responses == [status : KnownStatuses \cup {0}, message : Messages]

\* Every variable has its type, and a process that is down runs no handler.
TypeOK ==
    /\ phase \in Phases
    /\ client \in [Exchanges -> {"idle", "waiting", "signature", "error"}]
    /\ connected \in [Exchanges -> BOOLEAN]
    /\ handler \in [Exchanges -> {"none", "accepted", "signing", "answering"}]
    /\ body \in [Exchanges -> Bodies]
    /\ response \in [Exchanges -> Responses]
    /\ answer \in [Exchanges -> Responses]
    /\ outcome \in [Exchanges -> Outcomes \cup {"none"}]
    /\ \A n \in {received, succeeded, failed, internal, delivered} : n \in Nat
    /\ phase = "down" => \A e \in Exchanges : handler[e] = "none"

At(step) == {e \in Exchanges : handler[e] = step}

\* Every request that was counted in is counted out exactly once, as soon as
\* SignerApp returns, whether its client is still there or not
\* (sign_unbonding.go:63-88); what is missing is what is being signed.
CountersBalance ==
    phase # "down" => received = succeeded + failed + Cardinality(At("signing"))

\* A signature a client reads was counted before it was written, so the counter
\* never lags behind what clients hold; it runs ahead by what is in flight or
\* was lost (sign_unbonding.go:88, http_response.go:83).
SuccessIsCountedFirst ==
    phase # "down" =>
        delivered + Cardinality({e \in At("answering") : response[e].status = 200})
            <= succeeded

\* The status a client reads tells what SignerApp returned, and the text of an
\* internal error stays inside (sign_unbonding.go:76-81, http_response.go:46).
StatusTellsTheOutcome ==
    \A e \in Exchanges :
        /\ answer[e].status = 200 <=> answer[e] # NoResponse /\ outcome[e] = "signature"
        /\ answer[e].status = 500 <=> answer[e] # NoResponse /\ outcome[e] = "internal"
        /\ answer[e].message = "reason" => outcome[e] = "invalid"
        /\ client[e] = "signature" => answer[e].status = 200

\* Without a timeout of its own a client still gets an answer or an error,
\* whatever becomes of the process (client.go:27-101).
EveryClientIsAnswered ==
    \A e \in Exchanges : client[e] = "waiting" ~> client[e] # "waiting"

\* A shutdown that is not cut short comes to its end (server.go:71).
ShutdownEnds == phase = "draining" ~> phase = "down"

\* observability/metrics/signer.go:31: failed counts internal errors.  It also
\* counts the requests that were refused as invalid.
FailedMeansInternal == phase # "down" => failed = internal

=============================================================================
