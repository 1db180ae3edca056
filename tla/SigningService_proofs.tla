------------------------- MODULE SigningService_proofs -------------------------
(***************************************************************************)
(* Theorems about SigningService, for any number of exchanges and of       *)
(* requests.                                                               *)
(***************************************************************************)
EXTENDS SigningService, FiniteSetTheorems, TLAPS

USE DEF Bodies, Outcomes, Phases

LEMMA ErrorResponseType ==
    ASSUME NEW status \in {400, 500}, NEW text \in Messages
    PROVE  /\ ErrorResponse(NewError(status, text)) \in Responses
           /\ ErrorResponse(NewError(status, text)).status = status
           /\ ErrorResponse(NewError(status, text)).message =
                 IF status = 500 THEN "generic" ELSE text
BY DEF ErrorResponse, NewError, Responses, KnownStatuses, Messages

LEMMA PlainResponses ==
    /\ NoResponse \in Responses
    /\ [status |-> 413, message |-> "generic"] \in Responses
    /\ [status |-> 200, message |-> "signature"] \in Responses
    /\ "malformed" \in Messages /\ "reason" \in Messages
BY DEF NoResponse, Responses, KnownStatuses, Messages

LEMMA ConnectedType ==
    ASSUME connected \in [Exchanges -> BOOLEAN], [Next]_vars
    PROVE  connected' \in [Exchanges -> BOOLEAN]
<1>1. ASSUME NEW e \in Exchanges, NEW b \in BOOLEAN,
             connected' = [connected EXCEPT ![e] = b]
      PROVE  connected' \in [Exchanges -> BOOLEAN]
  BY <1>1, Zenon
<1>2. CASE UNCHANGED connected
  BY <1>2
<1>3. ASSUME Crash
      PROVE  connected' \in [Exchanges -> BOOLEAN]
  BY <1>3, Zenon DEF Crash
<1>4. \/ UNCHANGED connected \/ Crash
      \/ \E e \in Exchanges, b \in BOOLEAN : connected' = [connected EXCEPT ![e] = b]
  BY DEF Next, Serve, vars, clients, Start, Stop, Drained, Send, TimeOut,
         SeeDisconnect, TakeResult, RejectTooLong, RejectBody, Decode,
         SignUnbonding, WriteResponse
<1> QED
  BY <1>1, <1>2, <1>3, <1>4

-----------------------------------------------------------------------------
(* Types.                                                                  *)

\* Every variable keeps its type, and a process that is down, by a crash or at
\* the end of a shutdown, leaves no handler behind.
THEOREM TypeCorrect == Spec => []TypeOK
<1>1. Init => TypeOK
  <2> SUFFICES ASSUME Init PROVE TypeOK
    OBVIOUS
  <2>1. connected \in [Exchanges -> BOOLEAN]
    BY Zenon DEF Init
  <2> QED
    BY <2>1, PlainResponses DEF Init, TypeOK
<1>2. TypeOK /\ [Next]_vars => TypeOK'
  <2> SUFFICES ASSUME TypeOK, [Next]_vars
               PROVE  TypeOK'
    OBVIOUS
  <2> DEFINE Clients ==
        /\ client \in [Exchanges -> {"idle", "waiting", "signature", "error"}]
        /\ body \in [Exchanges -> Bodies] /\ answer \in [Exchanges -> Responses]
  <2> DEFINE Server ==
        /\ phase \in Phases
        /\ handler \in [Exchanges -> {"none", "accepted", "signing", "answering"}]
        /\ response \in [Exchanges -> Responses]
        /\ outcome \in [Exchanges -> Outcomes \cup {"none"}]
        /\ phase = "down" => \A e \in Exchanges : handler[e] = "none"
  <2> DEFINE Counters ==
        \A n \in {received, succeeded, failed, internal, delivered} : n \in Nat
  <2>1. connected' \in [Exchanges -> BOOLEAN]
    BY ConnectedType DEF TypeOK
  <2>2. Clients /\ Server /\ Counters
    BY DEF TypeOK
  <2>3. Clients'
    BY <2>2, PlainResponses DEF Next, Serve, vars, server, clients, Start, Crash, Stop, Drained, Send, TimeOut,
         SeeDisconnect, TakeResult, RejectTooLong, RejectBody, Decode,
         SignUnbonding, WriteResponse, ClientResult
  <2>4. Counters'
    BY <2>2 DEF Next, Serve, vars, counters, Start, Crash, Stop, Drained, Send, TimeOut,
         SeeDisconnect, TakeResult, RejectTooLong, RejectBody, Decode,
         SignUnbonding, WriteResponse
  <2>5. Server'
    <3> USE <2>2, PlainResponses DEF server, Answer
    <3>1. CASE Start \/ Stop \/ Drained \/ Crash
      BY <3>1 DEF Start, Stop, Drained, Crash
    <3>2. ASSUME NEW e \in Exchanges,
                 \/ \E b \in Bodies : Send(e, b)
                 \/ TimeOut(e) \/ SeeDisconnect(e) \/ TakeResult(e)
          PROVE  Server'
      BY <3>2 DEF Send, TimeOut, SeeDisconnect, TakeResult
    <3>3. ASSUME NEW e \in Exchanges, RejectTooLong(e) \/ RejectBody(e)
          PROVE  Server'
      BY <3>3, ErrorResponseType, PlainResponses DEF RejectTooLong, RejectBody
    <3>4. ASSUME NEW e \in Exchanges, Decode(e) \/ WriteResponse(e)
          PROVE  Server'
      BY <3>4 DEF Decode, WriteResponse
    <3>5. ASSUME NEW e \in Exchanges, NEW o \in Outcomes, SignUnbonding(e, o)
          PROVE  Server'
      BY <3>5, ErrorResponseType, PlainResponses DEF SignUnbonding
    <3>6. CASE UNCHANGED vars
      BY <3>6 DEF vars
    <3> QED
      BY <3>1, <3>2, <3>3, <3>4, <3>5, <3>6 DEF Next, Serve
  <2> QED
    BY <2>1, <2>3, <2>4, <2>5 DEF TypeOK
<1> QED
  BY <1>1, <1>2, PTL DEF Spec

-----------------------------------------------------------------------------
(* The status tells the outcome.                                           *)

\* A response tells what SignerApp returned, o.
Tells(res, o) ==
    /\ res.status = 200 <=> o = "signature"
    /\ res.status = 500 <=> o = "internal"
    /\ res.message = "reason" => o = "invalid"
    /\ res # NoResponse

\* An exchange has one outcome from its request to the next one: a handler whose
\* client has left holds on to it, and a client keeps what it read.
OneOutcome ==
    \A e \in Exchanges :
        /\ handler[e] \in {"accepted", "signing"} => outcome[e] = "none"
        /\ handler[e] = "answering" => Tells(response[e], outcome[e])
        /\ answer[e] # NoResponse =>
              /\ Tells(answer[e], outcome[e])
              /\ handler[e] = "none"
              /\ client[e] \in {"signature", "error"}
        /\ client[e] = "signature" => answer[e].status = 200

LEMMA ErrorsTell ==
    /\ Tells(ErrorResponse(NewError(400, "malformed")), "none")
    /\ Tells(ErrorResponse(NewError(400, "reason")), "invalid")
    /\ Tells(ErrorResponse(NewError(500, "reason")), "internal")
    /\ Tells([status |-> 413, message |-> "generic"], "none")
    /\ Tells([status |-> 200, message |-> "signature"], "signature")
BY DEF Tells, ErrorResponse, NewError, KnownStatuses, NoResponse

\* Whoever times out, dies or retries meanwhile, a client reads the status of
\* its own outcome, and no text of an internal error.
THEOREM StatusIsTrue == Spec => []StatusTellsTheOutcome
<1>1. Init => OneOutcome
  BY DEF Init, OneOutcome
<1>2. TypeOK /\ OneOutcome /\ [Next]_vars => OneOutcome'
  <2> SUFFICES ASSUME TypeOK, OneOutcome, [Next]_vars, NEW f \in Exchanges
               PROVE  /\ handler'[f] \in {"accepted", "signing"} => outcome'[f] = "none"
                      /\ handler'[f] = "answering" => Tells(response'[f], outcome'[f])
                      /\ answer'[f] # NoResponse =>
                            /\ Tells(answer'[f], outcome'[f])
                            /\ handler'[f] = "none"
                            /\ client'[f] \in {"signature", "error"}
                      /\ client'[f] = "signature" => answer'[f].status = 200
    BY DEF OneOutcome
  <2> USE DEF server, clients
  <2>1. CASE Start \/ Stop \/ Drained \/ Crash
    BY <2>1 DEF Start, Stop, Drained, Crash, TypeOK, OneOutcome
  <2>2. ASSUME NEW e \in Exchanges, NEW b \in Bodies, Send(e, b)
        PROVE  OneOutcome'
    BY <2>2 DEF Send, TypeOK, OneOutcome
  <2>3. ASSUME NEW e \in Exchanges, TimeOut(e) \/ SeeDisconnect(e) \/ TakeResult(e)
        PROVE  OneOutcome'
    BY <2>3 DEF TimeOut, SeeDisconnect, TakeResult, TypeOK, OneOutcome
  <2>4. ASSUME NEW e \in Exchanges, RejectTooLong(e) \/ RejectBody(e)
        PROVE  OneOutcome'
    BY <2>4, ErrorsTell DEF RejectTooLong, RejectBody, Answer, TypeOK, OneOutcome
  <2>5. ASSUME NEW e \in Exchanges, Decode(e)
        PROVE  OneOutcome'
    BY <2>5 DEF Decode, TypeOK, OneOutcome
  <2>6. ASSUME NEW e \in Exchanges, NEW o \in Outcomes, SignUnbonding(e, o)
        PROVE  OneOutcome'
    BY <2>6, ErrorsTell DEF SignUnbonding, Answer, TypeOK, OneOutcome
  <2>7. ASSUME NEW e \in Exchanges, WriteResponse(e)
        PROVE  OneOutcome'
    BY <2>7 DEF WriteResponse, ClientResult, TypeOK, OneOutcome
  <2>8. CASE UNCHANGED vars
    BY <2>8 DEF vars, OneOutcome
  <2> QED
    BY <2>1, <2>2, <2>3, <2>4, <2>5, <2>6, <2>7, <2>8 DEF Next, Serve, OneOutcome
<1>3. OneOutcome => StatusTellsTheOutcome
  BY DEF OneOutcome, StatusTellsTheOutcome, Tells, NoResponse
<1> QED
  BY <1>1, <1>2, <1>3, TypeCorrect, PTL DEF Spec

-----------------------------------------------------------------------------
(* The counters.                                                           *)

LEMMA AtIsFinite ==
    ASSUME NEW S \in SUBSET Exchanges
    PROVE  IsFiniteSet(S) /\ Cardinality(S) \in Nat
BY ExchangesAssumption, FS_Subset, FS_CardinalityType

\* One element more or less.
LEMMA OneMore ==
    ASSUME NEW S \in SUBSET Exchanges, NEW e \in Exchanges
    PROVE  /\ e \notin S => Cardinality(S \cup {e}) = Cardinality(S) + 1
           /\ e \in S => Cardinality(S \ {e}) = Cardinality(S) - 1
BY AtIsFinite, FS_AddElement, FS_RemoveElement

\* Handlers that write a signature.
Delivering == {e \in Exchanges : handler[e] = "answering" /\ response[e].status = 200}

\* How a step changes the two sets the counters are compared with.
LEMMA HandlersMove ==
    ASSUME TypeOK, NEW e \in Exchanges
    PROVE  /\ Decode(e) => /\ e \notin At("signing")
                           /\ At("signing")' = At("signing") \cup {e}
                           /\ Delivering' = Delivering
           /\ \A o \in Outcomes : SignUnbonding(e, o) =>
                 /\ e \in At("signing") /\ e \notin Delivering
                 /\ At("signing")' = At("signing") \ {e}
                 /\ Delivering' = IF o = "signature" THEN Delivering \cup {e}
                                  ELSE Delivering
           /\ WriteResponse(e) =>
                 /\ At("signing")' = At("signing")
                 /\ e \in Delivering <=> response[e].status = 200
                 /\ Delivering' = Delivering \ {e}
           /\ RejectTooLong(e) \/ RejectBody(e) =>
                 At("signing")' = At("signing") /\ Delivering' = Delivering
           /\ \A b \in Bodies : Send(e, b) =>
                 At("signing")' = At("signing") /\ Delivering' = Delivering
<1>1. ASSUME Decode(e)
      PROVE  /\ e \notin At("signing")
             /\ At("signing")' = At("signing") \cup {e}
             /\ Delivering' = Delivering
  BY <1>1 DEF Decode, At, Delivering, TypeOK
<1>2. ASSUME NEW o \in Outcomes, SignUnbonding(e, o)
      PROVE  /\ e \in At("signing") /\ e \notin Delivering
             /\ At("signing")' = At("signing") \ {e}
             /\ Delivering' = IF o = "signature" THEN Delivering \cup {e} ELSE Delivering
  <2>1. /\ handler' = [handler EXCEPT ![e] = "answering"]
        /\ \A d \in Exchanges : d # e => response'[d] = response[d]
        /\ response'[e].status = 200 <=> o = "signature"
    BY <1>2, ErrorsTell DEF SignUnbonding, Answer, Tells, TypeOK
  <2> QED
    BY <1>2, <2>1 DEF SignUnbonding, At, Delivering, TypeOK
<1>3. ASSUME WriteResponse(e)
      PROVE  /\ At("signing")' = At("signing")
             /\ e \in Delivering <=> response[e].status = 200
             /\ Delivering' = Delivering \ {e}
  BY <1>3 DEF WriteResponse, At, Delivering, TypeOK
<1>4. ASSUME RejectTooLong(e) \/ RejectBody(e)
      PROVE  At("signing")' = At("signing") /\ Delivering' = Delivering
  <2>1. /\ handler' = [handler EXCEPT ![e] = "answering"] /\ handler[e] = "accepted"
        /\ \A d \in Exchanges : d # e => response'[d] = response[d]
        /\ response'[e].status # 200
    BY <1>4, ErrorsTell DEF RejectTooLong, RejectBody, Answer, Tells, TypeOK
  <2> QED
    BY <2>1 DEF At, Delivering, TypeOK
<1>5. ASSUME NEW b \in Bodies, Send(e, b)
      PROVE  At("signing")' = At("signing") /\ Delivering' = Delivering
  BY <1>5 DEF Send, At, Delivering, TypeOK
<1> QED
  BY <1>1, <1>2, <1>3, <1>4, <1>5

\* Both facts about the counters, for a process that runs.
Counted ==
    phase # "down" =>
        /\ received = succeeded + failed + Cardinality(At("signing"))
        /\ delivered + Cardinality(Delivering) <= succeeded

\* No timeout, cut connection or early end of a handler loses a count or makes
\* one twice, with any number of handlers between their reads and their writes.
LEMMA CountedAlways == Spec => []Counted
<1>1. Init => Counted
  BY DEF Init, Counted
<1>2. TypeOK /\ Counted /\ [Next]_vars => Counted'
  <2> SUFFICES ASSUME TypeOK, Counted, [Next]_vars
               PROVE  Counted'
    OBVIOUS
  <2>1. At("signing") \in SUBSET Exchanges /\ Delivering \in SUBSET Exchanges
    BY DEF At, Delivering
  <2>2. /\ Cardinality(At("signing")) \in Nat /\ Cardinality(Delivering) \in Nat
        /\ \A n \in {received, succeeded, failed, delivered} : n \in Nat
    BY <2>1, AtIsFinite DEF TypeOK
  <2> USE DEF Counted
  <2>3. CASE Start
    <3>1. At("signing")' = {} /\ Delivering' = {}
      BY <2>3 DEF Start, At, Delivering, TypeOK, server
    <3>2. received' = 0 /\ succeeded' = 0 /\ failed' = 0 /\ delivered' = 0
      BY <2>3 DEF Start
    <3> QED
      BY <3>1, <3>2, FS_EmptySet
  <2>4. CASE Crash \/ Drained
    BY <2>4 DEF Crash, Drained
  <2>5. ASSUME NEW e \in Exchanges, Decode(e)
        PROVE  Counted'
    <3>1. phase # "down" /\ phase' = phase
      BY <2>5 DEF Decode, TypeOK
    <3>2. Cardinality(At("signing")') = Cardinality(At("signing")) + 1
      BY <2>1, <2>5, HandlersMove, OneMore
    <3>3. Delivering' = Delivering
      BY <2>5, HandlersMove
    <3> QED
      BY <2>2, <2>5, <3>1, <3>2, <3>3 DEF Decode
  <2>6. ASSUME NEW e \in Exchanges, NEW o \in Outcomes, SignUnbonding(e, o)
        PROVE  Counted'
    <3>1. phase # "down" /\ phase' = phase
      BY <2>6 DEF SignUnbonding, TypeOK
    <3>2. Cardinality(At("signing")') = Cardinality(At("signing")) - 1
      BY <2>1, <2>6, HandlersMove, OneMore
    <3>3. Cardinality(Delivering') = Cardinality(Delivering) +
             (IF o = "signature" THEN 1 ELSE 0)
      BY <2>1, <2>2, <2>6, HandlersMove, OneMore
    <3>4. received' = received /\ delivered' = delivered
      BY <2>6 DEF SignUnbonding
    <3>5. IF o = "signature" THEN succeeded' = succeeded + 1 /\ failed' = failed
          ELSE succeeded' = succeeded /\ failed' = failed + 1
      BY <2>6 DEF SignUnbonding
    <3> QED
      BY <2>2, <3>1, <3>2, <3>3, <3>4, <3>5
  <2>7. ASSUME NEW e \in Exchanges, WriteResponse(e)
        PROVE  Counted'
    <3>1. phase # "down" /\ phase' = phase
      BY <2>7 DEF WriteResponse, TypeOK
    <3>2. At("signing")' = At("signing")
      BY <2>7, HandlersMove
    <3>3. Cardinality(Delivering') =
             Cardinality(Delivering) - (IF response[e].status = 200 THEN 1 ELSE 0)
      <4>1. CASE e \in Delivering
        BY <2>1, <2>2, <2>7, <4>1, HandlersMove, OneMore
      <4>2. CASE e \notin Delivering
        <5>1. Delivering' = Delivering
          BY <2>7, <4>2, HandlersMove
        <5> QED
          BY <2>2, <2>7, <4>2, <5>1, HandlersMove
      <4> QED
        BY <4>1, <4>2
    <3>4. /\ received' = received /\ succeeded' = succeeded /\ failed' = failed
          /\ \/ delivered' = delivered + (IF response[e].status = 200 THEN 1 ELSE 0)
             \/ delivered' = delivered
      BY <2>7 DEF WriteResponse
    <3> QED
      BY <2>2, <3>1, <3>2, <3>3, <3>4
  <2>8. ASSUME /\ UNCHANGED <<phase, counters>> \/ Stop
               /\ At("signing")' = At("signing") /\ Delivering' = Delivering
        PROVE  Counted'
    BY <2>8 DEF counters, Stop
  <2>9. ASSUME NEW e \in Exchanges, NEW b \in Bodies,
               \/ RejectTooLong(e) \/ RejectBody(e) \/ Send(e, b)
        PROVE  Counted'
    BY <2>8, <2>9, HandlersMove DEF RejectTooLong, RejectBody, Send
  <2>10. ASSUME NEW e \in Exchanges, TimeOut(e) \/ SeeDisconnect(e) \/ TakeResult(e)
         PROVE  Counted'
    <3>1. handler' = handler /\ response' = response
      BY <2>10 DEF TimeOut, SeeDisconnect, TakeResult, server
    <3>2. At("signing")' = At("signing") /\ Delivering' = Delivering
      BY <3>1 DEF At, Delivering
    <3> QED
      BY <2>8, <2>10, <3>2 DEF TimeOut, SeeDisconnect, TakeResult
  <2>11. CASE Stop \/ UNCHANGED vars
    <3>1. handler' = handler /\ response' = response
      BY <2>11 DEF Stop, vars, server
    <3> QED
      BY <2>8, <2>11, <3>1 DEF At, Delivering, vars
  <2> QED
    BY <2>3, <2>4, <2>5, <2>6, <2>7, <2>9, <2>10, <2>11 DEF Next, Serve
<1> QED
  BY <1>1, <1>2, TypeCorrect, PTL DEF Spec

\* Received requests are exactly the succeeded, the failed and those in SignerApp.
THEOREM CountersAlwaysBalance == Spec => []CountersBalance
<1>1. Counted => CountersBalance
  BY DEF Counted, CountersBalance
<1> QED
  BY <1>1, CountedAlways, PTL

\* The success counter never lags behind the signatures clients have read.
THEOREM SuccessCountedFirst == Spec => []SuccessIsCountedFirst
<1>1. Counted => SuccessIsCountedFirst
  BY DEF Counted, SuccessIsCountedFirst, Delivering, At
<1> QED
  BY <1>1, CountedAlways, PTL

=============================================================================
