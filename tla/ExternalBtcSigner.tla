-------------------------- MODULE ExternalBtcSigner --------------------------
(***************************************************************************)
(* What SignerApp expects of the interface of that name                    *)
(* (expected_interfaces.go): a call is answered with an error, or with a   *)
(* signature the holder of the key made for this very request after the    *)
(* call began and while it could.  It may sign and still answer an error.  *)
(***************************************************************************)
CONSTANTS
    Callers,
    Requests,
    NoRequest,
    Signable   \* requests for a key the wallet holds

VARIABLES
    able,    \* the wallet can sign now
    asked,   \* the request of each caller that waits
    signed,  \* callers whose request has been signed since
    result   \* what the last call of each returned

Init ==
    /\ able = FALSE
    /\ asked = [c \in Callers |-> NoRequest]
    /\ signed = {}
    /\ result = [c \in Callers |-> "none"]

WalletChanges ==
    /\ able' \in BOOLEAN
    /\ UNCHANGED <<asked, signed, result>>

Ask(c, r) ==
    /\ asked[c] = NoRequest
    /\ asked' = [asked EXCEPT ![c] = r]
    /\ result' = [result EXCEPT ![c] = "none"]
    /\ UNCHANGED <<able, signed>>

Sign(c) ==
    /\ able
    /\ asked[c] \in Signable
    /\ signed' = signed \cup {c}
    /\ able' \in BOOLEAN
    /\ UNCHANGED <<asked, result>>

Answer(c, o) ==
    /\ asked[c] # NoRequest
    /\ o = "signature" => c \in signed
    /\ asked' = [asked EXCEPT ![c] = NoRequest]
    /\ signed' = signed \ {c}
    /\ result' = [result EXCEPT ![c] = o]
    /\ UNCHANGED able

Next ==
    \/ WalletChanges
    \/ \E c \in Callers :
          \/ \E r \in Requests : Ask(c, r)
          \/ Sign(c)
          \/ \E o \in {"signature", "error"} : Answer(c, o)

Spec == Init /\ [][Next]_<<able, asked, signed, result>>

=============================================================================
