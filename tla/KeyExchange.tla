----------------------------- MODULE KeyExchange -----------------------------
(***************************************************************************)
(* The goroutine keyExchange of core/communication/key_exchange.go with    *)
(* its responder (core/communication/hub.go) and its handler (Handshake):  *)
(* one connection's requests, taken one at a time until the loop ends.     *)
(* The requests are what the client sends, in any order; how they reach    *)
(* the goroutine, and what else runs meanwhile, is in ServerConnection.    *)
(***************************************************************************)
EXTENDS Handshake

CONSTANTS
    Code,         \* the one code GenerateCode made for this connection
    EmptyKey,     \* a SetPublicKey request with PublicKey = ""
    Malformed     \* Data that json.Unmarshal rejects

ASSUME KeyExchangeAssumption ==
    /\ Code \in Codes
    /\ EmptyKey \notin Keys /\ Malformed \notin Keys \cup Codes
    /\ Malformed # Undecryptable

VARIABLES
    phase,              \* "start": before Ready; "loop"; "returned"
    responderHadError,  \* handShakeWorkflowHandler.hadError
    registered          \* what Verified put on keyExchangeSuccess: a key, or NoKey

exchangeVars == <<phase, responderHadError, registered>>
kvars == <<vars, exchangeVars>>

KTypeOK ==
    /\ TypeOK
    /\ phase \in {"start", "loop", "returned"}
    /\ responderHadError \in BOOLEAN
    /\ registered \in Keys \cup {NoKey}

KInit ==
    /\ Init
    /\ phase = "start"
    /\ responderHadError = FALSE
    /\ registered = NoKey

-----------------------------------------------------------------------------
LastCall == calls'[Len(calls')]

Return == phase' = "returned"

\* Mutant: hadError tells of the last answer only.
RecordLastError == responderHadError' = (LastCall.resp = "ErrorResponse")

\* ErrorResponse is the only responder method that sets hadError; no method
\* clears it.
RecordError ==
    responderHadError' = (responderHadError \/ LastCall.resp = "ErrorResponse")

\* A panic unwinds the goroutine and ends the process.
Panicked ==
    /\ panicked'
    /\ UNCHANGED exchangeVars

\* GenerateCode or NewRSAContainer fails: keyExchange returns before Ready.
SetupFails ==
    /\ phase = "start" /\ ~panicked
    /\ Return
    /\ UNCHANGED <<vars, responderHadError, registered>>

SignalReady ==
    /\ phase = "start" /\ ~panicked
    /\ phase' = "loop"
    /\ UNCHANGED <<vars, responderHadError, registered>>

OnGetPublicKey ==
    /\ phase = "loop"
    /\ SendKey
    /\ RecordError
    /\ UNCHANGED <<phase, registered>>

\* This branch does not look at responder.hadError afterwards.
OnGetVerification ==
    /\ phase = "loop"
    /\ SendVerification(Code)
    /\ RecordError
    /\ UNCHANGED <<phase, registered>>

OnSetPublicKey(key) ==
    /\ phase = "loop"
    /\ \/ /\ key \in {EmptyKey, Malformed}
          /\ ~panicked
          /\ Return
          /\ UNCHANGED <<vars, responderHadError, registered>>
       \/ /\ key \in Keys
          /\ ReceiveKey(key)
          /\ \/ Panicked
             \/ /\ ~panicked'
                /\ RecordError
                /\ \/ responderHadError' /\ Return
                   \/ ~responderHadError' /\ UNCHANGED phase
                /\ UNCHANGED registered

\* Mutant: a failed Verify may be tried again.
OnVerifyRetries(plain) ==
    /\ phase = "loop"
    /\ plain \in Codes \cup {Undecryptable}
    /\ Verify(plain)
    /\ RecordError
    /\ \/ LastCall.resp = "Verified" /\ Return /\ registered' = LastCall.key
       \/ LastCall.resp # "Verified" /\ UNCHANGED <<phase, registered>>

OnVerify(plain) ==
    /\ phase = "loop"
    /\ \/ /\ plain = Malformed
          /\ ~panicked
          /\ Return
          /\ UNCHANGED <<vars, responderHadError, registered>>
       \/ /\ plain \in Codes \cup {Undecryptable}
          /\ Verify(plain)
          /\ RecordError
          /\ Return
          /\ registered' = IF LastCall.resp = "Verified" THEN LastCall.key ELSE registered

Disconnect ==
    /\ phase = "loop" /\ ~panicked
    /\ Return
    /\ UNCHANGED <<vars, responderHadError, registered>>

\* A request of any other Varient changes nothing and needs no action.
KNext ==
    \/ SetupFails
    \/ SignalReady
    \/ OnGetPublicKey
    \/ OnGetVerification
    \/ \E key \in Keys \cup {EmptyKey, Malformed} : OnSetPublicKey(key)
    \/ \E plain \in Codes \cup {Undecryptable, Malformed} : OnVerify(plain)
    \/ Disconnect

KSpec == KInit /\ [][KNext]_kvars

-----------------------------------------------------------------------------
(***************************************************************************)
(* A connection is registered at most once, for the one Verify the loop    *)
(* ever takes, and under the key of that handshake: the channel            *)
(* keyExchangeSuccess is closed when keyExchange returns, and a second     *)
(* Verified would block on it for ever or send on it after it is closed.   *)
(***************************************************************************)
OneRegistration ==
    /\ \A m, n \in 1..Len(calls) :
          calls[m].op = "Verify" /\ calls[n].op = "Verify" => m = n
    /\ registered # NoKey <=>
          \E n \in 1..Len(calls) : calls[n].resp = "Verified" /\ calls[n].key = registered
    /\ registered # NoKey => phase = "returned"

(***************************************************************************)
(* An error outlives the request that caused it: once ErrorResponse has    *)
(* been sent, no later SetPublicKey leaves the loop running, even one that *)
(* is answered KeyReceived; only GetPublicKey and GetVerification are      *)
(* still served.                                                           *)
(***************************************************************************)
ErrorEndsAtNextKey ==
    \A m, n \in 1..Len(calls) :
        (calls[m].resp = "ErrorResponse" /\ calls[n].op = "ReceiveKey" /\ m <= n)
            => /\ n = Len(calls)
               /\ phase = "returned"

(***************************************************************************)
(* "Error -> [...] connection will be dropped" (hub.go:155): after an      *)
(* ErrorResponse this connection's handshake answers nothing any more.     *)
(***************************************************************************)
ErrorEndsHandshake ==
    \A m \in 1..Len(calls) : calls[m].resp = "ErrorResponse" => m = Len(calls)
=============================================================================
