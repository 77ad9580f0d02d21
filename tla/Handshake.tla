------------------------------ MODULE Handshake ------------------------------
(***************************************************************************)
(* The server's half of the key handshake: the object of                   *)
(* core/communication/handshake/handler.go.  One handler serves one        *)
(* connection and is called by one goroutine, so each of its methods is    *)
(* one step.  Every method answers through exactly one method of its       *)
(* responder; calls records, in order, each call with that answer.         *)
(*                                                                         *)
(* A client key is the text the client sent.  What matters about it is how *)
(* adapters/asymetric/remote treats it: it may not be a PEM block at all,  *)
(* it may hold no RSA key, or the RSA key may be too small for OAEP to     *)
(* carry the verification code.                                            *)
(***************************************************************************)
EXTENDS Naturals, Sequences

CONSTANTS
    Keys,           \* texts a client may send as its public key
    NotPem,         \* those pem.Decode finds no block in
    Unparsable,     \* PEM blocks that are neither a PKCS1 nor a PKIX RSA key
    TooSmall,       \* keys that parse, but cannot encrypt a code
    Codes,          \* verification codes
    NoKey,          \* notSetClientKey
    NotSent,        \* notSentVerification
    Undecryptable,  \* a Verify payload the server's private key rejects
    MaxCalls        \* bound: calls of one handler

ASSUME HandshakeAssumption ==
    /\ NotPem \subseteq Keys /\ Unparsable \subseteq Keys /\ TooSmall \subseteq Keys
    /\ NotPem \cap Unparsable = {}
    /\ NotPem \cap TooSmall = {} /\ Unparsable \cap TooSmall = {}
    /\ NoKey \notin Keys
    /\ NotSent \notin Codes /\ Undecryptable \notin Codes
    /\ MaxCalls \in Nat

VARIABLES
    serverKeySent,  \* BOOLEAN: SendKey has run
    verification,   \* the code last passed to SendVerification, or NotSent
    clientKey,      \* the accepted client key, or NoKey
    onSendVerify,   \* the key captured by the closure SendVerification calls;
                    \* NoKey stands for getOnSendVerifyFailureResponse
    calls,          \* history: the calls so far, each with its answer
    panicked        \* a call dereferenced the nil block of pem.Decode

handlerVars == <<serverKeySent, verification, clientKey, onSendVerify>>
vars == <<serverKeySent, verification, clientKey, onSendVerify, calls, panicked>>

Ops == {"SendKey", "ReceiveKey", "SendVerification", "Verify"}
Responses == {"PublicKeyResponse", "KeyReceived", "VerificationResponse",
              "Verified", "ErrorResponse"}
Arguments == Keys \cup Codes \cup {NoKey, Undecryptable}

\* One call: the method, its argument, the responder method it ended in, and
\* the client key the answer was given under.
Call == [op: Ops, arg: Arguments, resp: Responses, key: Keys \cup {NoKey}]

TypeOK ==
    /\ serverKeySent \in BOOLEAN
    /\ verification \in Codes \cup {NotSent}
    /\ clientKey \in Keys \cup {NoKey}
    /\ onSendVerify \in Keys \cup {NoKey}
    /\ calls \in Seq(Call)
    /\ panicked \in BOOLEAN

Init ==
    /\ serverKeySent = FALSE
    /\ verification = NotSent
    /\ clientKey = NoKey
    /\ onSendVerify = NoKey
    /\ calls = <<>>
    /\ panicked = FALSE

-----------------------------------------------------------------------------
Respond(op, arg, resp, key) ==
    /\ ~panicked
    /\ Len(calls) < MaxCalls
    /\ calls' = Append(calls, [op |-> op, arg |-> arg, resp |-> resp, key |-> key])
    /\ UNCHANGED panicked

SendKey ==
    /\ Respond("SendKey", NoKey, "PublicKeyResponse", clientKey)
    /\ serverKeySent' = TRUE
    /\ UNCHANGED <<verification, clientKey, onSendVerify>>

(***************************************************************************)
(* NewRSARemoteContainer dereferences the block pem.Decode returned        *)
(* without looking whether there is one.                                   *)
(***************************************************************************)
ReceiveNotPem(k) ==
    /\ k \in NotPem
    /\ ~panicked
    /\ panicked' = TRUE
    /\ UNCHANGED <<serverKeySent, verification, clientKey, onSendVerify, calls>>

\* Mutant: the closure for the earlier key is kept.
RejectKeyKeepsClosure(k) ==
    /\ k \in Unparsable
    /\ Respond("ReceiveKey", k, "ErrorResponse", NoKey)
    /\ clientKey' = NoKey
    /\ verification' = NotSent
    /\ UNCHANGED <<serverKeySent, onSendVerify>>

RejectKey(k) ==
    /\ k \in Unparsable
    /\ Respond("ReceiveKey", k, "ErrorResponse", NoKey)
    /\ onSendVerify' = NoKey
    /\ clientKey' = NoKey
    /\ verification' = NotSent
    /\ UNCHANGED serverKeySent

\* Mutant: a verification made under the earlier key stays valid.
AcceptKeyKeepsVerification(k) ==
    /\ k \notin NotPem \cup Unparsable
    /\ Respond("ReceiveKey", k, "KeyReceived", k)
    /\ onSendVerify' = k
    /\ clientKey' = k
    /\ UNCHANGED <<serverKeySent, verification>>

AcceptKey(k) ==
    /\ k \notin NotPem \cup Unparsable
    /\ Respond("ReceiveKey", k, "KeyReceived", k)
    /\ onSendVerify' = k
    /\ verification' = NotSent
    /\ clientKey' = k
    /\ UNCHANGED serverKeySent

ReceiveKey(k) == ReceiveNotPem(k) \/ RejectKey(k) \/ AcceptKey(k)

\* The code is recorded before the closure tries to encrypt and send it.
SendVerification(code) ==
    /\ verification' = code
    /\ \/ /\ onSendVerify \in TooSmall \cup {NoKey}
          /\ Respond("SendVerification", code, "ErrorResponse", onSendVerify)
       \/ /\ onSendVerify \notin TooSmall \cup {NoKey}
          /\ Respond("SendVerification", code, "VerificationResponse", onSendVerify)
    /\ UNCHANGED <<serverKeySent, clientKey, onSendVerify>>

KeysExchangedAndCodeSent ==
    clientKey # NoKey /\ serverKeySent /\ verification # NotSent

\* plain is what the server's private key makes of the payload.
Verify(plain) ==
    /\ \/ /\ ~KeysExchangedAndCodeSent \/ plain # verification
          /\ Respond("Verify", plain, "ErrorResponse", clientKey)
       \/ /\ KeysExchangedAndCodeSent
          /\ plain = verification
          /\ Respond("Verify", plain, "Verified", clientKey)
    /\ UNCHANGED handlerVars

Next ==
    \/ SendKey
    \/ \E k \in Keys : ReceiveKey(k)
    \/ \E code \in Codes : SendVerification(code)
    \/ \E plain \in Codes \cup {Undecryptable} : Verify(plain)

Spec == Init /\ [][Next]_vars

-----------------------------------------------------------------------------
\* Call number i is the last call of method op among the first n.
IsLatest(op, i, n) ==
    /\ i \in 1..n
    /\ calls[i].op = op
    /\ \A j \in (i+1)..n : calls[j].op # op

(***************************************************************************)
(* The closure SendVerification runs and the key Verify hands on are kept  *)
(* in two fields that ReceiveKey assigns separately: a code is only ever   *)
(* encrypted for the key that a successful Verify would register.          *)
(***************************************************************************)
CodeGoesToCurrentKey == onSendVerify = clientKey

\* The handshake answered by call n is complete, and made under calls[n].key.
CompleteAt(n) ==
    /\ \E s \in 1..n : calls[s].op = "SendKey"
    /\ \E r, v \in 1..n :
          /\ IsLatest("ReceiveKey", r, n)
          /\ calls[r].resp = "KeyReceived"
          /\ calls[r].arg = calls[n].key
          /\ IsLatest("SendVerification", v, n)
          /\ r < v
          /\ calls[v].arg = calls[n].arg

(***************************************************************************)
(* Verified is answered only to a complete handshake: the server key was   *)
(* sent at some time; the key registered is the one accepted by the last   *)
(* ReceiveKey; a verification was requested after that key arrived, and    *)
(* the client returned the code of the last such request.  In particular   *)
(* sending a key again voids the verification made under the earlier one.  *)
(***************************************************************************)
VerifiedAfterHandshake ==
    \A n \in 1..Len(calls) : calls[n].resp = "Verified" => CompleteAt(n)

(***************************************************************************)
(* "Verification not possible before verification message sent"            *)
(* (handler.go:175): when Verified is answered, the verification last      *)
(* asked for did reach the client.  The code sets verification before it   *)
(* knows whether the code could be encrypted.                              *)
(***************************************************************************)
VerifiedOnlyIfCodeWasSent ==
    \A n \in 1..Len(calls) : calls[n].resp = "Verified" =>
        \E v \in 1..n : /\ IsLatest("SendVerification", v, n)
                        /\ calls[v].resp = "VerificationResponse"

(***************************************************************************)
(* A client key no container can be made from is answered with an error    *)
(* (handler_test.go:141, ..._errorCreatingRemoteRSAContainer_              *)
(* callsFailureResponse); it never ends in a panic.                        *)
(***************************************************************************)
BadKeyIsReported == ~panicked
=============================================================================
