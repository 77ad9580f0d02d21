------------------------------- MODULE Session -------------------------------
(***************************************************************************)
(* A handshake from end to end: the browser (ClientHandshake) and the      *)
(* server's key exchange (KeyExchange) over one websocket.  In between,    *)
(* the dispatcher passes a message to the key exchange if that has         *)
(* subscribed, and to nobody before (ServerConnection has the details).    *)
(***************************************************************************)
EXTENDS ClientHandshake

CONSTANTS NoKey, NotSent, EmptyKey, Malformed, MaxCalls

ASSUME SessionAssumption ==
    /\ ClientKey # NoKey /\ Code \notin {NotSent, Undecryptable}
    /\ EmptyKey # ClientKey /\ Malformed \notin {ClientKey, Code, Undecryptable}
    /\ MaxCalls \in Nat

VARIABLES
    serverKeySent, verification, clientKey, onSendVerify, calls, panicked,
    phase, responderHadError, registered,
    subscribed,     \* keyExchange is subscribed
    lost,           \* history: requests dispatched to nobody
    announced       \* registerConnection has written AvailableActions

K == INSTANCE KeyExchange WITH
        Keys <- {ClientKey}, NotPem <- {}, Unparsable <- {}, TooSmall <- {}, Codes <- {Code}

keyExchangeVars ==
    <<serverKeySent, verification, clientKey, onSendVerify, calls, panicked,
      phase, responderHadError, registered>>
serverVars == <<keyExchangeVars, subscribed, lost, announced>>
sessionVars == <<clientVars, open, toServer, toClient, serverVars>>

Requests == [varient: {"SetPublicKey", "GetPublicKey", "GetVerification", "Verify"},
             payload: {ClientKey, Code, Undecryptable, Nothing}]
Answers == [variant: {"Ready", "KeyReceived", "ServerKey", "Verification", "Message",
                      "Error"},
            body: {ServerKey, Code, "AvailableActions", Nothing}]

TypeOK ==
    /\ machine \in States /\ context \in Contexts
    /\ connectionState \in {"pending", "connected", "disconnected"}
    /\ listening \in BOOLEAN /\ watching \in BOOLEAN /\ swallowed \in BOOLEAN
    /\ open \in BOOLEAN /\ subscribed \in BOOLEAN /\ announced \in BOOLEAN
    /\ pending \subseteq Promises
    /\ outcome \in Seq({"success", "failure"})
    /\ toServer \in Seq(Requests) /\ toClient \in Seq(Answers)
    /\ lost \in Nat
    /\ K!KTypeOK

SessionInit ==
    /\ ClientInit
    /\ K!KInit
    /\ subscribed = FALSE /\ lost = 0 /\ announced = FALSE

-----------------------------------------------------------------------------
Write(answer) == toClient' = IF open THEN Append(toClient, answer) ELSE toClient

Subscribe ==
    /\ ~subscribed
    /\ subscribed' = TRUE
    /\ UNCHANGED <<clientVars, open, toServer, toClient, keyExchangeVars, lost, announced>>

\* The dispatcher's loop over no subscriptions.
Lose ==
    /\ ~subscribed /\ toServer # <<>>
    /\ toServer' = Tail(toServer)
    /\ lost' = lost + 1
    /\ UNCHANGED <<clientVars, open, toClient, keyExchangeVars, subscribed, announced>>

SetUp ==
    /\ subscribed
    /\ \/ K!SetupFails /\ UNCHANGED toClient
       \/ K!SignalReady /\ Write(Answer("Ready", Nothing))
    /\ UNCHANGED <<clientVars, open, toServer, subscribed, lost, announced>>

\* Mutant: one branch of the loop is missing.
HandleNoVerification(request) ==
    \/ request.varient = "SetPublicKey" /\ K!OnSetPublicKey(request.payload)
    \/ request.varient = "GetPublicKey" /\ K!OnGetPublicKey
    \/ request.varient = "Verify" /\ K!OnVerify(request.payload)

Handle(request) ==
    \/ request.varient = "SetPublicKey" /\ K!OnSetPublicKey(request.payload)
    \/ request.varient = "GetPublicKey" /\ K!OnGetPublicKey
    \/ request.varient = "GetVerification" /\ K!OnGetVerification
    \/ request.varient = "Verify" /\ K!OnVerify(request.payload)

\* What the responder's methods write.  Verified writes nothing: it passes the
\* connection on to registerConnection.
Answered(call) ==
    CASE call.resp = "KeyReceived" -> Write(Answer("KeyReceived", Nothing))
      [] call.resp = "PublicKeyResponse" -> Write(Answer("ServerKey", ServerKey))
      [] call.resp = "VerificationResponse" -> Write(Answer("Verification", call.arg))
      [] call.resp = "ErrorResponse" -> Write(Answer("Error", Nothing))
      [] call.resp = "Verified" -> UNCHANGED toClient

Serve ==
    /\ subscribed /\ toServer # <<>>
    /\ Handle(Head(toServer))
    /\ Answered(calls'[Len(calls')])
    /\ toServer' = Tail(toServer)
    /\ UNCHANGED <<clientVars, open, subscribed, lost, announced>>

\* registerConnection's first message, encrypted.
Announce ==
    /\ registered # NoKey /\ ~announced
    /\ announced' = TRUE
    /\ Write(Answer("Message", "AvailableActions"))
    /\ UNCHANGED <<clientVars, open, toServer, keyExchangeVars, subscribed, lost>>

Dropped ==
    /\ ~open /\ toServer = <<>>
    /\ K!Disconnect
    /\ UNCHANGED <<clientVars, open, toServer, toClient, subscribed, lost, announced>>

ServerStep == Subscribe \/ Lose \/ SetUp \/ Serve \/ Announce \/ Dropped
ClientStep == (OnOpen \/ OnMessage \/ OnClose \/ Settles) /\ UNCHANGED serverVars

SessionNext == ServerStep \/ ClientStep \/ (Close /\ UNCHANGED serverVars)

\* Events that happened are handled, promises settle, the goroutine runs.
SessionSpec ==
    /\ SessionInit /\ [][SessionNext]_sessionVars
    /\ WF_sessionVars(ServerStep) /\ WF_sessionVars(ClientStep)

-----------------------------------------------------------------------------
(***************************************************************************)
(* When the browser goes on with an encrypted socket, the server has       *)
(* registered it, under its key; both have the same code; and the message  *)
(* it goes on with is AvailableActions, on which connection.ts waits to    *)
(* connect: its "message" is whatever decrypts while it waits.             *)
(***************************************************************************)
BothAgree ==
    \A i \in DOMAIN outcome : outcome[i] = "success" =>
        /\ registered = ClientKey /\ announced
        /\ context = [serverEncryption |-> ServerKey, verificationCode |-> verification,
                      message |-> "AvailableActions"]

(***************************************************************************)
(* Whatever is lost or rejected on the way, the browser's requests reach   *)
(* the handler in an order it accepts: it never answers ErrorResponse,     *)
(* which the browser has no transition for (workflow.ts:112-162).          *)
(***************************************************************************)
NeverRefused ==
    /\ ~panicked
    /\ \A i \in DOMAIN calls : calls[i].resp # "ErrorResponse"

(***************************************************************************)
(* The browser's workflow keeps what connection.ts builds on.  Promises    *)
(* that settle after the end, and a close event after an error event, do   *)
(* not fail a handshake again, nor after it succeeded: that would open a   *)
(* second socket.  And although the last step of a handshake is a promise, *)
(* it does not succeed on a socket known to be closed: connection.ts:142   *)
(* could not unsubscribe in a callback that comes before subscribe has     *)
(* returned.                                                               *)
(***************************************************************************)
Result == CASE outcome = <<>> -> "none"
            [] Len(outcome) = 1 -> outcome[1]
            [] OTHER -> "twice"

Contract == INSTANCE Workflow WITH result <- Result

ImplementsWorkflow == Contract!WorkflowSpec

(***************************************************************************)
(* The client has no timeout.  Once connected, a handshake ends, except    *)
(* when a request was dispatched before keyExchange had subscribed (the    *)
(* browser does not wait for Ready), a rejection was only logged, or       *)
(* keyExchange returned before Ready.                                      *)
(***************************************************************************)
SetupFailed == phase = "returned" /\ calls = <<>>

HangsOnlyThen ==
    connectionState = "connected" ~>
        (outcome # <<>> \/ lost > 0 \/ swallowed \/ SetupFailed)

\* The server, or the browser, has something to do: Subscribe, SetUp, Serve,
\* Announce; OnMessage, OnClose or a promise.
CanMove ==
    \/ ~subscribed \/ phase = "start"
    \/ toServer # <<>> /\ phase = "loop" /\ Len(calls) < MaxCalls
    \/ registered # NoKey /\ ~announced
    \/ toClient # <<>> /\ listening
    \/ toClient = <<>> /\ ~open
    \/ pending # {}

(***************************************************************************)
(* The same without fairness: apart from these three a connected browser   *)
(* that has no outcome is never in a state where both sides wait for each  *)
(* other, with nothing under way, nothing to announce and no promise.      *)
(***************************************************************************)
NeverStuck ==
    connectionState = "connected" /\ outcome = <<>> =>
        CanMove \/ lost > 0 \/ swallowed \/ SetupFailed
=============================================================================
