--------------------------- MODULE ClientHandshake ---------------------------
(***************************************************************************)
(* The browser's half of the handshake, on one websocket: the machine of   *)
(* js/src/core/handshake/stateMachine.ts, driven by workflow.ts through    *)
(* machineHelpers.ts.  JavaScript runs an event to its end, so an event is *)
(* one step, and so are the transitions the workflow makes itself on       *)
(* entering a state.  Decryption, encryption and the import of the         *)
(* server's key are promises: they settle later, in any order, and may be  *)
(* rejected.  What the server does is in Session.                          *)
(***************************************************************************)
EXTENDS Naturals, Sequences

CONSTANTS
    ClientKey,      \* what decryption.getPem returns
    ServerKey,      \* the public key of the server
    Code,           \* the verification code of this connection
    Undecryptable,  \* a payload that is not encrypted for the server
    Nothing         \* no payload; undefined

ASSUME ClientAssumption == Nothing \notin {ServerKey, Code, "AvailableActions"}

VARIABLES
    machine,            \* currentState
    context,            \* the context of the machine
    connectionState,    \* of the socket wrapper
    listening,          \* the two subscriptions of socketSubscriber
    watching,           \* machineSubscription
    pending,            \* promises; the server answers each request once,
                        \* so no two are alike
    outcome,            \* the callbacks called: "success", "failure"
    swallowed,          \* history: a rejection nobody acts on
    open,               \* the websocket
    toServer, toClient  \* what is under way on it

contextVars == <<machine, context, listening, watching, outcome>>
clientVars == <<contextVars, connectionState, pending, swallowed>>

Request(varient, payload) == [varient |-> varient, payload |-> payload]
Answer(variant, body) == [variant |-> variant, body |-> body]
Promise(op, value) == [op |-> op, value |-> value]

\* stateMap: the transition that leads on from each state, and where to.
\* Besides, every state has ERROR; ERROR itself also has RESET, which
\* nothing uses.
stateMap ==
    [PENDING                       |-> <<"CONNECT", "CONNECTED">>,
     CONNECTED                     |-> <<"SENT_KEY", "CLIENT_KEY_SENT">>,
     CLIENT_KEY_SENT               |-> <<"CONFIRMED_KEY", "CLIENT_KEY_RECEIVED">>,
     CLIENT_KEY_RECEIVED           |-> <<"REQUESTED_SERVER_KEY", "SERVER_KEY_REQUESTED">>,
     SERVER_KEY_REQUESTED          |-> <<"SERVER_KEY_RECEIVED", "KEYS_EXCHANGED">>,
     KEYS_EXCHANGED                |-> <<"REQUEST_VERIFICATION", "SERVER_VERIFICATION_REQUESTED">>,
     SERVER_VERIFICATION_REQUESTED |-> <<"RECEIVED_VERIFICATION", "SERVER_VERIFICATION_RECEIVED">>,
     SERVER_VERIFICATION_RECEIVED  |-> <<"SENT_VERIFICATION", "VERIFICATION_RESPONSE_SENT">>,
     VERIFICATION_RESPONSE_SENT    |-> <<"CONFIRM_VERIFICATION", "VERIFICATION_CONFIRMED">>,
     VERIFICATION_CONFIRMED        |-> <<"ERROR", "ERROR">>,
     ERROR                         |-> <<"ERROR", "ERROR">>]

States == DOMAIN stateMap
Contexts == [serverEncryption: {ServerKey, Nothing},
             verificationCode: {Code, Nothing},
             message: {"AvailableActions", Code, Nothing}]
Promises == [op: {"import", "decryptCode", "decryptMessage", "encrypt"},
             value: {ServerKey, Code, "AvailableActions"}]

ClientInit ==
    /\ machine = "PENDING"
    /\ context = [serverEncryption |-> Nothing, verificationCode |-> Nothing,
                  message |-> Nothing]
    /\ connectionState = "pending"
    /\ listening = TRUE /\ watching = TRUE
    /\ pending = {} /\ outcome = <<>> /\ swallowed = FALSE
    /\ open = TRUE /\ toServer = <<>> /\ toClient = <<>>

-----------------------------------------------------------------------------
(* What the workflow does on entering a state. *)

\* ws.send on a closed socket does nothing.
Dispatch(request) == toServer' = IF open THEN Append(toServer, request) ELSE toServer

\* The request a state sends.
Requested ==
    [CONNECTED           |-> Request("SetPublicKey", ClientKey),
     CLIENT_KEY_RECEIVED |-> Request("GetPublicKey", Nothing),
     KEYS_EXCHANGED      |-> Request("GetVerification", Nothing)]

EnterRequesting(state, promises) ==
    /\ state \in DOMAIN Requested
    /\ Dispatch(Requested[state])
    /\ machine' = stateMap[state][2]
    /\ pending' = promises
    /\ UNCHANGED <<listening, watching, outcome>>

\* Without key or code the workflow calls failure, and stays.
EnterVerificationReceived(state, promises) ==
    /\ state = "SERVER_VERIFICATION_RECEIVED"
    /\ LET complete == context'.serverEncryption # Nothing /\ context'.verificationCode # Nothing
       IN  /\ machine' = IF complete THEN stateMap[state][2] ELSE state
           /\ pending' = IF complete
                           THEN promises \cup {Promise("encrypt", context'.verificationCode)}
                           ELSE promises
           /\ outcome' = IF complete THEN outcome ELSE Append(outcome, "failure")
    /\ UNCHANGED <<listening, watching, toServer>>

EnterConfirmed(state, promises) ==
    /\ state = "VERIFICATION_CONFIRMED"
    /\ machine' = state
    /\ listening' = FALSE
    /\ outcome' = IF context'.message # Nothing /\ context'.serverEncryption # Nothing
                    THEN Append(outcome, "success") ELSE outcome
    /\ pending' = promises
    /\ UNCHANGED <<watching, toServer>>

\* Mutant: machineSubscription stays.
EnterErrorWatching(state, promises) ==
    /\ state = "ERROR"
    /\ machine' = state
    /\ pending' = promises
    /\ listening' = FALSE
    /\ outcome' = Append(outcome, "failure")
    /\ UNCHANGED <<watching, toServer>>

\* Nobody sees a machine that nobody watches enter ERROR again.
EnterError(state, promises) ==
    /\ state = "ERROR"
    /\ machine' = state
    /\ pending' = promises
    /\ listening' = FALSE /\ watching' = FALSE
    /\ outcome' = IF watching THEN Append(outcome, "failure") ELSE outcome
    /\ UNCHANGED toServer

Enter(state, promises) ==
    \/ EnterRequesting(state, promises)
    \/ EnterVerificationReceived(state, promises)
    \/ EnterConfirmed(state, promises)
    \/ EnterError(state, promises)

\* handshakeMachine.transition, leaving promises pending.  A transition that
\* the state does not have is logged, and its update of the context dropped.
Transition(transition, newContext, promises) ==
    \/ /\ transition = "ERROR"
       /\ UNCHANGED context
       /\ Enter("ERROR", promises)
    \/ /\ transition # "ERROR" /\ stateMap[machine][1] = transition
       /\ context' = newContext
       /\ Enter(stateMap[machine][2], promises)
    \/ /\ transition # "ERROR" /\ stateMap[machine][1] # transition
       /\ pending' = promises
       /\ UNCHANGED <<contextVars, toServer>>

-----------------------------------------------------------------------------
(* Events of the websocket. *)

OnOpen ==
    /\ open /\ connectionState = "pending"
    /\ connectionState' = "connected"
    /\ Transition("CONNECT", context, pending)
    /\ UNCHANGED <<swallowed, open, toClient>>

\* Either side, or the network, closes the socket; what is under way may be
\* lost.
Close ==
    /\ open
    /\ open' = FALSE
    /\ \E i \in 0..Len(toServer) : toServer' = SubSeq(toServer, 1, i)
    /\ \E i \in 0..Len(toClient) : toClient' = SubSeq(toClient, 1, i)
    /\ UNCHANGED clientVars

\* onerror and onclose: this may happen twice.
OnClose ==
    /\ ~open /\ toClient = <<>>
    /\ connectionState' = "disconnected"
    /\ \/ listening /\ Transition("ERROR", context, pending)
       \/ ~listening /\ UNCHANGED <<contextVars, pending, toServer>>
    /\ UNCHANGED <<swallowed, open, toClient>>

Later(op, value) ==
    /\ pending' = pending \cup {Promise(op, value)}
    /\ UNCHANGED <<contextVars, toServer>>

\* Mutant: a Verification, which is encrypted too, is also taken for a Message.
DecryptsMessageOfAny(answer) ==
    /\ answer.variant \in {"Message", "Verification"}
    /\ pending' = pending \cup {Promise("decryptMessage", answer.body)} \cup
         (IF answer.variant = "Verification" THEN {Promise("decryptCode", answer.body)} ELSE {})
    /\ UNCHANGED <<contextVars, toServer>>

DecryptsMessage(answer) ==
    answer.variant = "Message" /\ Later("decryptMessage", answer.body)

\* Ready and Error are variants nothing looks for.
OnMessage ==
    /\ listening /\ connectionState # "pending" /\ toClient # <<>>
    /\ LET answer == Head(toClient) IN
          \/ answer.variant = "ServerKey" /\ Later("import", answer.body)
          \/ answer.variant = "KeyReceived" /\ Transition("CONFIRMED_KEY", context, pending)
          \/ answer.variant = "Verification" /\ Later("decryptCode", answer.body)
          \/ DecryptsMessage(answer)
          \/ answer.variant \in {"Ready", "Error"} /\ UNCHANGED <<contextVars, pending, toServer>>
    /\ toClient' = Tail(toClient)
    /\ UNCHANGED <<connectionState, swallowed, open>>

-----------------------------------------------------------------------------
(* Promises. *)

\* Mutant: the code is sent as it is.
VerifiesPlain(promise) ==
    /\ promise.op = "encrypt"
    /\ Dispatch(Request("Verify", Undecryptable))
    /\ pending' = pending \ {promise}
    /\ UNCHANGED contextVars

Verifies(promise) ==
    /\ promise.op = "encrypt"
    /\ Dispatch(Request("Verify", promise.value))
    /\ pending' = pending \ {promise}
    /\ UNCHANGED contextVars

Fulfilled(promise) ==
    /\ promise \in pending
    /\ LET rest == pending \ {promise} IN
          \/ /\ promise.op = "import"
             /\ Transition("SERVER_KEY_RECEIVED",
                           [context EXCEPT !.serverEncryption = promise.value], rest)
          \/ /\ promise.op = "decryptCode"
             /\ Transition("RECEIVED_VERIFICATION",
                           [context EXCEPT !.verificationCode = promise.value], rest)
          \/ /\ promise.op = "decryptMessage"
             /\ Transition("CONFIRM_VERIFICATION",
                           [context EXCEPT !.message = promise.value], rest)
          \/ Verifies(promise)
    /\ UNCHANGED <<connectionState, swallowed, open, toClient>>

\* Only the rejected decryption of the code is more than logged.
Rejected(promise) ==
    /\ promise \in pending
    /\ LET rest == pending \ {promise} IN
          \/ /\ promise.op = "decryptCode"
             /\ Transition("ERROR", context, rest)
             /\ UNCHANGED swallowed
          \/ /\ promise.op # "decryptCode"
             /\ pending' = rest
             /\ swallowed' = TRUE
             /\ UNCHANGED <<contextVars, toServer>>
    /\ UNCHANGED <<connectionState, open, toClient>>

Settles == \E promise \in pending : Fulfilled(promise) \/ Rejected(promise)
=============================================================================
