---------------------------- MODULE SessionProofs ----------------------------
(***************************************************************************)
(* Proofs about Session, for any keys, codes and bound on the server's     *)
(* calls: SessionInv is inductive, so both sides agree and no request is   *)
(* refused, and each step of the session is one of Workflow or changes     *)
(* nothing there.                                                          *)
(***************************************************************************)
EXTENDS Session, SequenceTheorems, TLAPS

-----------------------------------------------------------------------------
(***************************************************************************)
(* The inductive invariant behind BothAgree, NeverRefused and the          *)
(* refinement.  The handshake is in lock-step: of its four calls the next  *)
(* one is at one place, as the request, the answer, or the promise that    *)
(* leads on, or is lost; the server's fields tell how many calls there     *)
(* were, and the browser's state what it waits for.                        *)
(***************************************************************************)
InTurn ==
    <<[op |-> "ReceiveKey", arg |-> ClientKey, resp |-> "KeyReceived", key |-> ClientKey],
      [op |-> "SendKey", arg |-> NoKey, resp |-> "PublicKeyResponse", key |-> ClientKey],
      [op |-> "SendVerification", arg |-> Code, resp |-> "VerificationResponse",
       key |-> ClientKey],
      [op |-> "Verify", arg |-> Code, resp |-> "Verified", key |-> ClientKey]>>

\* The requests that lead to these calls, what the browser gets for them, and
\* the state in which it waits for that.
Asks == <<Request("SetPublicKey", ClientKey), Request("GetPublicKey", Nothing),
          Request("GetVerification", Nothing), Request("Verify", Code)>>
Gets == <<Answer("KeyReceived", Nothing), Answer("ServerKey", ServerKey),
          Answer("Verification", Code), Answer("Message", "AvailableActions")>>
Waits == <<"CLIENT_KEY_SENT", "SERVER_KEY_REQUESTED", "SERVER_VERIFICATION_REQUESTED",
           "VERIFICATION_RESPONSE_SENT">>

Served == Len(calls)
BrowserIn(states) == machine \in states \cup {"ERROR"}

ServerInTurn ==
    /\ Served <= 4 /\ \A i \in 1..Served : calls[i] = InTurn[i]
    /\ Served > 0 => subscribed /\ phase # "start"
    /\ Served = 4 <=> registered = ClientKey
    /\ Served = 4 => phase = "returned"
    /\ clientKey = IF Served >= 1 THEN ClientKey ELSE NoKey
    /\ onSendVerify = clientKey
    /\ serverKeySent <=> Served >= 2
    /\ verification = IF Served >= 3 THEN Code ELSE NotSent
    /\ panicked = FALSE /\ responderHadError = FALSE
    /\ announced => Served = 4

RequestInTurn ==
    \A i \in DOMAIN toServer :
        /\ i = 1 /\ Served < 4
        /\ toServer[i] = Asks[Served + 1]
        /\ BrowserIn({Waits[Served + 1]})

AnswerInTurn ==
    \A i \in DOMAIN toClient : toClient[i] # Answer("Ready", Nothing) =>
        /\ i = Len(toClient) /\ Served > 0
        /\ toClient[i] = Gets[Served] /\ (Served = 4 => announced)
        /\ toServer = <<>> /\ pending = {}
        /\ BrowserIn({Waits[Served]})

PromiseInTurn ==
    \A p \in pending :
        /\ pending = {p} /\ toServer = <<>>
        /\ \/ Served = 2 /\ p = Promise("import", ServerKey) /\ BrowserIn({Waits[2]})
           \/ Served = 3 /\ p = Promise("decryptCode", Code) /\ BrowserIn({Waits[3]})
           \/ Served = 3 /\ p = Promise("encrypt", Code) /\ BrowserIn({Waits[4]})
           \/ /\ Served = 4 /\ p = Promise("decryptMessage", "AvailableActions")
              /\ announced /\ BrowserIn({Waits[4]})

BrowserInTurn ==
    /\ BrowserIn({"PENDING", "VERIFICATION_CONFIRMED", Waits[1], Waits[2], Waits[3], Waits[4]})
    /\ connectionState = "pending" <=> machine = "PENDING"
    /\ machine = "PENDING" => Served = 0 /\ toServer = <<>>
    /\ Served = 4 => BrowserIn({Waits[4], "VERIFICATION_CONFIRMED"})
    /\ machine \in {Waits[3], Waits[4], "VERIFICATION_CONFIRMED"} =>
          context.serverEncryption = ServerKey
    /\ machine \in {Waits[4], "VERIFICATION_CONFIRMED"} => context.verificationCode = Code
    /\ machine = "VERIFICATION_CONFIRMED" =>
          announced /\ context.message = "AvailableActions"

OutcomeInTurn ==
    /\ listening <=> machine \notin {"ERROR", "VERIFICATION_CONFIRMED"}
    /\ watching <=> machine # "ERROR"
    /\ outcome = CASE machine = "ERROR" -> <<"failure">>
                   [] machine = "VERIFICATION_CONFIRMED" -> <<"success">>
                   [] OTHER -> <<>>
    /\ connectionState = "disconnected" => ~listening

SessionInv ==
    /\ TypeOK /\ ServerInTurn /\ RequestInTurn /\ AnswerInTurn /\ PromiseInTurn
    /\ BrowserInTurn /\ OutcomeInTurn

-----------------------------------------------------------------------------
(* Transitions. *)

LEMMA Table ==
    /\ stateMap["PENDING"] = <<"CONNECT", "CONNECTED">>
    /\ stateMap["CONNECTED"] = <<"SENT_KEY", "CLIENT_KEY_SENT">>
    /\ stateMap["CLIENT_KEY_SENT"] = <<"CONFIRMED_KEY", "CLIENT_KEY_RECEIVED">>
    /\ stateMap["CLIENT_KEY_RECEIVED"] = <<"REQUESTED_SERVER_KEY", "SERVER_KEY_REQUESTED">>
    /\ stateMap["SERVER_KEY_REQUESTED"] = <<"SERVER_KEY_RECEIVED", "KEYS_EXCHANGED">>
    /\ stateMap["KEYS_EXCHANGED"] = <<"REQUEST_VERIFICATION", "SERVER_VERIFICATION_REQUESTED">>
    /\ stateMap["SERVER_VERIFICATION_REQUESTED"] =
          <<"RECEIVED_VERIFICATION", "SERVER_VERIFICATION_RECEIVED">>
    /\ stateMap["SERVER_VERIFICATION_RECEIVED"] =
          <<"SENT_VERIFICATION", "VERIFICATION_RESPONSE_SENT">>
    /\ stateMap["VERIFICATION_RESPONSE_SENT"] =
          <<"CONFIRM_VERIFICATION", "VERIFICATION_CONFIRMED">>
    /\ stateMap["VERIFICATION_CONFIRMED"] = <<"ERROR", "ERROR">>
    /\ stateMap["ERROR"] = <<"ERROR", "ERROR">>
BY DEF stateMap

LEMMA AllStates ==
    States = {"PENDING", "CONNECTED", "CLIENT_KEY_SENT", "CLIENT_KEY_RECEIVED",
              "SERVER_KEY_REQUESTED", "KEYS_EXCHANGED", "SERVER_VERIFICATION_REQUESTED",
              "SERVER_VERIFICATION_RECEIVED", "VERIFICATION_RESPONSE_SENT",
              "VERIFICATION_CONFIRMED", "ERROR"}
BY DEF States, stateMap

LEMMA RequestTable ==
    /\ DOMAIN Requested = {"CONNECTED", "CLIENT_KEY_RECEIVED", "KEYS_EXCHANGED"}
    /\ Requested["CONNECTED"] = Request("SetPublicKey", ClientKey)
    /\ Requested["CLIENT_KEY_RECEIVED"] = Request("GetPublicKey", Nothing)
    /\ Requested["KEYS_EXCHANGED"] = Request("GetVerification", Nothing)
BY DEF Requested

LEMMA Waiting ==
    /\ Waits[1] = "CLIENT_KEY_SENT" /\ Waits[2] = "SERVER_KEY_REQUESTED"
    /\ Waits[3] = "SERVER_VERIFICATION_REQUESTED" /\ Waits[4] = "VERIFICATION_RESPONSE_SENT"
BY DEF Waits

LEMMA Asking ==
    /\ Asks[1] = Request("SetPublicKey", ClientKey)
    /\ Asks[2] = Request("GetPublicKey", Nothing)
    /\ Asks[3] = Request("GetVerification", Nothing)
    /\ Asks[4] = Request("Verify", Code)
BY DEF Asks

LEMMA Getting ==
    /\ Gets[1] = Answer("KeyReceived", Nothing)
    /\ Gets[2] = Answer("ServerKey", ServerKey)
    /\ Gets[3] = Answer("Verification", Code)
    /\ Gets[4] = Answer("Message", "AvailableActions")
BY DEF Gets

LEMMA Sends ==
    ASSUME NEW state \in {"CONNECTED", "CLIENT_KEY_RECEIVED", "KEYS_EXCHANGED"}, NEW promises,
           Enter(state, promises)
    PROVE  /\ Dispatch(Requested[state]) /\ machine' = stateMap[state][2]
           /\ pending' = promises
           /\ UNCHANGED <<listening, watching, outcome>>
BY DEF Enter, EnterRequesting, EnterVerificationReceived, EnterConfirmed, EnterError

\* The four transitions of a handshake that succeeds, after the first.
LEMMA Connecting ==
    ASSUME machine = "PENDING", NEW promises, Transition("CONNECT", context, promises)
    PROVE  /\ machine' = Waits[1] /\ Dispatch(Asks[1]) /\ pending' = promises
           /\ UNCHANGED <<context, listening, watching, outcome>>
<1>1. UNCHANGED context /\ Enter("CONNECTED", promises)
  BY Table DEF Transition
<1>2. QED
  BY <1>1, Sends, Table, RequestTable, Waiting, Asking

LEMMA KeyConfirmed ==
    ASSUME machine = Waits[1], NEW promises, Transition("CONFIRMED_KEY", context, promises)
    PROVE  /\ machine' = Waits[2] /\ Dispatch(Asks[2]) /\ pending' = promises
           /\ UNCHANGED <<context, listening, watching, outcome>>
<1>1. UNCHANGED context /\ Enter("CLIENT_KEY_RECEIVED", promises)
  BY Table, Waiting DEF Transition
<1>2. QED
  BY <1>1, Sends, Table, RequestTable, Waiting, Asking

LEMMA KeysExchanged ==
    ASSUME machine = Waits[2], NEW new, NEW promises,
           Transition("SERVER_KEY_RECEIVED", new, promises)
    PROVE  /\ machine' = Waits[3] /\ Dispatch(Asks[3]) /\ pending' = promises /\ context' = new
           /\ UNCHANGED <<listening, watching, outcome>>
<1>1. context' = new /\ Enter("KEYS_EXCHANGED", promises)
  BY Table, Waiting DEF Transition
<1>2. QED
  BY <1>1, Sends, Table, RequestTable, Waiting, Asking

LEMMA CodeReceived ==
    ASSUME machine = Waits[3], NEW new, NEW promises,
           new.serverEncryption # Nothing, new.verificationCode # Nothing,
           Transition("RECEIVED_VERIFICATION", new, promises)
    PROVE  /\ machine' = Waits[4] /\ context' = new
           /\ pending' = promises \cup {Promise("encrypt", new.verificationCode)}
           /\ UNCHANGED <<listening, watching, outcome, toServer>>
<1>1. context' = new /\ Enter("SERVER_VERIFICATION_RECEIVED", promises)
  BY Table, Waiting DEF Transition
<1>2. EnterVerificationReceived("SERVER_VERIFICATION_RECEIVED", promises)
  BY <1>1, RequestTable DEF Enter, EnterRequesting, EnterConfirmed, EnterError
<1>3. QED
  BY <1>1, <1>2, Table, Waiting DEF EnterVerificationReceived

LEMMA Confirmed ==
    ASSUME machine = Waits[4], NEW new, NEW promises,
           new.serverEncryption # Nothing, new.message # Nothing,
           Transition("CONFIRM_VERIFICATION", new, promises)
    PROVE  /\ machine' = "VERIFICATION_CONFIRMED" /\ context' = new /\ pending' = promises
           /\ listening' = FALSE /\ outcome' = Append(outcome, "success")
           /\ UNCHANGED <<watching, toServer>>
<1>1. context' = new /\ Enter("VERIFICATION_CONFIRMED", promises)
  BY Table, Waiting DEF Transition
<1>2. EnterConfirmed("VERIFICATION_CONFIRMED", promises)
  BY <1>1, RequestTable DEF Enter, EnterRequesting, EnterVerificationReceived, EnterError
<1>3. QED
  BY <1>1, <1>2 DEF EnterConfirmed

\* Any state has ERROR, and a machine in ERROR has nothing else.
LEMMA Fails ==
    ASSUME NEW new, NEW promises, Transition("ERROR", new, promises)
    PROVE  /\ machine' = "ERROR" /\ pending' = promises
           /\ listening' = FALSE /\ watching' = FALSE
           /\ outcome' = IF watching THEN Append(outcome, "failure") ELSE outcome
           /\ UNCHANGED <<context, toServer>>
<1>1. UNCHANGED context /\ Enter("ERROR", promises)
  BY DEF Transition
<1>2. EnterError("ERROR", promises)
  BY <1>1, RequestTable DEF Enter, EnterRequesting, EnterVerificationReceived, EnterConfirmed
<1>3. QED
  BY <1>1, <1>2 DEF EnterError

LEMMA Ignored ==
    ASSUME machine = "ERROR", NEW transition, transition # "ERROR", NEW new, NEW promises,
           Transition(transition, new, promises)
    PROVE  pending' = promises /\ UNCHANGED <<contextVars, toServer>>
BY Table DEF Transition

-----------------------------------------------------------------------------
(* Places. *)

LEMMA QueueTypes ==
    SessionInv => toServer \in Seq(Requests) /\ toClient \in Seq(Answers) /\ calls \in Seq(K!Call)
BY DEF SessionInv, TypeOK, K!KTypeOK, K!TypeOK

LEMMA Counting == SessionInv => Served \in 0..4
<1>1. \A n \in Nat : n <= 4 => n \in 0..4
  OBVIOUS
<1>2. SessionInv => Served \in Nat /\ Served <= 4
  BY QueueTypes DEF SessionInv, ServerInTurn, Served
<1>3. QED
  BY <1>1, <1>2

LEMMA OneElement ==
    ASSUME NEW S, NEW s \in Seq(S), Len(s) = 1
    PROVE  s = <<s[1]>> /\ Head(s) = s[1] /\ Tail(s) = <<>>
<1>1. s = <<s[1]>>
  OBVIOUS
<1>2. Tail(s) \in Seq(S) /\ Len(Tail(s)) = 0
  OBVIOUS
<1>3. Head(s) = s[1]
  OBVIOUS
<1>4. QED
  BY <1>1, <1>2, <1>3, EmptySeq

\* There is one request under way, or none.
LEMMA OneRequest ==
    ASSUME SessionInv, toServer # <<>>
    PROVE  /\ Served \in 0..3 /\ toServer = <<Asks[Served + 1]>>
           /\ Head(toServer) = Asks[Served + 1] /\ Tail(toServer) = <<>>
           /\ BrowserIn({Waits[Served + 1]})
           /\ pending = {}
           /\ \A i \in DOMAIN toClient : toClient[i] = Answer("Ready", Nothing)
<1>a. toServer \in Seq(Requests) /\ 1 \in DOMAIN toServer /\ Len(toServer) \in DOMAIN toServer
  BY QueueTypes
<1>1. Len(toServer) = 1
  BY <1>a DEF SessionInv, RequestInTurn
<1>b. Served < 4 /\ toServer[1] = Asks[Served + 1] /\ BrowserIn({Waits[Served + 1]})
  BY <1>a DEF SessionInv, RequestInTurn
<1>2. Served \in 0..3 /\ toServer[1] = Asks[Served + 1] /\ BrowserIn({Waits[Served + 1]})
  BY <1>b, Counting
<1>3. toServer = <<Asks[Served + 1]>> /\ Head(toServer) = Asks[Served + 1] /\ Tail(toServer) = <<>>
  BY <1>a, <1>1, <1>2, OneElement
<1>4. QED
  BY <1>2, <1>3 DEF SessionInv, AnswerInTurn, PromiseInTurn

\* What the browser reads is Ready, or the answer it waits for.
LEMMA OneAnswer ==
    ASSUME SessionInv, toClient # <<>>, Head(toClient) # Answer("Ready", Nothing)
    PROVE  /\ Served \in 1..4 /\ Head(toClient) = Gets[Served] /\ Tail(toClient) = <<>>
           /\ Served = 4 => announced
           /\ toServer = <<>> /\ pending = {}
           /\ BrowserIn({Waits[Served]})
<1>1. toClient \in Seq(Answers) /\ 1 \in DOMAIN toClient /\ Head(toClient) = toClient[1]
  BY QueueTypes
<1>2. Len(toClient) = 1 /\ Served > 0 /\ toClient[1] = Gets[Served] /\ (Served = 4 => announced)
      /\ toServer = <<>> /\ pending = {} /\ BrowserIn({Waits[Served]})
  BY <1>1 DEF SessionInv, AnswerInTurn
<1>3. Tail(toClient) = <<>>
  BY <1>1, <1>2, OneElement
<1>4. QED
  BY <1>1, <1>2, <1>3, Counting

LEMMA OnePromise ==
    ASSUME SessionInv, NEW p \in pending
    PROVE  /\ pending = {p} /\ pending \ {p} = {} /\ toServer = <<>>
           /\ \A i \in DOMAIN toClient : toClient[i] = Answer("Ready", Nothing)
           /\ \/ p = Promise("import", ServerKey) /\ Served = 2 /\ BrowserIn({Waits[2]})
              \/ p = Promise("decryptCode", Code) /\ Served = 3 /\ BrowserIn({Waits[3]})
              \/ p = Promise("encrypt", Code) /\ Served = 3 /\ BrowserIn({Waits[4]})
              \/ /\ p = Promise("decryptMessage", "AvailableActions") /\ Served = 4
                 /\ announced /\ BrowserIn({Waits[4]})
BY DEF SessionInv, PromiseInTurn, AnswerInTurn

\* The browser's state tells whether its workflow still listens.
LEMMA Listening ==
    ASSUME SessionInv, listening
    PROVE  machine \in {"PENDING", Waits[1], Waits[2], Waits[3], Waits[4]} /\ watching /\ outcome = <<>>
BY DEF SessionInv, OutcomeInTurn, BrowserInTurn, BrowserIn

-----------------------------------------------------------------------------
(* The server's steps. *)

LEMMA ServerTypes ==
    ASSUME ServerInTurn', calls' \in Seq(K!Call), phase' \in {"start", "loop", "returned"},
           registered' \in {ClientKey, NoKey}, serverKeySent' \in BOOLEAN
    PROVE  K!KTypeOK'
<1>1. panicked' \in BOOLEAN /\ responderHadError' \in BOOLEAN
  BY DEF ServerInTurn
<1>2. verification' \in {Code} \cup {NotSent}
  BY DEF ServerInTurn
<1>3. clientKey' \in {ClientKey} \cup {NoKey} /\ onSendVerify' \in {ClientKey} \cup {NoKey}
  BY DEF ServerInTurn
<1>4. QED
  BY <1>1, <1>2, <1>3 DEF K!KTypeOK, K!TypeOK

LEMMA InitTypes == SessionInit => SessionInv
<1> SUFFICES ASSUME SessionInit PROVE SessionInv
  OBVIOUS
<1> USE DEF SessionInit, ClientInit, K!KInit, K!Init
<1>1. Served = 0
  BY DEF Served
<1>2. ServerInTurn
  BY <1>1, SessionAssumption DEF ServerInTurn
<1>a. calls \in Seq(K!Call)
  OBVIOUS
<1>e. phase \in {"start", "loop", "returned"} /\ registered \in {ClientKey, NoKey}
  OBVIOUS
<1>f. serverKeySent \in BOOLEAN
  OBVIOUS
<1>b. K!KTypeOK
  BY <1>a, <1>e, <1>f DEF K!KTypeOK, K!TypeOK
<1>c. machine \in States /\ context \in Contexts
  BY AllStates DEF Contexts
<1>d. outcome \in Seq({"success", "failure"}) /\ toServer \in Seq(Requests) /\ toClient \in Seq(Answers)
  OBVIOUS
<1>3. TypeOK
  BY <1>b, <1>c, <1>d DEF TypeOK
<1>4. RequestInTurn /\ AnswerInTurn /\ PromiseInTurn
  BY DEF RequestInTurn, AnswerInTurn, PromiseInTurn
<1>5. BrowserInTurn /\ OutcomeInTurn
  BY <1>1, Waiting DEF BrowserInTurn, BrowserIn, OutcomeInTurn
<1>6. QED
  BY <1>2, <1>3, <1>4, <1>5 DEF SessionInv

LEMMA SubscribeKeeps ==
    ASSUME SessionInv, Subscribe PROVE SessionInv'
<1> USE DEF Subscribe, clientVars, contextVars, keyExchangeVars
<1>1. TypeOK'
  BY DEF SessionInv, TypeOK, K!KTypeOK, K!TypeOK
<1>2. ServerInTurn'
  BY DEF SessionInv, ServerInTurn, Served
<1>3. RequestInTurn' /\ AnswerInTurn' /\ PromiseInTurn'
  BY DEF SessionInv, RequestInTurn, AnswerInTurn, PromiseInTurn, Served, BrowserIn
<1>4. BrowserInTurn' /\ OutcomeInTurn'
  BY DEF SessionInv, BrowserInTurn, BrowserIn, OutcomeInTurn, Served
<1>5. QED
  BY <1>1, <1>2, <1>3, <1>4 DEF SessionInv

LEMMA LoseKeeps ==
    ASSUME SessionInv, Lose PROVE SessionInv'
<1> USE DEF Lose, clientVars, contextVars, keyExchangeVars
<1>1. toServer' = <<>>
  BY OneRequest
<1>2. TypeOK'
  BY <1>1 DEF SessionInv, TypeOK, K!KTypeOK, K!TypeOK
<1>3. ServerInTurn'
  BY DEF SessionInv, ServerInTurn, Served
<1>4. RequestInTurn' /\ AnswerInTurn' /\ PromiseInTurn'
  BY <1>1 DEF SessionInv, RequestInTurn, AnswerInTurn, PromiseInTurn, Served, BrowserIn
<1>5. BrowserInTurn' /\ OutcomeInTurn'
  BY <1>1 DEF SessionInv, BrowserInTurn, BrowserIn, OutcomeInTurn, Served
<1>6. QED
  BY <1>2, <1>3, <1>4, <1>5 DEF SessionInv

\* What a step leaves alone stays in turn.
LEMMA ServerAlone ==
    ASSUME SessionInv, UNCHANGED serverVars
    PROVE  ServerInTurn' /\ K!KTypeOK' /\ Served' = Served
           /\ subscribed' \in BOOLEAN /\ announced' \in BOOLEAN /\ lost' \in Nat
<1> USE DEF serverVars, keyExchangeVars
<1>1. ServerInTurn' /\ Served' = Served
  BY DEF SessionInv, ServerInTurn, Served
<1>2. K!KTypeOK'
  BY DEF SessionInv, TypeOK, K!KTypeOK, K!TypeOK
<1>3. QED
  BY <1>1, <1>2 DEF SessionInv, TypeOK

LEMMA BrowserAlone ==
    ASSUME SessionInv, UNCHANGED <<clientVars, open>>, toServer' \in Seq(Requests),
           toClient' \in Seq(Answers), K!KTypeOK', subscribed' \in BOOLEAN,
           announced' \in BOOLEAN, lost' \in Nat
    PROVE  TypeOK' /\ OutcomeInTurn'
<1> USE DEF clientVars, contextVars
<1>1. TypeOK'
  BY DEF SessionInv, TypeOK
<1>2. OutcomeInTurn'
  BY DEF SessionInv, OutcomeInTurn
<1>3. QED
  BY <1>1, <1>2

LEMMA AnswerTypes ==
    /\ \A b \in {ServerKey, Code, "AvailableActions", Nothing} :
          \A v \in {"Ready", "KeyReceived", "ServerKey", "Verification", "Message", "Error"} :
             Answer(v, b) \in Answers
BY DEF Answer, Answers

\* An answer is the last thing under way, if anything is.
LEMMA Appended ==
    ASSUME NEW S, NEW s \in Seq(S), NEW e \in S
    PROVE  /\ Append(s, e) \in Seq(S) /\ Len(Append(s, e)) = Len(s) + 1
           /\ \A i \in DOMAIN Append(s, e) :
                 \/ i \in DOMAIN s /\ Append(s, e)[i] = s[i]
                 \/ i = Len(Append(s, e)) /\ Append(s, e)[i] = e
OBVIOUS

LEMMA Writes ==
    ASSUME SessionInv, NEW a \in Answers, Write(a)
    PROVE  /\ toClient' \in Seq(Answers)
           /\ \A i \in DOMAIN toClient' :
                 \/ i \in DOMAIN toClient /\ toClient'[i] = toClient[i]
                 \/ i = Len(toClient') /\ toClient'[i] = a
BY QueueTypes, Appended DEF Write

LEMMA SetUpKeeps ==
    ASSUME SessionInv, SetUp PROVE SessionInv'
<1> USE DEF SetUp, clientVars, contextVars, K!SetupFails, K!SignalReady, K!vars, K!Return
<1>1. phase = "start" /\ phase' \in {"loop", "returned"} /\ Served = 0 /\ Served' = 0
  BY Counting DEF SessionInv, ServerInTurn, Served
<1>2. ServerInTurn'
  BY <1>1 DEF SessionInv, ServerInTurn, Served
<1>3. K!KTypeOK'
  BY <1>1 DEF SessionInv, TypeOK, K!KTypeOK, K!TypeOK
<1>4. \A i \in DOMAIN toClient : toClient[i] = Answer("Ready", Nothing)
  BY <1>1 DEF SessionInv, AnswerInTurn
<1>5. /\ toClient' \in Seq(Answers)
      /\ \A i \in DOMAIN toClient' : toClient'[i] = Answer("Ready", Nothing)
  BY <1>4, Writes, AnswerTypes, QueueTypes
<1>6. TypeOK' /\ OutcomeInTurn'
  BY <1>3, <1>5, BrowserAlone, QueueTypes DEF SessionInv, TypeOK
<1>7. RequestInTurn' /\ AnswerInTurn' /\ PromiseInTurn'
  BY <1>1, <1>5 DEF SessionInv, RequestInTurn, AnswerInTurn, PromiseInTurn, BrowserIn
<1>8. BrowserInTurn'
  BY <1>1 DEF SessionInv, BrowserInTurn, BrowserIn
<1>9. QED
  BY <1>2, <1>6, <1>7, <1>8 DEF SessionInv

LEMMA AnnounceKeeps ==
    ASSUME SessionInv, Announce PROVE SessionInv'
<1> USE DEF Announce, clientVars, contextVars, keyExchangeVars
<1>1. registered = ClientKey
  BY DEF SessionInv, TypeOK, K!KTypeOK
<1>2. Served = 4 /\ Served' = 4 /\ announced' = TRUE /\ ~announced
  BY <1>1 DEF SessionInv, ServerInTurn, Served
<1>3. ServerInTurn'
  BY <1>2 DEF SessionInv, ServerInTurn, Served
<1>4. K!KTypeOK'
  BY DEF SessionInv, TypeOK, K!KTypeOK, K!TypeOK
<1>5. \A i \in DOMAIN toClient : toClient[i] = Answer("Ready", Nothing)
  BY <1>2 DEF SessionInv, AnswerInTurn
<1>6. toServer = <<>>
  BY <1>2, OneRequest
<1>7. pending = {}
  BY <1>2, OnePromise
<1>8. BrowserIn({Waits[4]})
  BY <1>2 DEF SessionInv, BrowserInTurn, BrowserIn
<1>9. /\ toClient' \in Seq(Answers)
      /\ \A i \in DOMAIN toClient' : toClient'[i] # Answer("Ready", Nothing) =>
            i = Len(toClient') /\ toClient'[i] = Gets[4]
  BY <1>5, Writes, AnswerTypes, Getting
<1>10. TypeOK' /\ OutcomeInTurn'
  BY <1>2, <1>4, <1>9, BrowserAlone, QueueTypes DEF SessionInv, TypeOK
<1>11. AnswerInTurn'
  BY <1>2, <1>6, <1>7, <1>8, <1>9 DEF AnswerInTurn, BrowserIn
<1>12. RequestInTurn' /\ PromiseInTurn'
  BY <1>6, <1>7 DEF RequestInTurn, PromiseInTurn
<1>13. BrowserInTurn'
  BY <1>2, <1>6, <1>8 DEF SessionInv, BrowserInTurn, BrowserIn
<1>14. QED
  BY <1>3, <1>10, <1>11, <1>12, <1>13 DEF SessionInv

LEMMA DroppedKeeps ==
    ASSUME SessionInv, Dropped PROVE SessionInv'
<1> USE DEF Dropped, K!Disconnect, K!Return, K!vars, clientVars, contextVars
<1>1. Served' = Served /\ phase' = "returned"
  BY DEF Served
<1>2. ServerInTurn'
  BY <1>1 DEF SessionInv, ServerInTurn
<1>3. K!KTypeOK'
  BY <1>1 DEF SessionInv, TypeOK, K!KTypeOK, K!TypeOK
<1>4. TypeOK' /\ OutcomeInTurn'
  BY <1>3, BrowserAlone, QueueTypes DEF SessionInv, TypeOK
<1>5. RequestInTurn' /\ AnswerInTurn' /\ PromiseInTurn'
  BY <1>1 DEF SessionInv, RequestInTurn, AnswerInTurn, PromiseInTurn, BrowserIn
<1>6. BrowserInTurn'
  BY <1>1 DEF SessionInv, BrowserInTurn, BrowserIn
<1>7. QED
  BY <1>2, <1>4, <1>5, <1>6 DEF SessionInv

-----------------------------------------------------------------------------
(* The key exchange serves a request. *)

CallTypes == \A i \in 1..4 : InTurn[i] \in K!Call

LEMMA CallsTyped == CallTypes
BY DEF CallTypes, InTurn, K!Call, K!Ops, K!Arguments, K!Responses

LEMMA Calling ==
    /\ InTurn[1] = [op |-> "ReceiveKey", arg |-> ClientKey, resp |-> "KeyReceived",
                    key |-> ClientKey]
    /\ InTurn[2] = [op |-> "SendKey", arg |-> NoKey, resp |-> "PublicKeyResponse",
                    key |-> ClientKey]
    /\ InTurn[3] = [op |-> "SendVerification", arg |-> Code, resp |-> "VerificationResponse",
                    key |-> ClientKey]
    /\ InTurn[4] = [op |-> "Verify", arg |-> Code, resp |-> "Verified", key |-> ClientKey]
BY DEF InTurn

\* The next call of the four is recorded.
LEMMA Recorded ==
    ASSUME SessionInv, Served \in 0..3, calls' = Append(calls, InTurn[Served + 1])
    PROVE  /\ calls' \in Seq(K!Call) /\ Served' = Served + 1
           /\ calls'[Len(calls')] = InTurn[Served + 1]
           /\ \A i \in 1..(Served + 1) : calls'[i] = InTurn[i]
<1>1. InTurn[Served + 1] \in K!Call
  BY CallsTyped DEF CallTypes
<1>2. calls \in Seq(K!Call)
  BY QueueTypes
<1>3. \A S : \A s \in Seq(S), e \in S :
         /\ Append(s, e) \in Seq(S) /\ Len(Append(s, e)) = Len(s) + 1
         /\ Append(s, e)[Len(s) + 1] = e
         /\ \A i \in 1..Len(s) : Append(s, e)[i] = s[i]
  OBVIOUS
<1>4. /\ calls' \in Seq(K!Call) /\ Len(calls') = Len(calls) + 1
      /\ calls'[Len(calls) + 1] = InTurn[Served + 1]
      /\ \A i \in 1..Len(calls) : calls'[i] = calls[i]
  BY <1>1, <1>2, <1>3
<1>5. \A i \in 1..Served : calls[i] = InTurn[i]
  BY DEF SessionInv, ServerInTurn
<1>6. \A i \in 1..(Served + 1) : i \in 1..Served \/ i = Served + 1
  OBVIOUS
<1>7. QED
  BY <1>4, <1>5, <1>6 DEF Served

\* A request that is served is answered, and all but the last leave the loop on.
ServesInTurn ==
    /\ Served' = Served + 1
    /\ Served < 3 => Write(Gets[Served + 1]) /\ phase' = "loop"

\* What Serve leaves to show about each of the four requests: the server's
\* fields, and what is written.
LEMMA ServedKeeps ==
    ASSUME SessionInv, Serve, Served' = Served + 1, Served \in 0..3, K!KTypeOK', ServerInTurn',
           IF Served = 3
             THEN UNCHANGED toClient
             ELSE Write(Gets[Served + 1]) /\ phase' = "loop"
    PROVE  SessionInv' /\ ServesInTurn
<1> USE DEF Serve, clientVars, contextVars
<1>1. /\ toServer' = <<>> /\ pending' = {} /\ BrowserIn({Waits[Served']})
      /\ \A i \in DOMAIN toClient : toClient[i] = Answer("Ready", Nothing)
  BY OneRequest
<1>2. Served # 3 => Gets[Served + 1] \in Answers
  BY AnswerTypes, Getting
<1>3. /\ toClient' \in Seq(Answers)
      /\ \A i \in DOMAIN toClient' : toClient'[i] # Answer("Ready", Nothing) =>
            i = Len(toClient') /\ Served' # 4 /\ toClient'[i] = Gets[Served']
  BY <1>1, <1>2, Writes, QueueTypes
<1>4. TypeOK' /\ OutcomeInTurn'
  BY <1>1, <1>3, BrowserAlone, QueueTypes DEF SessionInv, TypeOK
<1>5. RequestInTurn' /\ PromiseInTurn'
  BY <1>1 DEF RequestInTurn, PromiseInTurn
<1>6. AnswerInTurn'
  BY <1>1, <1>3 DEF AnswerInTurn, BrowserIn
<1>7. BrowserInTurn'
  BY <1>1, Waiting DEF SessionInv, BrowserInTurn, BrowserIn
<1>8. QED
  BY <1>4, <1>5, <1>6, <1>7 DEF SessionInv, ServesInTurn

LEMMA NoError ==
    ASSUME SessionInv, K!RecordError, calls'[Len(calls')].resp # "ErrorResponse"
    PROVE  responderHadError' = FALSE
<1>1. responderHadError = FALSE
  BY DEF SessionInv, ServerInTurn
<1>2. ~(calls'[Len(calls')].resp = "ErrorResponse")
  OBVIOUS
<1>3. responderHadError' = (FALSE \/ FALSE)
  BY <1>1, <1>2, Zenon DEF K!RecordError, K!LastCall
<1>4. QED
  BY <1>3

LEMMA ServeKey ==
    ASSUME SessionInv, Serve, Served = 0 PROVE SessionInv' /\ ServesInTurn
<1>1. Head(toServer) = Request("SetPublicKey", ClientKey)
  BY OneRequest, Asking DEF Serve
<1>2. K!OnSetPublicKey(ClientKey) /\ Answered(calls'[Len(calls')])
  BY <1>1 DEF Serve, Handle, Request
<1>a. /\ phase = "loop" /\ K!ReceiveKey(ClientKey)
      /\ \/ K!Panicked
         \/ /\ K!RecordError /\ UNCHANGED registered
            /\ \/ responderHadError' /\ K!Return
               \/ ~responderHadError' /\ UNCHANGED phase
  BY <1>2, SessionAssumption DEF K!OnSetPublicKey
<1>3. K!AcceptKey(ClientKey)
  BY <1>a DEF K!ReceiveKey, K!ReceiveNotPem, K!RejectKey
<1>4. calls' = Append(calls, InTurn[Served + 1]) /\ panicked' = FALSE
  BY <1>3, Calling DEF K!AcceptKey, K!Respond, SessionInv, ServerInTurn
<1>b. K!RecordError /\ UNCHANGED registered /\ (responderHadError' \/ UNCHANGED phase)
  BY <1>a, <1>4 DEF K!Panicked
<1>5. /\ calls' \in Seq(K!Call) /\ Served' = 1 /\ calls'[Len(calls')] = InTurn[1]
      /\ \A i \in 1..1 : calls'[i] = InTurn[i]
  BY <1>4, Recorded
<1>6. responderHadError' = FALSE
  BY <1>b, <1>5, Calling, NoError
<1>7. phase' = "loop"
  BY <1>a, <1>b, <1>6
<1>8. ServerInTurn'
  BY <1>3, <1>4, <1>5, <1>6, <1>7, <1>b, SessionAssumption DEF K!AcceptKey, SessionInv, ServerInTurn, Serve
<1>c. registered' \in {ClientKey, NoKey} /\ serverKeySent' \in BOOLEAN
  BY <1>3, <1>b DEF SessionInv, TypeOK, K!KTypeOK, K!TypeOK, K!AcceptKey
<1>d. phase' \in {"start", "loop", "returned"}
  BY <1>7
<1>9. K!KTypeOK'
  BY <1>5, <1>8, <1>c, <1>d, ServerTypes
<1>10. Write(Gets[1])
  BY <1>2, <1>5, Calling, Getting DEF Answered
<1>11. QED
  BY <1>5, <1>7, <1>8, <1>9, <1>10, ServedKeeps

LEMMA ServeServerKey ==
    ASSUME SessionInv, Serve, Served = 1 PROVE SessionInv' /\ ServesInTurn
<1>1. Head(toServer) = Request("GetPublicKey", Nothing)
  BY OneRequest, Asking DEF Serve
<1>2. K!OnGetPublicKey /\ Answered(calls'[Len(calls')])
  BY <1>1 DEF Serve, Handle, Request
<1>3. /\ clientKey = ClientKey /\ onSendVerify = ClientKey /\ verification = NotSent
      /\ panicked = FALSE /\ responderHadError = FALSE
  BY DEF SessionInv, ServerInTurn
<1>4. calls' = Append(calls, InTurn[Served + 1]) /\ panicked' = panicked /\ serverKeySent' = TRUE
      /\ UNCHANGED <<clientKey, onSendVerify, verification, phase, registered>>
  BY <1>2, <1>3, Calling DEF K!OnGetPublicKey, K!SendKey, K!Respond
<1>5. /\ calls' \in Seq(K!Call) /\ Served' = 2 /\ calls'[Len(calls')] = InTurn[2]
      /\ \A i \in 1..2 : calls'[i] = InTurn[i]
  <2>1. Served \in 0..3 /\ Served + 1 = 2
    OBVIOUS
  <2>2. QED
    BY <1>4, <2>1, Recorded
<1>6. responderHadError' = FALSE
  BY <1>2, <1>5, Calling, NoError DEF K!OnGetPublicKey
<1>7. ServerInTurn'
  <2>1. Served' <= 4 /\ \A i \in 1..Served' : calls'[i] = InTurn[i]
    BY <1>5
  <2>2. subscribed' /\ phase' # "start"
    BY <1>4, <1>6 DEF SessionInv, ServerInTurn, Serve
  <2>3. (Served' = 4 <=> registered' = ClientKey) /\ (Served' = 4 => phase' = "returned")
    BY <1>4, <1>5, <1>6 DEF SessionInv, ServerInTurn
  <2>4. /\ clientKey' = ClientKey /\ onSendVerify' = ClientKey
        /\ verification' = IF Served' >= 3 THEN Code ELSE NotSent
    BY <1>3, <1>4, <1>5
  <2>5. (serverKeySent' <=> Served' >= 2) /\ panicked' = FALSE /\ responderHadError' = FALSE
    BY <1>3, <1>4, <1>5, <1>6 DEF SessionInv, ServerInTurn
  <2>6. announced' => Served' = 4
    BY <1>5 DEF SessionInv, ServerInTurn, Serve
  <2>7. QED
    BY <1>5, <2>1, <2>2, <2>3, <2>4, <2>5, <2>6 DEF ServerInTurn
<1>8. registered' \in {ClientKey, NoKey} /\ phase' \in {"start", "loop", "returned"}
  BY <1>4 DEF SessionInv, TypeOK, K!KTypeOK
<1>9. K!KTypeOK'
  BY <1>4, <1>5, <1>7, <1>8, ServerTypes
<1>10. Write(Gets[2])
  BY <1>2, <1>5, Calling, Getting DEF Answered
<1>b. phase' = "loop"
  BY <1>2, <1>4 DEF K!OnGetPublicKey
<1>11. QED
  BY <1>5, <1>7, <1>9, <1>10, <1>b, ServedKeeps

LEMMA ServeCode ==
    ASSUME SessionInv, Serve, Served = 2 PROVE SessionInv' /\ ServesInTurn
<1>1. Head(toServer) = Request("GetVerification", Nothing)
  BY OneRequest, Asking DEF Serve
<1>2. K!OnGetVerification /\ Answered(calls'[Len(calls')])
  BY <1>1 DEF Serve, Handle, Request
<1>3. /\ clientKey = ClientKey /\ onSendVerify = ClientKey
      /\ panicked = FALSE /\ responderHadError = FALSE
  BY DEF SessionInv, ServerInTurn
<1>4. calls' = Append(calls, InTurn[Served + 1]) /\ panicked' = panicked /\ verification' = Code
      /\ UNCHANGED <<clientKey, onSendVerify, serverKeySent, phase, registered>>
  BY <1>2, <1>3, Calling, SessionAssumption
     DEF K!OnGetVerification, K!SendVerification, K!Respond
<1>5. /\ calls' \in Seq(K!Call) /\ Served' = 3 /\ calls'[Len(calls')] = InTurn[3]
      /\ \A i \in 1..3 : calls'[i] = InTurn[i]
  <2>1. Served \in 0..3 /\ Served + 1 = 3
    OBVIOUS
  <2>2. QED
    BY <1>4, <2>1, Recorded
<1>6. responderHadError' = FALSE
  BY <1>2, <1>5, Calling, NoError DEF K!OnGetVerification
<1>7. ServerInTurn'
  <2>1. Served' <= 4 /\ \A i \in 1..Served' : calls'[i] = InTurn[i]
    BY <1>5
  <2>2. subscribed' /\ phase' # "start"
    BY <1>4, <1>6 DEF SessionInv, ServerInTurn, Serve
  <2>3. (Served' = 4 <=> registered' = ClientKey) /\ (Served' = 4 => phase' = "returned")
    BY <1>4, <1>5, <1>6 DEF SessionInv, ServerInTurn
  <2>4. /\ clientKey' = ClientKey /\ onSendVerify' = ClientKey
        /\ verification' = IF Served' >= 3 THEN Code ELSE NotSent
    BY <1>3, <1>4, <1>5
  <2>5. (serverKeySent' <=> Served' >= 2) /\ panicked' = FALSE /\ responderHadError' = FALSE
    BY <1>3, <1>4, <1>5, <1>6 DEF SessionInv, ServerInTurn
  <2>6. announced' => Served' = 4
    BY <1>5 DEF SessionInv, ServerInTurn, Serve
  <2>7. QED
    BY <1>5, <2>1, <2>2, <2>3, <2>4, <2>5, <2>6 DEF ServerInTurn
<1>8. registered' \in {ClientKey, NoKey} /\ phase' \in {"start", "loop", "returned"}
      /\ serverKeySent' \in BOOLEAN
  BY <1>4 DEF SessionInv, TypeOK, K!KTypeOK, K!TypeOK
<1>9. K!KTypeOK'
  BY <1>5, <1>7, <1>8, ServerTypes
<1>a. calls'[Len(calls')].resp = "VerificationResponse" /\ calls'[Len(calls')].arg = Code
  BY <1>5, Calling
<1>10. Write(Gets[3])
  BY <1>2, <1>a, Getting DEF Answered
<1>b. phase' = "loop"
  BY <1>2, <1>4 DEF K!OnGetVerification
<1>11. QED
  BY <1>5, <1>7, <1>9, <1>10, <1>b, ServedKeeps

LEMMA ServeVerify ==
    ASSUME SessionInv, Serve, Served = 3 PROVE SessionInv' /\ ServesInTurn
<1>1. Head(toServer) = Request("Verify", Code)
  BY OneRequest, Asking DEF Serve
<1>2. K!OnVerify(Code) /\ Answered(calls'[Len(calls')])
  BY <1>1 DEF Serve, Handle, Request
<1>3. /\ clientKey = ClientKey /\ onSendVerify = ClientKey /\ verification = Code
      /\ serverKeySent = TRUE /\ panicked = FALSE /\ responderHadError = FALSE
  BY DEF SessionInv, ServerInTurn, TypeOK, K!KTypeOK, K!TypeOK
<1>a. K!Verify(Code) /\ K!RecordError /\ K!Return
      /\ registered' = IF K!LastCall.resp = "Verified" THEN K!LastCall.key ELSE registered
  BY <1>2, SessionAssumption DEF K!OnVerify
<1>b. K!KeysExchangedAndCodeSent
  BY <1>3, SessionAssumption DEF K!KeysExchangedAndCodeSent
<1>4. calls' = Append(calls, InTurn[Served + 1]) /\ panicked' = panicked
      /\ UNCHANGED <<clientKey, onSendVerify, serverKeySent, verification>>
  BY <1>a, <1>b, <1>3, Calling DEF K!Verify, K!Respond, K!handlerVars
<1>5. /\ calls' \in Seq(K!Call) /\ Served' = 4 /\ calls'[Len(calls')] = InTurn[4]
      /\ \A i \in 1..4 : calls'[i] = InTurn[i]
  <2>1. Served \in 0..3 /\ Served + 1 = 4
    OBVIOUS
  <2>2. QED
    BY <1>4, <2>1, Recorded
<1>6. responderHadError' = FALSE /\ registered' = ClientKey /\ phase' = "returned"
  BY <1>a, <1>5, Calling, NoError DEF K!LastCall, K!Return
<1>7. ServerInTurn'
  <2>1. Served' <= 4 /\ \A i \in 1..Served' : calls'[i] = InTurn[i]
    BY <1>5
  <2>2. subscribed' /\ phase' # "start"
    BY <1>4, <1>6 DEF SessionInv, ServerInTurn, Serve
  <2>3. (Served' = 4 <=> registered' = ClientKey) /\ (Served' = 4 => phase' = "returned")
    BY <1>4, <1>5, <1>6 DEF SessionInv, ServerInTurn
  <2>4. /\ clientKey' = ClientKey /\ onSendVerify' = ClientKey
        /\ verification' = IF Served' >= 3 THEN Code ELSE NotSent
    BY <1>3, <1>4, <1>5
  <2>5. (serverKeySent' <=> Served' >= 2) /\ panicked' = FALSE /\ responderHadError' = FALSE
    BY <1>3, <1>4, <1>5, <1>6 DEF SessionInv, ServerInTurn
  <2>6. announced' => Served' = 4
    BY <1>5 DEF SessionInv, ServerInTurn, Serve
  <2>7. QED
    BY <1>5, <2>1, <2>2, <2>3, <2>4, <2>5, <2>6 DEF ServerInTurn
<1>8. K!KTypeOK'
  BY <1>3, <1>4, <1>5, <1>6, <1>7, ServerTypes
<1>9. UNCHANGED toClient
  BY <1>2, <1>5, Calling DEF Answered
<1>10. QED
  BY <1>5, <1>7, <1>8, <1>9, ServedKeeps

LEMMA ServeKeeps ==
    ASSUME SessionInv, Serve PROVE SessionInv' /\ ServesInTurn /\ Served \in 0..3
<1>1. Served \in 0..3
  BY OneRequest DEF Serve
<1>2. QED
  BY <1>1, ServeKey, ServeServerKey, ServeCode, ServeVerify

LEMMA ServerKeeps ==
    ASSUME SessionInv, ServerStep PROVE SessionInv'
<1>1. CASE Serve
  BY <1>1, ServeKeeps
<1>2. QED
  BY <1>1, SubscribeKeeps, LoseKeeps, SetUpKeeps, AnnounceKeeps, DroppedKeeps DEF ServerStep

-----------------------------------------------------------------------------
(* The browser's steps. *)

AllReady(answers) == \A i \in DOMAIN answers : answers[i] = Answer("Ready", Nothing)

\* Three ways in which the handshake goes on, or does not.
LEMMA InTurnAsking ==
    ASSUME SessionInv, UNCHANGED serverVars, toServer = <<>>, Served \in 0..3,
           Dispatch(Asks[Served + 1]), machine' \in {Waits[Served + 1], "ERROR"},
           pending' = {}, AllReady(toClient')
    PROVE  RequestInTurn' /\ AnswerInTurn' /\ PromiseInTurn' /\ toServer' \in Seq(Requests)
<1>1. Served' = Served
  BY ServerAlone
<1>2. Asks[Served + 1] \in Requests
  BY Asking DEF Request, Requests
<1>3. toServer' = toServer \/ toServer' = Append(toServer, Asks[Served + 1])
  BY DEF Dispatch
<1>4. toServer' \in Seq(Requests) /\ \A i \in DOMAIN toServer' : i = 1 /\ toServer'[i] = Asks[Served + 1]
  <2>1. toServer \in Seq(Requests) /\ Len(toServer) = 0 /\ DOMAIN toServer = {}
    BY QueueTypes
  <2>2. CASE toServer' = toServer
    BY <2>1, <2>2
  <2>3. CASE toServer' = Append(toServer, Asks[Served + 1])
    <3> DEFINE s == toServer
                e == Asks[Served + 1]
    <3>2. /\ Append(s, e) \in Seq(Requests) /\ Len(Append(s, e)) = Len(s) + 1
          /\ \A i \in DOMAIN Append(s, e) :
                \/ i \in DOMAIN s /\ Append(s, e)[i] = s[i]
                \/ i = Len(Append(s, e)) /\ Append(s, e)[i] = e
      <4> HIDE DEF s, e
      <4>1. s \in Seq(Requests) /\ e \in Requests
        BY <1>2, <2>1 DEF s, e
      <4>2. QED
        BY <4>1, Appended
    <3>3. QED
      BY <2>1, <2>3, <3>2
  <2>4. QED
    BY <1>3, <2>2, <2>3
<1>5. RequestInTurn'
  BY <1>1, <1>4 DEF RequestInTurn, BrowserIn
<1>6. AnswerInTurn' /\ PromiseInTurn'
  BY DEF AnswerInTurn, PromiseInTurn, AllReady
<1>7. QED
  BY <1>4, <1>5, <1>6

LEMMA InTurnPromising ==
    ASSUME SessionInv, UNCHANGED serverVars, toServer' = <<>>, NEW p, pending' = {p},
           AllReady(toClient'),
           \/ Served = 2 /\ p = Promise("import", ServerKey) /\ machine' \in {Waits[2], "ERROR"}
           \/ Served = 3 /\ p = Promise("decryptCode", Code) /\ machine' \in {Waits[3], "ERROR"}
           \/ Served = 3 /\ p = Promise("encrypt", Code) /\ machine' \in {Waits[4], "ERROR"}
           \/ /\ Served = 4 /\ p = Promise("decryptMessage", "AvailableActions")
              /\ announced /\ machine' \in {Waits[4], "ERROR"}
    PROVE  RequestInTurn' /\ AnswerInTurn' /\ PromiseInTurn' /\ pending' \subseteq Promises
<1>1. Served' = Served /\ announced' = announced
  BY ServerAlone DEF serverVars
<1>2. PromiseInTurn'
  BY <1>1 DEF PromiseInTurn, BrowserIn
<1>3. pending' \subseteq Promises
  BY DEF Promises, Promise
<1>4. QED
  BY <1>2, <1>3 DEF RequestInTurn, AnswerInTurn, AllReady

LEMMA InTurnQuiet ==
    ASSUME toServer' = <<>>, pending' = {}, AllReady(toClient')
    PROVE  RequestInTurn' /\ AnswerInTurn' /\ PromiseInTurn'
BY DEF RequestInTurn, AnswerInTurn, PromiseInTurn, AllReady

LEMMA TypesKept ==
    ASSUME SessionInv, UNCHANGED serverVars,
           machine' \in States, context' \in Contexts,
           connectionState' \in {"pending", "connected", "disconnected"},
           listening' \in BOOLEAN, watching' \in BOOLEAN, swallowed' \in BOOLEAN, open' \in BOOLEAN,
           pending' \subseteq Promises, outcome' \in Seq({"success", "failure"}),
           toServer' \in Seq(Requests), toClient' \in Seq(Answers)
    PROVE  TypeOK'
BY ServerAlone DEF TypeOK

LEMMA OpenKeeps ==
    ASSUME SessionInv, OnOpen, UNCHANGED serverVars PROVE SessionInv'
<1>1. machine = "PENDING" /\ Served = 0 /\ toServer = <<>>
  BY DEF OnOpen, SessionInv, BrowserInTurn
<1>2. pending = {} /\ AllReady(toClient)
  BY <1>1 DEF SessionInv, AnswerInTurn, PromiseInTurn, AllReady
<1>3. /\ machine' = Waits[1] /\ Dispatch(Asks[1]) /\ pending' = pending
      /\ UNCHANGED <<context, listening, watching, outcome>>
  BY <1>1, Connecting DEF OnOpen
<1>4. /\ connectionState' = "connected" /\ UNCHANGED <<swallowed, open, toClient>>
  BY DEF OnOpen
<1>5. RequestInTurn' /\ AnswerInTurn' /\ PromiseInTurn' /\ toServer' \in Seq(Requests)
  BY <1>1, <1>2, <1>3, <1>4, InTurnAsking DEF AllReady
<1>6. TypeOK'
  BY <1>3, <1>4, <1>5, Waiting, AllStates, TypesKept DEF SessionInv, TypeOK
<1>7. ServerInTurn' /\ Served' = Served
  BY ServerAlone
<1>8. BrowserInTurn'
  BY <1>1, <1>3, <1>4, <1>7, Waiting DEF BrowserInTurn, BrowserIn
<1>9. OutcomeInTurn'
  BY <1>1, <1>3, <1>4, Waiting DEF SessionInv, OutcomeInTurn
<1>10. QED
  BY <1>5, <1>6, <1>7, <1>8, <1>9 DEF SessionInv

\* Reading takes the first answer; what comes after Ready moves up.
LEMMA Shifted ==
    ASSUME NEW S, NEW s \in Seq(S), s # <<>>
    PROVE  /\ Tail(s) \in Seq(S) /\ Len(Tail(s)) = Len(s) - 1 /\ Len(s) \in Nat
           /\ \A i \in DOMAIN Tail(s) :
                 i \in Nat /\ i + 1 \in DOMAIN s /\ Tail(s)[i] = s[i + 1]
OBVIOUS

LEMMA MessageFrame ==
    ASSUME SessionInv, OnMessage, UNCHANGED serverVars
    PROVE  /\ toClient' = Tail(toClient) /\ toClient' \in Seq(Answers)
           /\ machine \in {Waits[1], Waits[2], Waits[3], Waits[4]} /\ watching /\ outcome = <<>>
           /\ connectionState \notin {"pending", "disconnected"}
           /\ UNCHANGED <<connectionState, swallowed, open>>
<1>1. toClient \in Seq(Answers) /\ toClient # <<>> /\ toClient' = Tail(toClient)
      /\ UNCHANGED <<connectionState, swallowed, open>>
  BY QueueTypes DEF OnMessage
<1>2. toClient' \in Seq(Answers)
  BY <1>1, Shifted
<1>3. machine # "PENDING" /\ connectionState \notin {"pending", "disconnected"}
  BY DEF OnMessage, SessionInv, BrowserInTurn, OutcomeInTurn
<1>4. machine \in {Waits[1], Waits[2], Waits[3], Waits[4]} /\ watching /\ outcome = <<>>
  BY <1>3, Listening DEF OnMessage
<1>5. QED
  BY <1>1, <1>2, <1>3, <1>4

LEMMA ReadyKeeps ==
    ASSUME SessionInv, OnMessage, UNCHANGED serverVars,
           Head(toClient) = Answer("Ready", Nothing)
    PROVE  SessionInv'
<1>1. UNCHANGED <<contextVars, pending, toServer>>
  BY DEF OnMessage, Answer, DecryptsMessage
<1> USE DEF contextVars
<1>2. ServerInTurn' /\ Served' = Served /\ announced' = announced
  BY ServerAlone DEF serverVars
<1>3. TypeOK'
  BY <1>1, MessageFrame, TypesKept DEF SessionInv, TypeOK
<1>4. RequestInTurn' /\ PromiseInTurn'
  BY <1>1, <1>2 DEF SessionInv, RequestInTurn, PromiseInTurn, BrowserIn
<1>5. AnswerInTurn'
  <2>1. /\ Len(toClient') = Len(toClient) - 1 /\ Len(toClient) \in Nat
        /\ \A i \in DOMAIN toClient' :
              i \in Nat /\ i + 1 \in DOMAIN toClient /\ toClient'[i] = toClient[i + 1]
    BY MessageFrame, QueueTypes, Shifted DEF OnMessage
  <2>2. ASSUME NEW i \in DOMAIN toClient', toClient'[i] # Answer("Ready", Nothing)
        PROVE  /\ i = Len(toClient') /\ Served > 0
               /\ toClient'[i] = Gets[Served] /\ (Served = 4 => announced)
               /\ toServer = <<>> /\ pending = {} /\ BrowserIn({Waits[Served]})
    <3>1. i \in Nat /\ i + 1 \in DOMAIN toClient /\ toClient[i + 1] = toClient'[i]
      BY <2>1
    <3>2. i + 1 = Len(toClient) /\ toClient[i + 1] = Gets[Served] /\ Served > 0
          /\ (Served = 4 => announced)
          /\ toServer = <<>> /\ pending = {} /\ BrowserIn({Waits[Served]})
      BY <2>2, <3>1 DEF SessionInv, AnswerInTurn
    <3>3. QED
      BY <2>1, <3>1, <3>2
  <2>3. QED
    BY <1>1, <1>2, <2>2 DEF AnswerInTurn, BrowserIn
<1>6. BrowserInTurn' /\ OutcomeInTurn'
  BY <1>1, <1>2, MessageFrame DEF SessionInv, BrowserInTurn, OutcomeInTurn, BrowserIn
<1>7. QED
  BY <1>2, <1>3, <1>4, <1>5, <1>6 DEF SessionInv

\* What the answers to the four calls lead to.
LEMMA AnswerFrame ==
    ASSUME SessionInv, OnMessage, UNCHANGED serverVars,
           Head(toClient) # Answer("Ready", Nothing)
    PROVE  /\ Served \in 1..4 /\ Head(toClient) = Gets[Served] /\ machine = Waits[Served]
           /\ toServer = <<>> /\ pending = {} /\ toClient' = <<>> /\ AllReady(toClient')
           /\ Served = 4 => announced
<1>1. /\ Served \in 1..4 /\ Head(toClient) = Gets[Served] /\ toClient' = <<>>
      /\ toServer = <<>> /\ pending = {} /\ (Served = 4 => announced)
      /\ machine \in {Waits[Served], "ERROR"}
  BY OneAnswer, MessageFrame DEF OnMessage, BrowserIn
<1>2. machine # "ERROR"
  BY MessageFrame, Waiting
<1>3. QED
  BY <1>1, <1>2 DEF AllReady

LEMMA KeyReceivedKeeps ==
    ASSUME SessionInv, OnMessage, UNCHANGED serverVars,
           Head(toClient) # Answer("Ready", Nothing), Served = 1
    PROVE  SessionInv'
<1>1. Transition("CONFIRMED_KEY", context, pending)
  BY AnswerFrame, Getting DEF OnMessage, Answer, DecryptsMessage
<1>2. /\ machine' = Waits[2] /\ Dispatch(Asks[2]) /\ pending' = {}
      /\ UNCHANGED <<context, listening, watching, outcome>>
  BY <1>1, AnswerFrame, KeyConfirmed
<1>3. Served \in 0..3 /\ Served + 1 = 2
  OBVIOUS
<1>4. RequestInTurn' /\ AnswerInTurn' /\ PromiseInTurn' /\ toServer' \in Seq(Requests)
  BY <1>2, <1>3, AnswerFrame, InTurnAsking
<1>5. ServerInTurn' /\ Served' = 1
  BY ServerAlone
<1>6. TypeOK'
  BY <1>2, <1>4, MessageFrame, AllStates, Waiting, TypesKept DEF SessionInv, TypeOK
<1>7. BrowserInTurn'
  BY <1>2, <1>5, MessageFrame, Waiting DEF BrowserInTurn, BrowserIn
<1>8. OutcomeInTurn'
  BY <1>2, MessageFrame, Waiting DEF OnMessage, OutcomeInTurn
<1>9. QED
  BY <1>4, <1>5, <1>6, <1>7, <1>8 DEF SessionInv

\* The other three are decrypted, or imported, later.
LEMMA LaterKeeps ==
    ASSUME SessionInv, OnMessage, UNCHANGED serverVars,
           Head(toClient) # Answer("Ready", Nothing), Served \in 2..4
    PROVE  SessionInv'
<1> DEFINE p == IF Served = 2 THEN Promise("import", ServerKey)
                ELSE IF Served = 3 THEN Promise("decryptCode", Code)
                ELSE Promise("decryptMessage", "AvailableActions")
<1>1. pending' = pending \cup {p} /\ UNCHANGED <<contextVars, toServer>>
  BY AnswerFrame, Getting DEF OnMessage, Answer, DecryptsMessage, Later
<1>2. pending' = {p} /\ toServer' = <<>>
  BY <1>1, AnswerFrame
<1>3. RequestInTurn' /\ AnswerInTurn' /\ PromiseInTurn' /\ pending' \subseteq Promises
  <2>1. machine' = Waits[Served] /\ AllReady(toClient') /\ (Served = 4 => announced)
    BY <1>1, AnswerFrame DEF contextVars
  <2>2. CASE Served = 2
    BY <1>2, <2>1, <2>2, InTurnPromising
  <2>3. CASE Served = 3
    BY <1>2, <2>1, <2>3, InTurnPromising
  <2>4. CASE Served = 4
    BY <1>2, <2>1, <2>4, InTurnPromising
  <2>5. QED
    BY <2>2, <2>3, <2>4
<1> USE DEF contextVars
<1>4. ServerInTurn' /\ Served' = Served /\ announced' = announced
  BY ServerAlone DEF serverVars
<1>5. TypeOK'
  BY <1>1, <1>3, MessageFrame, TypesKept DEF SessionInv, TypeOK
<1>6. BrowserInTurn' /\ OutcomeInTurn'
  BY <1>1, <1>2, <1>4, MessageFrame DEF SessionInv, BrowserInTurn, OutcomeInTurn, BrowserIn
<1>7. QED
  BY <1>3, <1>4, <1>5, <1>6 DEF SessionInv

LEMMA MessageKeeps ==
    ASSUME SessionInv, OnMessage, UNCHANGED serverVars PROVE SessionInv'
<1>1. CASE Head(toClient) = Answer("Ready", Nothing)
  BY <1>1, ReadyKeeps
<1>2. CASE Head(toClient) # Answer("Ready", Nothing)
  <2>1. Served = 1 \/ Served \in 2..4
    BY <1>2, AnswerFrame
  <2>2. QED
    BY <1>2, <2>1, KeyReceivedKeeps, LaterKeeps
<1>3. QED
  BY <1>1, <1>2

LEMMA CloseEventKeeps ==
    ASSUME SessionInv, OnClose, UNCHANGED serverVars PROVE SessionInv'
<1>1. /\ toClient = <<>> /\ connectionState' = "disconnected"
      /\ UNCHANGED <<swallowed, open, toClient>>
  BY DEF OnClose
<1>2. ServerInTurn' /\ Served' = Served /\ announced' = announced
  BY ServerAlone DEF serverVars
<1>3. CASE listening
  <2>1. /\ machine' = "ERROR" /\ pending' = pending /\ listening' = FALSE /\ watching' = FALSE
        /\ outcome' = Append(outcome, "failure")
        /\ UNCHANGED <<context, toServer>>
    BY <1>3, Fails, Listening DEF OnClose
  <2>2. outcome' = <<"failure">>
    BY <1>3, <2>1, Listening
  <2>3. RequestInTurn' /\ AnswerInTurn' /\ PromiseInTurn'
    BY <1>1, <1>2, <2>1 DEF SessionInv, RequestInTurn, AnswerInTurn, PromiseInTurn, BrowserIn
  <2>4. TypeOK'
    <3>1. <<"failure">> \in Seq({"success", "failure"})
      OBVIOUS
    <3>2. QED
      BY <1>1, <2>1, <2>2, <3>1, AllStates, TypesKept DEF SessionInv, TypeOK
  <2>5. BrowserInTurn' /\ OutcomeInTurn'
    BY <1>1, <2>1, <2>2, Waiting DEF BrowserInTurn, OutcomeInTurn, BrowserIn
  <2>6. QED
    BY <1>2, <2>3, <2>4, <2>5 DEF SessionInv
<1>4. CASE ~listening
  <2> USE DEF contextVars
  <2>1. UNCHANGED <<contextVars, pending, toServer>>
    BY <1>4 DEF OnClose
  <2>2. machine # "PENDING"
    BY <1>4 DEF SessionInv, OutcomeInTurn
  <2>3. RequestInTurn' /\ AnswerInTurn' /\ PromiseInTurn'
    BY <1>1, <1>2, <2>1 DEF SessionInv, RequestInTurn, AnswerInTurn, PromiseInTurn, BrowserIn
  <2>4. TypeOK'
    BY <1>1, <2>1, TypesKept DEF SessionInv, TypeOK
  <2>5. BrowserInTurn' /\ OutcomeInTurn'
    BY <1>1, <1>2, <1>4, <2>1, <2>2 DEF SessionInv, BrowserInTurn, OutcomeInTurn, BrowserIn
  <2>6. QED
    BY <1>2, <2>3, <2>4, <2>5 DEF SessionInv
<1>5. QED
  BY <1>3, <1>4

LEMMA Cut ==
    ASSUME NEW S, NEW s \in Seq(S), NEW n \in 0..Len(s)
    PROVE  /\ SubSeq(s, 1, n) \in Seq(S) /\ Len(SubSeq(s, 1, n)) = n
           /\ \A i \in DOMAIN SubSeq(s, 1, n) : i \in DOMAIN s /\ i <= n /\ SubSeq(s, 1, n)[i] = s[i]
OBVIOUS

\* The socket closes: of what is under way a prefix arrives.
LEMMA CloseKeeps ==
    ASSUME SessionInv, Close, UNCHANGED serverVars PROVE SessionInv'
<1> USE DEF clientVars, contextVars
<1>1. ServerInTurn' /\ Served' = Served /\ announced' = announced
  BY ServerAlone DEF serverVars
<1>2. PICK n \in 0..Len(toServer) : toServer' = SubSeq(toServer, 1, n)
  BY DEF Close
<1>3. PICK k \in 0..Len(toClient) : toClient' = SubSeq(toClient, 1, k)
  BY DEF Close
<1>4. /\ toServer' \in Seq(Requests) /\ Len(toServer') = n
      /\ \A i \in DOMAIN toServer' : i \in DOMAIN toServer /\ toServer'[i] = toServer[i]
  BY <1>2, QueueTypes, Cut
<1>5. /\ toClient' \in Seq(Answers) /\ Len(toClient') = k
      /\ \A i \in DOMAIN toClient' :
            i \in DOMAIN toClient /\ i <= k /\ toClient'[i] = toClient[i]
  BY <1>3, QueueTypes, Cut
<1>6. toServer = <<>> => toServer' = <<>>
  <2>1. toServer = <<>> => n = 0
    OBVIOUS
  <2>2. QED
    BY <1>4, <2>1, EmptySeq
<1>7. UNCHANGED clientVars /\ open' = FALSE
  BY DEF Close
<1>8. TypeOK'
  BY <1>4, <1>5, <1>7, TypesKept DEF SessionInv, TypeOK
<1>9. RequestInTurn' /\ PromiseInTurn'
  BY <1>1, <1>4, <1>6, <1>7 DEF SessionInv, RequestInTurn, PromiseInTurn, BrowserIn
<1>10. AnswerInTurn'
  <2>1. ASSUME NEW i \in DOMAIN toClient', toClient'[i] # Answer("Ready", Nothing)
        PROVE  /\ i = Len(toClient') /\ Served > 0
               /\ toClient'[i] = Gets[Served] /\ (Served = 4 => announced)
               /\ toServer = <<>> /\ pending = {} /\ BrowserIn({Waits[Served]})
    <3>1. i \in DOMAIN toClient /\ i <= k /\ toClient[i] = toClient'[i]
      BY <1>5
    <3>2. i = Len(toClient) /\ toClient[i] = Gets[Served] /\ Served > 0
          /\ (Served = 4 => announced)
          /\ toServer = <<>> /\ pending = {} /\ BrowserIn({Waits[Served]})
      BY <2>1, <3>1 DEF SessionInv, AnswerInTurn
    <3>3. Len(toClient) \in Nat
      BY QueueTypes
    <3>4. QED
      BY <1>5, <3>1, <3>2, <3>3
  <2>2. QED
    BY <1>1, <1>6, <1>7, <2>1 DEF AnswerInTurn, BrowserIn
<1>11. BrowserInTurn' /\ OutcomeInTurn'
  BY <1>1, <1>6, <1>7 DEF SessionInv, BrowserInTurn, OutcomeInTurn, BrowserIn
<1>12. QED
  BY <1>1, <1>8, <1>9, <1>10, <1>11 DEF SessionInv

-----------------------------------------------------------------------------
(* Promises. *)

\* A promise that settles without an effect on the workflow, be it logged or
\* too late.
LEMMA NoEffect ==
    ASSUME SessionInv, NEW p \in pending, pending' = pending \ {p},
           UNCHANGED <<contextVars, toServer, connectionState, open, toClient, serverVars>>,
           swallowed' \in BOOLEAN
    PROVE  SessionInv'
<1> USE DEF contextVars
<1>1. ServerInTurn' /\ Served' = Served /\ announced' = announced
  BY ServerAlone DEF serverVars
<1>2. pending' = {} /\ toServer' = <<>> /\ AllReady(toClient')
  BY OnePromise DEF AllReady
<1>3. RequestInTurn' /\ AnswerInTurn' /\ PromiseInTurn'
  BY <1>2, InTurnQuiet
<1>4. TypeOK'
  BY <1>2, TypesKept DEF SessionInv, TypeOK
<1>5. BrowserInTurn' /\ OutcomeInTurn'
  BY <1>1 DEF SessionInv, BrowserInTurn, OutcomeInTurn, BrowserIn
<1>6. QED
  BY <1>1, <1>3, <1>4, <1>5 DEF SessionInv

LEMMA PromiseFrame ==
    ASSUME SessionInv, NEW p \in pending, Fulfilled(p), UNCHANGED serverVars
    PROVE  /\ UNCHANGED <<connectionState, swallowed, open, toClient>>
           /\ AllReady(toClient') /\ toServer = <<>> /\ pending \ {p} = {}
           /\ ServerInTurn' /\ Served' = Served /\ announced' = announced
<1>1. UNCHANGED <<connectionState, swallowed, open, toClient>>
  BY DEF Fulfilled
<1>2. AllReady(toClient')
  BY <1>1, OnePromise DEF AllReady
<1>3. QED
  BY <1>1, <1>2, OnePromise, ServerAlone DEF serverVars

LEMMA ImportKeeps ==
    ASSUME SessionInv, NEW p \in pending, Fulfilled(p), UNCHANGED serverVars,
           p = Promise("import", ServerKey)
    PROVE  SessionInv'
<1> DEFINE new == [context EXCEPT !.serverEncryption = ServerKey]
<1>1. Served = 2 /\ BrowserIn({Waits[2]}) /\ p.op = "import" /\ p.value = ServerKey
  BY OnePromise DEF Promise
<1>2. Transition("SERVER_KEY_RECEIVED", new, pending \ {p})
  BY <1>1 DEF Fulfilled, Verifies
<1>3. CASE machine = "ERROR"
  <2>1. pending' = pending \ {p} /\ UNCHANGED <<contextVars, toServer>>
    BY <1>2, <1>3, Ignored
  <2>2. QED
    BY <2>1, PromiseFrame, NoEffect DEF SessionInv, TypeOK
<1>4. CASE machine = Waits[2]
  <2>1. /\ machine' = Waits[3] /\ Dispatch(Asks[3]) /\ pending' = {} /\ context' = new
        /\ UNCHANGED <<listening, watching, outcome>>
    BY <1>2, <1>4, PromiseFrame, KeysExchanged
  <2>2. new \in Contexts /\ new.serverEncryption = ServerKey
    BY DEF SessionInv, TypeOK, Contexts
  <2>3. Served \in 0..3 /\ Served + 1 = 3
    BY <1>1
  <2>4. RequestInTurn' /\ AnswerInTurn' /\ PromiseInTurn' /\ toServer' \in Seq(Requests)
    BY <2>1, <2>3, PromiseFrame, InTurnAsking
  <2>5. TypeOK'
    BY <2>1, <2>2, <2>4, PromiseFrame, AllStates, Waiting, TypesKept DEF SessionInv, TypeOK
  <2>6. connectionState # "pending"
    BY <1>4, Waiting DEF SessionInv, BrowserInTurn
  <2>7. BrowserInTurn'
    BY <1>1, <2>1, <2>2, <2>6, PromiseFrame, Waiting DEF BrowserInTurn, BrowserIn
  <2>8. OutcomeInTurn'
    BY <1>4, <2>1, PromiseFrame, Waiting DEF SessionInv, OutcomeInTurn
  <2>9. QED
    BY <2>4, <2>5, <2>7, <2>8, PromiseFrame DEF SessionInv
<1>5. QED
  BY <1>1, <1>3, <1>4 DEF BrowserIn

LEMMA CodeKeeps ==
    ASSUME SessionInv, NEW p \in pending, Fulfilled(p), UNCHANGED serverVars,
           p = Promise("decryptCode", Code)
    PROVE  SessionInv'
<1> DEFINE new == [context EXCEPT !.verificationCode = Code]
<1>1. Served = 3 /\ BrowserIn({Waits[3]}) /\ p.op = "decryptCode" /\ p.value = Code
  BY OnePromise DEF Promise
<1>2. Transition("RECEIVED_VERIFICATION", new, pending \ {p})
  BY <1>1 DEF Fulfilled, Verifies
<1>3. CASE machine = "ERROR"
  <2>1. pending' = pending \ {p} /\ UNCHANGED <<contextVars, toServer>>
    BY <1>2, <1>3, Ignored
  <2>2. QED
    BY <2>1, PromiseFrame, NoEffect DEF SessionInv, TypeOK
<1>4. CASE machine = Waits[3]
  <2>1. context.serverEncryption = ServerKey
    BY <1>4 DEF SessionInv, BrowserInTurn
  <2>2. new \in Contexts /\ new.serverEncryption = ServerKey /\ new.verificationCode = Code
    BY <2>1 DEF SessionInv, TypeOK, Contexts
  <2>3. /\ machine' = Waits[4] /\ context' = new /\ pending' = {Promise("encrypt", Code)}
        /\ UNCHANGED <<listening, watching, outcome, toServer>>
    <3>1. new.serverEncryption # Nothing /\ new.verificationCode # Nothing
      BY <2>2, ClientAssumption
    <3> HIDE DEF new
    <3>2. /\ machine' = Waits[4] /\ context' = new
          /\ pending' = (pending \ {p}) \cup {Promise("encrypt", new.verificationCode)}
          /\ UNCHANGED <<listening, watching, outcome, toServer>>
      BY <1>2, <1>4, <3>1, CodeReceived
    <3>3. QED
      BY <2>2, <3>2, PromiseFrame
  <2>4. RequestInTurn' /\ AnswerInTurn' /\ PromiseInTurn' /\ pending' \subseteq Promises
    BY <1>1, <2>3, PromiseFrame, InTurnPromising
  <2>5. TypeOK'
    BY <2>2, <2>3, <2>4, PromiseFrame, AllStates, Waiting, TypesKept DEF SessionInv, TypeOK
  <2>6. connectionState # "pending"
    BY <1>4, Waiting DEF SessionInv, BrowserInTurn
  <2>7. BrowserInTurn'
    BY <1>1, <2>2, <2>3, <2>6, PromiseFrame, Waiting DEF BrowserInTurn, BrowserIn
  <2>8. OutcomeInTurn'
    BY <1>4, <2>3, PromiseFrame, Waiting DEF SessionInv, OutcomeInTurn
  <2>9. QED
    BY <2>4, <2>5, <2>7, <2>8, PromiseFrame DEF SessionInv
<1>5. QED
  BY <1>1, <1>3, <1>4 DEF BrowserIn

LEMMA VerifyKeeps ==
    ASSUME SessionInv, NEW p \in pending, Fulfilled(p), UNCHANGED serverVars,
           p = Promise("encrypt", Code)
    PROVE  SessionInv'
<1>1. Served = 3 /\ machine \in {Waits[4], "ERROR"} /\ p.op = "encrypt" /\ p.value = Code
  BY OnePromise DEF Promise, BrowserIn
<1>2. Dispatch(Asks[4]) /\ pending' = {} /\ UNCHANGED contextVars
  BY <1>1, PromiseFrame, Asking DEF Fulfilled, Verifies
<1> USE DEF contextVars
<1>3. Served \in 0..3 /\ Served + 1 = 4
  BY <1>1
<1>4. RequestInTurn' /\ AnswerInTurn' /\ PromiseInTurn' /\ toServer' \in Seq(Requests)
  BY <1>1, <1>2, <1>3, PromiseFrame, InTurnAsking
<1>5. TypeOK'
  BY <1>2, <1>4, PromiseFrame, TypesKept DEF SessionInv, TypeOK
<1>6. machine # "PENDING"
  BY <1>1, Waiting
<1>7. BrowserInTurn' /\ OutcomeInTurn'
  BY <1>2, <1>6, PromiseFrame DEF SessionInv, BrowserInTurn, OutcomeInTurn, BrowserIn
<1>8. QED
  BY <1>4, <1>5, <1>7, PromiseFrame DEF SessionInv

LEMMA ConfirmKeeps ==
    ASSUME SessionInv, NEW p \in pending, Fulfilled(p), UNCHANGED serverVars,
           p = Promise("decryptMessage", "AvailableActions")
    PROVE  SessionInv'
<1> DEFINE new == [context EXCEPT !.message = "AvailableActions"]
<1>1. Served = 4 /\ announced /\ BrowserIn({Waits[4]}) /\ p.op = "decryptMessage"
      /\ p.value = "AvailableActions"
  BY OnePromise DEF Promise
<1>2. Transition("CONFIRM_VERIFICATION", new, pending \ {p})
  BY <1>1 DEF Fulfilled, Verifies
<1>3. CASE machine = "ERROR"
  <2>1. pending' = pending \ {p} /\ UNCHANGED <<contextVars, toServer>>
    BY <1>2, <1>3, Ignored
  <2>2. QED
    BY <2>1, PromiseFrame, NoEffect DEF SessionInv, TypeOK
<1>4. CASE machine = Waits[4]
  <2>1. context.serverEncryption = ServerKey /\ context.verificationCode = Code
    BY <1>4 DEF SessionInv, BrowserInTurn
  <2>2. new \in Contexts /\ new.serverEncryption = ServerKey /\ new.verificationCode = Code
        /\ new.message = "AvailableActions"
    BY <2>1 DEF SessionInv, TypeOK, Contexts
  <2>3. machine \notin {"PENDING", "ERROR", "VERIFICATION_CONFIRMED"} /\ connectionState = "connected"
        /\ outcome = <<>> /\ watching
    BY <1>4, Waiting DEF SessionInv, TypeOK, BrowserInTurn, OutcomeInTurn
  <2>4. /\ machine' = "VERIFICATION_CONFIRMED" /\ context' = new /\ pending' = {}
        /\ listening' = FALSE /\ outcome' = <<"success">>
        /\ UNCHANGED <<watching, toServer>>
    <3>1. new.serverEncryption # Nothing /\ new.message # Nothing
      BY <2>2, ClientAssumption
    <3> HIDE DEF new
    <3>2. /\ machine' = "VERIFICATION_CONFIRMED" /\ context' = new /\ pending' = pending \ {p}
          /\ listening' = FALSE /\ outcome' = Append(outcome, "success")
          /\ UNCHANGED <<watching, toServer>>
      BY <1>2, <1>4, <3>1, Confirmed
    <3>3. QED
      BY <2>3, <3>2, PromiseFrame
  <2>5. RequestInTurn' /\ AnswerInTurn' /\ PromiseInTurn'
    BY <2>4, PromiseFrame, InTurnQuiet
  <2>6. <<"success">> \in Seq({"success", "failure"})
    OBVIOUS
  <2>7. TypeOK'
    BY <2>2, <2>4, <2>6, PromiseFrame, AllStates, TypesKept DEF SessionInv, TypeOK
  <2>8. BrowserInTurn'
    BY <1>1, <2>2, <2>3, <2>4, PromiseFrame, Waiting DEF BrowserInTurn, BrowserIn
  <2>9. OutcomeInTurn'
    BY <2>3, <2>4, PromiseFrame DEF OutcomeInTurn
  <2>10. QED
    BY <2>5, <2>7, <2>8, <2>9, PromiseFrame DEF SessionInv
<1>5. QED
  BY <1>1, <1>3, <1>4 DEF BrowserIn

LEMMA RejectedKeeps ==
    ASSUME SessionInv, NEW p \in pending, Rejected(p), UNCHANGED serverVars
    PROVE  SessionInv'
<1>1. UNCHANGED <<connectionState, open, toClient>>
  BY DEF Rejected
<1>2. CASE p.op # "decryptCode"
  BY <1>1, <1>2, NoEffect DEF Rejected
<1>3. CASE p.op = "decryptCode"
  <2>1. p = Promise("decryptCode", Code) /\ Served = 3 /\ machine \in {Waits[3], "ERROR"}
        /\ toServer = <<>> /\ pending \ {p} = {} /\ AllReady(toClient')
    BY <1>1, <1>3, OnePromise DEF Promise, BrowserIn, AllReady
  <2>2. /\ machine' = "ERROR" /\ pending' = {} /\ listening' = FALSE /\ watching' = FALSE
        /\ outcome' = IF watching THEN Append(outcome, "failure") ELSE outcome
        /\ UNCHANGED <<context, toServer, swallowed>>
    BY <1>3, <2>1, Fails DEF Rejected
  <2>3. machine # "PENDING"
    BY <2>1, Waiting
  <2>4. outcome' = <<"failure">>
    <3>1. CASE machine = Waits[3]
      BY <2>2, <3>1, Waiting DEF SessionInv, OutcomeInTurn
    <3>2. CASE machine = "ERROR"
      BY <2>2, <3>2 DEF SessionInv, OutcomeInTurn
    <3>3. QED
      BY <2>1, <3>1, <3>2
  <2>5. RequestInTurn' /\ AnswerInTurn' /\ PromiseInTurn'
    BY <2>1, <2>2, InTurnQuiet
  <2>6. <<"failure">> \in Seq({"success", "failure"})
    OBVIOUS
  <2>7. TypeOK'
    BY <1>1, <2>2, <2>4, <2>6, AllStates, TypesKept DEF SessionInv, TypeOK
  <2>8. ServerInTurn' /\ Served' = Served
    BY ServerAlone
  <2>9. BrowserInTurn' /\ OutcomeInTurn'
    BY <1>1, <2>2, <2>3, <2>4, <2>8, Waiting DEF SessionInv, BrowserInTurn, OutcomeInTurn, BrowserIn
  <2>10. QED
    BY <2>5, <2>7, <2>8, <2>9 DEF SessionInv
<1>4. QED
  BY <1>2, <1>3

LEMMA SettlesKeeps ==
    ASSUME SessionInv, Settles, UNCHANGED serverVars PROVE SessionInv'
<1>1. PICK p \in pending : Fulfilled(p) \/ Rejected(p)
  BY DEF Settles
<1>2. QED
  BY <1>1, OnePromise, ImportKeeps, CodeKeeps, VerifyKeeps, ConfirmKeeps, RejectedKeeps

-----------------------------------------------------------------------------
LEMMA InvKept == SessionInv /\ [SessionNext]_sessionVars => SessionInv'
<1> SUFFICES ASSUME SessionInv, [SessionNext]_sessionVars PROVE SessionInv'
  OBVIOUS
<1>1. CASE ServerStep
  BY <1>1, ServerKeeps
<1>2. CASE ClientStep
  BY <1>2, OpenKeeps, MessageKeeps, CloseEventKeeps, SettlesKeeps DEF ClientStep
<1>3. CASE Close /\ UNCHANGED serverVars
  BY <1>3, CloseKeeps
<1>4. CASE UNCHANGED sessionVars
  <2> USE <1>4 DEF sessionVars, clientVars, contextVars
  <2>1. ServerInTurn' /\ Served' = Served /\ announced' = announced
    BY ServerAlone DEF serverVars
  <2>2. TypeOK'
    BY TypesKept DEF SessionInv, TypeOK
  <2>3. RequestInTurn' /\ AnswerInTurn' /\ PromiseInTurn'
    BY <2>1 DEF SessionInv, RequestInTurn, AnswerInTurn, PromiseInTurn, BrowserIn
  <2>4. BrowserInTurn' /\ OutcomeInTurn'
    BY <2>1 DEF SessionInv, BrowserInTurn, OutcomeInTurn, BrowserIn
  <2>5. QED
    BY <2>1, <2>2, <2>3, <2>4 DEF SessionInv
<1>5. QED
  BY <1>1, <1>2, <1>3, <1>4 DEF SessionNext

LEMMA InvAlways == SessionSpec => []SessionInv
BY InitTypes, InvKept, PTL DEF SessionSpec

(***************************************************************************)
(* The machine, the promises, both queues and the fields of the server     *)
(* keep their types.                                                       *)
(***************************************************************************)
THEOREM TypesAreKept == SessionSpec => []TypeOK
<1>1. SessionInv => TypeOK
  BY DEF SessionInv
<1>2. QED
  BY <1>1, InvAlways, PTL

(***************************************************************************)
(* Whatever is lost, rejected or closed, the handler of the server never   *)
(* answers the browser with an error, and never panics: each request comes *)
(* at its turn, and none twice.                                            *)
(***************************************************************************)
THEOREM NoRequestIsRefused == SessionSpec => []NeverRefused
<1>1. SessionInv => NeverRefused
  <2> SUFFICES ASSUME SessionInv PROVE NeverRefused
    OBVIOUS
  <2>1. ~panicked
    BY DEF SessionInv, ServerInTurn
  <2>2. \A i \in 1..4 : InTurn[i].resp # "ErrorResponse"
    BY Calling
  <2>3. \A i \in DOMAIN calls : i \in 1..Served /\ i \in 1..4
    BY QueueTypes, Counting DEF Served
  <2>4. QED
    BY <2>1, <2>2, <2>3 DEF NeverRefused, SessionInv, ServerInTurn
<1>2. QED
  BY <1>1, InvAlways, PTL

(***************************************************************************)
(* A browser that goes on after the handshake is registered under its own  *)
(* key, has the server's key and the code the server has, and goes on with *)
(* AvailableActions.                                                       *)
(***************************************************************************)
THEOREM SuccessIsAgreed == SessionSpec => []BothAgree
<1>1. SessionInv => BothAgree
  <2> SUFFICES ASSUME SessionInv, NEW i \in DOMAIN outcome, outcome[i] = "success"
               PROVE  /\ registered = ClientKey /\ announced
                      /\ context = [serverEncryption |-> ServerKey, verificationCode |-> verification,
                                    message |-> "AvailableActions"]
    BY DEF BothAgree
  <2>1. machine = "VERIFICATION_CONFIRMED"
    BY DEF SessionInv, OutcomeInTurn
  <2>2. announced /\ context.serverEncryption = ServerKey /\ context.verificationCode = Code
        /\ context.message = "AvailableActions"
    BY <2>1 DEF SessionInv, BrowserInTurn
  <2>3. Served = 4 /\ registered = ClientKey
    BY <2>2 DEF SessionInv, ServerInTurn
  <2>4. verification = Code
    BY <2>3 DEF SessionInv, ServerInTurn
  <2>5. context = [serverEncryption |-> ServerKey, verificationCode |-> Code,
                   message |-> "AvailableActions"]
    BY <2>2 DEF SessionInv, TypeOK, Contexts
  <2>6. QED
    BY <2>2, <2>3, <2>4, <2>5
<1>2. QED
  BY <1>1, InvAlways, PTL

-----------------------------------------------------------------------------
(* The session implements Workflow. *)

LEMMA Results ==
    /\ outcome = <<>> => Result = "none"
    /\ outcome = <<"success">> => Result = "success"
    /\ outcome = <<"failure">> => Result = "failure"
BY DEF Result

LEMMA ResultsNext ==
    /\ outcome' = <<>> => Result' = "none"
    /\ outcome' = <<"success">> => Result' = "success"
    /\ outcome' = <<"failure">> => Result' = "failure"
BY DEF Result

LEMMA OneOutcome ==
    SessionInv => outcome \in {<<>>, <<"success">>, <<"failure">>}
BY DEF SessionInv, OutcomeInTurn

\* The abstract steps, and what the session must do to take one.
Allowed == Contract!Open \/ Contract!Succeed \/ Contract!Fail \/ Contract!Disconnect

LEMMA Stutters ==
    ASSUME UNCHANGED <<outcome, connectionState>>
    PROVE  UNCHANGED Contract!workflowVars
BY DEF Contract!workflowVars, Result

LEMMA Outcomes ==
    ASSUME NEW transition, NEW new, NEW promises, Transition(transition, new, promises)
    PROVE  \/ outcome' = outcome
           \/ outcome' = Append(outcome, "success")
           \/ outcome' = Append(outcome, "failure")
<1>1. CASE UNCHANGED contextVars
  BY <1>1 DEF contextVars
<1>2. CASE ~ UNCHANGED contextVars
  BY <1>2 DEF Transition, Enter, EnterRequesting, EnterVerificationReceived, EnterConfirmed,
              EnterError
<1>3. QED
  BY <1>1, <1>2

\* A callback is called in one step of a connected browser, and only once.
LEMMA ConnectedSteps ==
    ASSUME SessionInv, SessionInv', connectionState = "connected", UNCHANGED connectionState,
           \/ outcome' = outcome
           \/ outcome' = Append(outcome, "success")
           \/ outcome' = Append(outcome, "failure")
    PROVE  Allowed \/ UNCHANGED Contract!workflowVars
<1>1. CASE outcome' = outcome
  BY <1>1, Stutters
<1>2. CASE outcome' # outcome
  <2>1. outcome' \in {<<>>, <<"success">>, <<"failure">>}
    BY DEF SessionInv, OutcomeInTurn
  <2>2. outcome = <<>> /\ outcome' \in {<<"success">>, <<"failure">>}
    BY <1>2, <2>1, OneOutcome
  <2>3. Result = "none" /\ Result' \in {"success", "failure"}
    BY <2>2, Results, ResultsNext
  <2>4. QED
    BY <2>3 DEF Allowed, Contract!Succeed, Contract!Fail
<1>3. QED
  BY <1>1, <1>2

LEMMA DisconnectStep ==
    ASSUME SessionInv, OnClose PROVE Allowed
<1>1. connectionState' = "disconnected"
  BY DEF OnClose
<1>2. CASE listening
  <2>1. outcome = <<>> /\ outcome' = Append(outcome, "failure")
    BY <1>2, Fails, Listening DEF OnClose
  <2>2. outcome' = <<"failure">>
    BY <2>1
  <2>3. QED
    BY <1>1, <2>1, <2>2, Results, ResultsNext DEF Allowed, Contract!Disconnect
<1>3. CASE ~listening
  <2>1. outcome \in {<<"success">>, <<"failure">>} /\ outcome' = outcome
    BY <1>3 DEF OnClose, contextVars, SessionInv, OutcomeInTurn
  <2>2. Result \in {"success", "failure"} /\ Result' = Result
    BY <2>1, Results, ResultsNext
  <2>3. QED
    BY <1>1, <2>2 DEF Allowed, Contract!Disconnect
<1>4. QED
  BY <1>2, <1>3

LEMMA ContractStep ==
    SessionInv /\ SessionInv' /\ [SessionNext]_sessionVars =>
        Allowed \/ UNCHANGED Contract!workflowVars
<1> SUFFICES ASSUME SessionInv, SessionInv', [SessionNext]_sessionVars
             PROVE  Allowed \/ UNCHANGED Contract!workflowVars
  OBVIOUS
<1>1. CASE ServerStep \/ Close \/ UNCHANGED sessionVars
  <2>1. UNCHANGED <<outcome, connectionState>>
    BY <1>1 DEF ServerStep, Subscribe, Lose, SetUp, Serve, Announce, Dropped, Close, sessionVars,
                clientVars, contextVars
  <2>2. QED
    BY <2>1, Stutters
<1>2. CASE OnOpen
  <2>1. connectionState = "pending" /\ connectionState' = "connected" /\ outcome' = outcome
    BY <1>2, Connecting DEF OnOpen, SessionInv, BrowserInTurn
  <2>2. QED
    BY <2>1 DEF Allowed, Contract!Open, Result
<1>3. CASE OnMessage
  <2>1. connectionState = "connected" /\ UNCHANGED connectionState
    BY <1>3 DEF OnMessage, SessionInv, TypeOK, OutcomeInTurn
  <2>2. \/ outcome' = outcome
        \/ outcome' = Append(outcome, "success")
        \/ outcome' = Append(outcome, "failure")
    BY <1>3, Outcomes DEF OnMessage, Later, DecryptsMessage, contextVars
  <2>3. QED
    BY <2>1, <2>2, ConnectedSteps
<1>4. CASE OnClose
  BY <1>4, DisconnectStep
<1>5. ASSUME NEW p \in pending, Fulfilled(p) \/ Rejected(p)
      PROVE  Allowed \/ UNCHANGED Contract!workflowVars
  <2>1. UNCHANGED connectionState /\ machine # "PENDING"
    BY <1>5, OnePromise, Waiting DEF Fulfilled, Rejected, BrowserIn
  <2>2. \/ outcome' = outcome
        \/ outcome' = Append(outcome, "success")
        \/ outcome' = Append(outcome, "failure")
    BY <1>5, Outcomes DEF Fulfilled, Rejected, Verifies, contextVars
  <2>3. CASE connectionState = "connected"
    BY <2>1, <2>2, <2>3, ConnectedSteps
  <2>4. CASE connectionState = "disconnected"
    <3>1. outcome \in {<<"success">>, <<"failure">>}
      BY <2>4 DEF SessionInv, OutcomeInTurn
    <3>2. outcome' \in {<<>>, <<"success">>, <<"failure">>}
      BY DEF SessionInv, OutcomeInTurn
    <3>3. outcome' = outcome
      BY <2>2, <3>1, <3>2
    <3>4. QED
      BY <2>1, <3>3, Stutters
  <2>5. QED
    BY <2>1, <2>3, <2>4 DEF SessionInv, TypeOK, BrowserInTurn
<1>6. QED
  BY <1>1, <1>2, <1>3, <1>4, <1>5 DEF SessionNext, ClientStep, Settles

(***************************************************************************)
(* The browser's half of a handshake, over a socket that may close at any  *)
(* time, to a server that may be late, does what Workflow says: it calls   *)
(* one of its two callbacks, once, and success only while connected.       *)
(***************************************************************************)
THEOREM SessionImplementsWorkflow == SessionSpec => ImplementsWorkflow
<1>1. SessionInit => Contract!WorkflowInit
  BY DEF SessionInit, ClientInit, Contract!WorkflowInit, Result
<1>2. SessionSpec => [][Allowed]_(Contract!workflowVars)
  BY InvAlways, ContractStep, PTL DEF SessionSpec
<1>3. QED
  BY <1>1, <1>2, PTL DEF ImplementsWorkflow, Contract!WorkflowSpec, Allowed, SessionSpec

-----------------------------------------------------------------------------
(***************************************************************************)
(* Never stuck.  Besides SessionInv: as long as nothing was lost, the      *)
(* handshake of an open socket is under way, as a request, a promise, an   *)
(* answer, or the announcement that is due; and keyExchange returns only   *)
(* after its setup failed, after the last call, or when the socket closed. *)
(***************************************************************************)
Going ==
    /\ connectionState = "connected" /\ outcome = <<>> /\ open
    /\ lost = 0 /\ ~swallowed /\ ~SetupFailed

UnderWay ==
    \/ toServer # <<>> \/ pending # {} \/ ~AllReady(toClient)
    \/ Served = 4 /\ ~announced

LoopRuns == open /\ phase = "returned" => Served = 0 \/ Served = 4

NeverStuckInv == SessionInv /\ (Going => UnderWay) /\ LoopRuns

LEMMA InitUnderWay == SessionInit => (Going => UnderWay) /\ LoopRuns
BY DEF SessionInit, ClientInit, K!KInit, K!Init, Going, LoopRuns

\* Nothing but an open event makes a handshake go, and a failed setup stays.
LEMMA StartsConnected ==
    ASSUME SessionInv, SessionNext, Going', ~OnOpen
    PROVE  Going
<1>1. SetupFailed => SetupFailed'
  <2> SUFFICES ASSUME SetupFailed PROVE SetupFailed'
    OBVIOUS
  <2>1. CASE UNCHANGED keyExchangeVars
    BY <2>1 DEF SetupFailed, keyExchangeVars
  <2>2. CASE Serve
    <3>1. Served = 0
      BY DEF SetupFailed, Served
    <3>2. K!OnSetPublicKey(ClientKey)
      BY <2>2, <3>1, OneRequest, Asking DEF Serve, Handle, Request
    <3>3. QED
      BY <3>2 DEF K!OnSetPublicKey, SetupFailed
  <2>3. CASE SetUp
    BY <2>3 DEF SetUp, K!SetupFails, K!SignalReady, SetupFailed
  <2>4. CASE Dropped
    BY <2>4 DEF Dropped, K!Disconnect, SetupFailed
  <2>5. QED
    BY <2>1, <2>2, <2>3, <2>4 DEF SessionNext, ServerStep, ClientStep, Subscribe, Lose, Announce,
       serverVars
<1>2. open' => open
  BY DEF SessionNext, ServerStep, ClientStep, Subscribe, Lose, SetUp, Serve, Announce, Dropped,
     OnOpen, OnMessage, OnClose, Close, Settles, Fulfilled, Rejected
<1>3. lost' = 0 => lost = 0
  BY DEF SessionNext, ServerStep, ClientStep, Subscribe, Lose, SetUp, Serve, Announce, Dropped,
     serverVars, SessionInv, TypeOK
<1>4. swallowed => swallowed'
  BY DEF SessionNext, ServerStep, ClientStep, Subscribe, Lose, SetUp, Serve, Announce, Dropped,
     OnOpen, OnMessage, OnClose, Close, Settles, Fulfilled, Rejected, clientVars
<1>5. connectionState' = "connected" => connectionState = "connected"
  BY DEF SessionNext, ServerStep, ClientStep, Subscribe, Lose, SetUp, Serve, Announce, Dropped,
     OnMessage, OnClose, Close, Settles, Fulfilled, Rejected, clientVars
<1>6. outcome' = <<>> => outcome = <<>>
  <2>1. UNCHANGED outcome \/ \E transition, new, promises : Transition(transition, new, promises)
    BY DEF SessionNext, ServerStep, ClientStep, Subscribe, Lose, SetUp, Serve, Announce, Dropped,
       OnMessage, OnClose, Close, Settles, Fulfilled, Rejected, clientVars, contextVars,
       Later, DecryptsMessage, Verifies
  <2>2. \/ outcome' = outcome
        \/ outcome' = Append(outcome, "success")
        \/ outcome' = Append(outcome, "failure")
    BY <2>1, Outcomes
  <2>3. outcome \in {<<>>, <<"success">>, <<"failure">>}
    BY OneOutcome
  <2>4. QED
    BY <2>2, <2>3
<1>7. QED
  BY <1>1, <1>2, <1>3, <1>4, <1>5, <1>6 DEF Going

\* A request is dispatched on an open socket, an answer written to it.
LEMMA Dispatched ==
    ASSUME SessionInv, NEW request \in Requests, Dispatch(request), open
    PROVE  toServer' # <<>>
<1>1. toServer' = Append(toServer, request) /\ toServer \in Seq(Requests)
  BY QueueTypes DEF Dispatch
<1>2. QED
  BY <1>1

LEMMA Written ==
    ASSUME SessionInv, NEW a \in Answers, Write(a), open
    PROVE  a # Answer("Ready", Nothing) \/ ~AllReady(toClient) => ~AllReady(toClient')
<1>1. toClient' = Append(toClient, a) /\ toClient \in Seq(Answers)
  BY QueueTypes DEF Write
<1>2. /\ Len(toClient) + 1 \in DOMAIN toClient' /\ toClient'[Len(toClient) + 1] = a
      /\ \A i \in DOMAIN toClient : i \in DOMAIN toClient' /\ toClient'[i] = toClient[i]
  BY <1>1
<1>3. QED
  BY <1>2 DEF AllReady

LEMMA AnswersAreNotReady ==
    \A i \in 1..4 : Gets[i] # Answer("Ready", Nothing)
BY Getting DEF Answer

LEMMA AsksTyped == \A i \in 1..4 : Asks[i] \in Requests
BY Asking DEF Request, Requests

LEMMA ServerUnderWay ==
    ASSUME SessionInv, SessionInv', ServerStep, Going, Going', UnderWay
    PROVE  UnderWay'
<1>1. CASE Subscribe
  BY <1>1 DEF Subscribe, UnderWay, AllReady, Served, keyExchangeVars, clientVars
<1>2. CASE Lose
  BY <1>2 DEF Lose, Going, SessionInv, TypeOK
<1>3. CASE SetUp
  <2>1. UNCHANGED <<toServer, pending, announced>> /\ Served' = Served
    BY <1>3 DEF SetUp, clientVars, K!SetupFails, K!SignalReady, K!vars, Served
  <2>2. ~AllReady(toClient) => ~AllReady(toClient')
    BY <1>3, Written, AnswerTypes DEF SetUp, Going, AllReady
  <2>3. QED
    BY <2>1, <2>2 DEF UnderWay
<1>4. CASE Serve
  <2>1. ServesInTurn /\ Served \in 0..3
    BY <1>4, ServeKeeps
  <2>2. CASE Served = 3
    BY <1>4, <2>1, <2>2 DEF ServesInTurn, Serve, UnderWay, SessionInv, ServerInTurn
  <2>3. CASE Served # 3
    <3>1. Served + 1 \in 1..4 /\ Write(Gets[Served + 1])
      BY <2>1, <2>3 DEF ServesInTurn
    <3>2. Gets[Served + 1] \in Answers /\ Gets[Served + 1] # Answer("Ready", Nothing)
      BY <2>1, <2>3, AnswerTypes, Getting, AnswersAreNotReady
    <3>3. QED
      BY <3>1, <3>2, Written DEF UnderWay, Going
  <2>4. QED
    BY <2>2, <2>3
<1>5. CASE Announce
  <2>1. Answer("Message", "AvailableActions") \in Answers
        /\ Answer("Message", "AvailableActions") # Answer("Ready", Nothing)
    BY AnswerTypes DEF Answer
  <2>2. QED
    BY <1>5, <2>1, Written DEF Announce, UnderWay, Going
<1>6. CASE Dropped
  BY <1>6 DEF Dropped, Going
<1>7. QED
  BY <1>1, <1>2, <1>3, <1>4, <1>5, <1>6 DEF ServerStep

LEMMA MessageUnderWay ==
    ASSUME SessionInv, OnMessage, UNCHANGED serverVars, Going, UnderWay
    PROVE  UnderWay'
<1>1. CASE Head(toClient) = Answer("Ready", Nothing)
  <2>1. UNCHANGED <<contextVars, pending, toServer>>
    BY <1>1 DEF OnMessage, Answer, DecryptsMessage
  <2>2. ~AllReady(toClient) => ~AllReady(toClient')
    <3> SUFFICES ASSUME ~AllReady(toClient) PROVE ~AllReady(toClient')
      OBVIOUS
    <3>1. toClient \in Seq(Answers) /\ toClient # <<>> /\ toClient' = Tail(toClient)
      BY QueueTypes DEF OnMessage
    <3>2. PICK i \in DOMAIN toClient : toClient[i] # Answer("Ready", Nothing)
      BY DEF AllReady
    <3>3. i \in 2..Len(toClient)
      BY <1>1, <3>1, <3>2
    <3>4. i - 1 \in DOMAIN toClient' /\ toClient'[i - 1] = toClient[i]
      BY <3>1, <3>3
    <3>5. QED
      BY <3>2, <3>4 DEF AllReady
  <2>3. QED
    BY <2>1, <2>2 DEF UnderWay, Served, serverVars, keyExchangeVars
<1>2. CASE Head(toClient) # Answer("Ready", Nothing)
  <2>1. Served = 1 \/ Served \in 2..4
    BY <1>2, AnswerFrame
  <2>2. CASE Served = 1
    <3>1. Transition("CONFIRMED_KEY", context, pending)
      BY <1>2, <2>2, AnswerFrame, Getting DEF OnMessage, Answer, DecryptsMessage
    <3>2. Dispatch(Asks[2])
      BY <1>2, <2>2, <3>1, AnswerFrame, KeyConfirmed
    <3>3. Asks[2] \in Requests /\ open
      BY AsksTyped DEF Going
    <3>4. QED
      BY <3>2, <3>3, Dispatched DEF UnderWay
  <2>3. CASE Served \in 2..4
    <3> DEFINE p == IF Served = 2 THEN Promise("import", ServerKey)
                    ELSE IF Served = 3 THEN Promise("decryptCode", Code)
                    ELSE Promise("decryptMessage", "AvailableActions")
    <3>1. pending' = pending \cup {p}
      BY <1>2, <2>3, AnswerFrame, Getting DEF OnMessage, Answer, DecryptsMessage, Later
    <3>2. QED
      BY <3>1 DEF UnderWay
  <2>4. QED
    BY <2>1, <2>2, <2>3
<1>3. QED
  BY <1>1, <1>2

LEMMA FulfilledUnderWay ==
    ASSUME SessionInv, SessionInv', NEW p \in pending, Fulfilled(p), UNCHANGED serverVars,
           Going, Going'
    PROVE  UnderWay'
<1>1. machine # "ERROR" /\ open
  BY DEF Going, SessionInv, OutcomeInTurn
<1>2. CASE p = Promise("import", ServerKey)
  <2> DEFINE new == [context EXCEPT !.serverEncryption = ServerKey]
  <2>1. machine = Waits[2] /\ p.op = "import" /\ p.value = ServerKey
    BY <1>1, <1>2, OnePromise DEF Promise, BrowserIn
  <2>2. Transition("SERVER_KEY_RECEIVED", new, pending \ {p})
    BY <2>1 DEF Fulfilled, Verifies
  <2>3. Dispatch(Asks[3])
    BY <2>1, <2>2, KeysExchanged
  <2>4. QED
    BY <1>1, <2>3, AsksTyped, Dispatched DEF UnderWay
<1>3. CASE p = Promise("decryptCode", Code)
  <2> DEFINE new == [context EXCEPT !.verificationCode = Code]
  <2>1. machine = Waits[3] /\ p.op = "decryptCode" /\ p.value = Code
    BY <1>1, <1>3, OnePromise DEF Promise, BrowserIn
  <2>2. Transition("RECEIVED_VERIFICATION", new, pending \ {p})
    BY <2>1 DEF Fulfilled, Verifies
  <2>3. new.serverEncryption # Nothing /\ new.verificationCode # Nothing
    BY <2>1, ClientAssumption DEF SessionInv, TypeOK, Contexts, BrowserInTurn
  <2> HIDE DEF new
  <2>4. pending' = (pending \ {p}) \cup {Promise("encrypt", new.verificationCode)}
    BY <2>1, <2>2, <2>3, CodeReceived
  <2>5. QED
    BY <2>4 DEF UnderWay
<1>4. CASE p = Promise("encrypt", Code)
  <2>1. Dispatch(Asks[4])
    BY <1>4, Asking DEF Fulfilled, Verifies, Promise
  <2>2. QED
    BY <1>1, <2>1, AsksTyped, Dispatched DEF UnderWay
<1>5. CASE p = Promise("decryptMessage", "AvailableActions")
  <2> DEFINE new == [context EXCEPT !.message = "AvailableActions"]
  <2>1. machine = Waits[4] /\ p.op = "decryptMessage" /\ p.value = "AvailableActions"
    BY <1>1, <1>5, OnePromise DEF Promise, BrowserIn
  <2>2. Transition("CONFIRM_VERIFICATION", new, pending \ {p})
    BY <2>1 DEF Fulfilled, Verifies
  <2>3. new.serverEncryption # Nothing /\ new.message # Nothing
    BY <2>1, ClientAssumption, Waiting DEF SessionInv, TypeOK, Contexts, BrowserInTurn
  <2> HIDE DEF new
  <2>4. machine' = "VERIFICATION_CONFIRMED"
    BY <2>1, <2>2, <2>3, Confirmed
  <2>5. QED
    BY <2>4 DEF Going, SessionInv, OutcomeInTurn
<1>6. QED
  BY <1>2, <1>3, <1>4, <1>5, OnePromise

LEMMA RejectedEnds ==
    ASSUME SessionInv', NEW p \in pending, Rejected(p) PROVE ~Going'
<1>1. CASE p.op = "decryptCode"
  <2>1. machine' = "ERROR"
    BY <1>1, Fails DEF Rejected
  <2>2. QED
    BY <2>1 DEF Going, SessionInv, OutcomeInTurn
<1>2. CASE p.op # "decryptCode"
  BY <1>2 DEF Rejected, Going
<1>3. QED
  BY <1>1, <1>2

LEMMA StaysUnderWay ==
    ASSUME NeverStuckInv, SessionInv', [SessionNext]_sessionVars
    PROVE  Going' => UnderWay'
<1> SUFFICES ASSUME Going' PROVE UnderWay'
  OBVIOUS
<1> USE DEF NeverStuckInv
<1>1. CASE UNCHANGED sessionVars
  BY <1>1 DEF sessionVars, clientVars, contextVars, serverVars, keyExchangeVars, Going, UnderWay,
     Served, AllReady, SetupFailed
<1>2. CASE OnOpen
  <2>1. machine = "PENDING" /\ open
    BY <1>2 DEF OnOpen, SessionInv, BrowserInTurn
  <2>2. Dispatch(Asks[1])
    BY <1>2, <2>1, Connecting DEF OnOpen
  <2>3. QED
    BY <2>1, <2>2, AsksTyped, Dispatched DEF UnderWay
<1>3. CASE SessionNext /\ ~OnOpen
  <2>1. Going /\ UnderWay
    BY <1>3, StartsConnected
  <2>2. CASE ServerStep
    BY <2>1, <2>2, ServerUnderWay
  <2>3. CASE OnMessage /\ UNCHANGED serverVars
    BY <2>1, <2>3, MessageUnderWay
  <2>4. CASE OnClose \/ Close
    BY <2>1, <2>4 DEF OnClose, Close, Going
  <2>5. CASE Settles /\ UNCHANGED serverVars
    BY <2>1, <2>5, FulfilledUnderWay, RejectedEnds DEF Settles
  <2>6. QED
    BY <1>3, <2>2, <2>3, <2>4, <2>5 DEF SessionNext, ClientStep
<1>4. QED
  BY <1>1, <1>2, <1>3

LEMMA LoopKeepsRunning ==
    ASSUME NeverStuckInv, [SessionNext]_sessionVars PROVE LoopRuns'
<1> USE DEF NeverStuckInv
<1>1. open' => open
  BY DEF SessionNext, ServerStep, ClientStep, Subscribe, Lose, SetUp, Serve, Announce, Dropped,
     OnOpen, OnMessage, OnClose, Close, Settles, Fulfilled, Rejected, sessionVars
<1>2. CASE UNCHANGED <<phase, calls>>
  BY <1>1, <1>2 DEF LoopRuns, Served
<1>3. CASE SetUp
  BY <1>1, <1>3 DEF SetUp, K!SetupFails, K!SignalReady, K!vars, SessionInv, ServerInTurn,
     LoopRuns, Served, TypeOK, K!KTypeOK, K!TypeOK
<1>4. CASE Serve
  BY <1>4, ServeKeeps DEF ServesInTurn, LoopRuns
<1>5. CASE Dropped
  BY <1>5 DEF Dropped, LoopRuns
<1>6. QED
  BY <1>2, <1>3, <1>4, <1>5 DEF SessionNext, ServerStep, ClientStep, Subscribe, Lose, Announce,
     serverVars, keyExchangeVars, sessionVars

LEMMA UnderWayAlways == SessionSpec => []NeverStuckInv
<1>1. SessionInit => NeverStuckInv
  BY InitTypes, InitUnderWay DEF NeverStuckInv
<1>2. NeverStuckInv /\ [SessionNext]_sessionVars => NeverStuckInv'
  BY InvKept, StaysUnderWay, LoopKeepsRunning DEF NeverStuckInv
<1>3. QED
  BY <1>1, <1>2, PTL DEF SessionSpec

(***************************************************************************)
(* With room for the four calls, a connected browser without an outcome    *)
(* can always go on, itself or through the server, unless a request went   *)
(* to nobody, a rejection was only logged, or the setup failed.            *)
(***************************************************************************)
THEOREM HandshakeIsNeverStuck ==
    ASSUME MaxCalls >= 4
    PROVE  SessionSpec => []NeverStuck
<1>1. NeverStuckInv => NeverStuck
  <2> SUFFICES ASSUME NeverStuckInv, connectionState = "connected", outcome = <<>>,
                      ~(lost > 0), ~swallowed, ~SetupFailed
               PROVE  CanMove
    BY DEF NeverStuck
  <2> USE DEF NeverStuckInv
  <2>1. lost = 0
    BY DEF SessionInv, TypeOK
  <2>2. listening
    BY DEF SessionInv, OutcomeInTurn, BrowserInTurn, BrowserIn, TypeOK
  <2>3. CASE ~open \/ toClient # <<>> \/ pending # {}
    BY <2>2, <2>3 DEF CanMove
  <2>4. CASE open /\ toClient = <<>> /\ pending = {} /\ toServer # <<>>
    <3>1. Served \in 0..3
      BY <2>4, OneRequest
    <3>a. \A n \in 0..3 : n < MaxCalls
      BY SessionAssumption
    <3>2. Len(calls) < MaxCalls
      BY <3>1, <3>a DEF Served
    <3>b. Served # 4
      BY <3>1
    <3>c. phase = "returned" => Served = 0
      BY <2>4, <3>b DEF LoopRuns
    <3>3. phase = "returned" => calls = <<>>
      BY <3>c, QueueTypes, EmptySeq DEF Served
    <3>4. phase \in {"start", "loop"}
      BY <3>3 DEF SetupFailed, SessionInv, TypeOK, K!KTypeOK
    <3>5. QED
      BY <2>4, <3>2, <3>4 DEF CanMove
  <2>5. CASE open /\ toClient = <<>> /\ pending = {} /\ toServer = <<>>
    <3>1. Going /\ AllReady(toClient)
      BY <2>1, <2>5 DEF Going, AllReady
    <3>2. Served = 4 /\ ~announced
      BY <2>5, <3>1 DEF UnderWay
    <3>3. registered # NoKey
      BY <3>2, SessionAssumption DEF SessionInv, ServerInTurn
    <3>4. QED
      BY <3>2, <3>3 DEF CanMove
  <2>6. QED
    BY <2>3, <2>4, <2>5
<1>2. QED
  BY <1>1, UnderWayAlways, PTL
=============================================================================
