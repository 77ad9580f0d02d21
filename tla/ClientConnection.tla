--------------------------- MODULE ClientConnection ---------------------------
(***************************************************************************)
(* The browser's connection over all the sockets it opens                  *)
(* (js/src/core/connection.ts), with the encrypted socket of workflow.ts    *)
(* and the server's end as far as it treats connect, messages and mail.    *)
(* The handshake on a socket is the contract Workflow.  A subscriber runs  *)
(* within the event that triggers it, so INITIAL and NEW_SOCKET, which the *)
(* machine leaves on entering them, are not states one can observe; an     *)
(* encryption or decryption is a promise, and promises settle in any order. *)
(***************************************************************************)
EXTENDS Workflow, Codec, Sequences, FiniteSetsExt

CONSTANTS
    PageTexts,      \* the texts this page dispatches
    MailTexts,      \* the texts it is sent
    IdLength,       \* the length of a mailbox id
    Connect,        \* {Varient: "connect"}, among the messages' numbers
    MaxSockets, MaxMessages, MaxMail    \* bounds

ASSUME ConnectionAssumption ==
    /\ PageTexts \subseteq Texts /\ MailTexts \subseteq Texts /\ IdLength \in Nat \ {0}
    /\ Connect \notin Nat
    /\ MaxSockets \in Nat \ {0} /\ MaxMessages \in Nat /\ MaxMail \in Nat

VARIABLES
    socket,         \* the current one; sockets are numbered
    open,           \* it is
    timers,         \* setTimeouts that have not fired
    dispatched,     \* outgoing: its value is the last of these, or {}
    subscribed,     \* the sockets whose subscription to outgoing exists
    replay,         \* the number of the message that one began with
    encrypting,     \* promises of encryptedDispatch
    sent,           \* history: the page's messages that ws.send sent, on which socket
    early,          \* history: those of them whose encryption was quicker than connect's
    toServer,       \* under way, for each socket
    server,         \* registerConnection and connect, for each socket
    wedged,         \* the sockets whose dispatcher waits for keyExchange
    forwarded,      \* history: what connect sent to the exchange
    mailed,         \* history: what the mailbox's consumer wrote to this socket
    toClient,       \* under way to the current socket
    decrypting,     \* promises of decryptedIncoming
    shown           \* history: what of it incoming passed to the page

machineVars == <<workflowVars, socket, timers>>
histories == <<sent, early>>
dispatchVars == <<dispatched, subscribed, replay, encrypting, histories>>
serverVars == <<server, wedged, forwarded>>
mailVars == <<mailed, toClient, decrypting, shown>>
vars == <<machineVars, open, dispatchVars, toServer, serverVars, mailVars>>

Sockets == 1..MaxSockets
On(s, m) == [connection |-> s, message |-> m]
Messages == {Connect} \cup 0..MaxMessages      \* 0 is the empty object

TypeOK ==
    /\ connectionState \in {"pending", "connected", "disconnected"}
    /\ result \in {"none", "success"}
    /\ socket \in Sockets /\ open \in BOOLEAN /\ timers \in 0..1
    /\ dispatched \in Seq(PageTexts) /\ Len(dispatched) <= MaxMessages
    /\ subscribed \subseteq Sockets
    /\ replay \in [Sockets -> 0..MaxMessages]
    /\ encrypting \subseteq [connection: Sockets, message: Messages]
    /\ sent \in Seq([connection: Sockets, message: 0..MaxMessages])
    /\ early \subseteq [connection: Sockets, message: 0..MaxMessages]
    /\ toServer \in [Sockets -> Seq(Messages)]
    /\ server \in [Sockets -> {"exchanging", "registered", "joined"}]
    /\ wedged \subseteq Sockets
    /\ forwarded \in Seq([connection: Sockets, message: 1..MaxMessages])
    /\ mailed \in Seq(MailTexts)
    /\ toClient \in Seq(1..MaxMail) /\ decrypting \subseteq 1..MaxMail
    /\ shown \in Seq(1..MaxMail)

Init ==
    /\ WorkflowInit
    /\ socket = 1 /\ open = TRUE /\ timers = 0
    /\ dispatched = <<>> /\ subscribed = {} /\ replay = [s \in Sockets |-> 0]
    /\ encrypting = {} /\ sent = <<>> /\ early = {}
    /\ toServer = [s \in Sockets |-> <<>>]
    /\ server = [s \in Sockets |-> "exchanging"] /\ wedged = {} /\ forwarded = <<>>
    /\ mailed = <<>> /\ toClient = <<>> /\ decrypting = {} /\ shown = <<>>

-----------------------------------------------------------------------------
(* The connection machine. *)

\* INITIAL, NEW_SOCKET, HANDSHAKE.  What is left of the earlier socket - its
\* subscription to outgoing, which nobody ends, and its promises - has no
\* effect any more: it ends in a ws.send on a closed socket or in a subject
\* without subscribers.  It is left out.
NewSocket ==
    /\ socket < MaxSockets
    /\ socket' = socket + 1 /\ open' = TRUE
    /\ connectionState' = "pending" /\ result' = "none"
    /\ mailed' = <<>> /\ toClient' = <<>> /\ decrypting' = {} /\ shown' = <<>>
    /\ encrypting' = {}
    /\ UNCHANGED <<dispatched, subscribed, replay, histories, toServer, serverVars>>

OnOpen ==
    /\ open /\ Open
    /\ UNCHANGED <<socket, timers, open, dispatchVars, toServer, serverVars, mailVars>>

\* Mutant: outgoing replays all it ever had, as a ReplaySubject would.
OnSuccessReplaysAll ==
    /\ Succeed
    /\ subscribed' = subscribed \cup {socket}
    /\ replay' = [replay EXCEPT ![socket] = Len(dispatched)]
    /\ encrypting' = encrypting \cup
         {On(socket, m) : m \in {Connect} \cup 0..Len(dispatched)}
    /\ UNCHANGED <<socket, timers, open, dispatched, histories, toServer, serverVars, mailVars>>

\* CONNECTED.  incoming still holds the AvailableActions that ended the
\* handshake: connect is dispatched and outgoing subscribed to, at once.
OnSuccess ==
    /\ Succeed
    /\ subscribed' = subscribed \cup {socket}
    /\ replay' = [replay EXCEPT ![socket] = Len(dispatched)]
    /\ encrypting' = encrypting \cup {On(socket, Connect), On(socket, Len(dispatched))}
    /\ UNCHANGED <<socket, timers, open, dispatched, histories, toServer, serverVars, mailVars>>

\* The workflow fails, by itself or with its socket: the next socket is
\* opened in its callback.
OnFailure ==
    /\ result = "none" /\ (connectionState = "connected" \/ ~open)
    /\ NewSocket
    /\ UNCHANGED timers

\* Either side, or the network; what is under way may be lost.
Close ==
    /\ open
    /\ open' = FALSE
    /\ \E i \in 0..Len(toServer[socket]) :
          toServer' = [toServer EXCEPT ![socket] = SubSeq(@, 1, i)]
    /\ \E i \in 0..Len(toClient) : toClient' = SubSeq(toClient, 1, i)
    /\ UNCHANGED <<machineVars, dispatchVars, serverVars, mailed, decrypting, shown>>

\* Mutant: socketSubscription stays, and onclose follows onerror.
OnDisconnectTwice ==
    /\ result = "success" /\ ~open /\ toClient = <<>> /\ timers < 2
    /\ Disconnect
    /\ timers' = timers + 1
    /\ UNCHANGED <<socket, open, dispatchVars, toServer, serverVars, mailVars>>

\* Mutant: no timeout is set.
OnDisconnectForGood ==
    /\ result = "success" /\ ~open /\ toClient = <<>> /\ connectionState # "disconnected"
    /\ Disconnect
    /\ UNCHANGED <<socket, timers, open, dispatchVars, toServer, serverVars, mailVars>>

\* Both subscriptions to the socket end, so that a second event changes nothing.
OnDisconnect ==
    /\ result = "success" /\ ~open /\ toClient = <<>> /\ connectionState # "disconnected"
    /\ Disconnect
    /\ timers' = timers + 1
    /\ UNCHANGED <<socket, open, dispatchVars, toServer, serverVars, mailVars>>

\* ERROR is a transition of CONNECTED.
OnTimeout ==
    /\ timers > 0 /\ result = "success"
    /\ timers' = timers - 1
    /\ NewSocket

-----------------------------------------------------------------------------
(* Messages to the exchange. *)

\* outgoing.next: the current socket's subscription, if there is one, encrypts.
Dispatch(text) ==
    /\ Len(dispatched) < MaxMessages
    /\ dispatched' = Append(dispatched, text)
    /\ encrypting' = IF socket \in subscribed
                      THEN encrypting \cup {On(socket, Len(dispatched'))} ELSE encrypting
    /\ UNCHANGED <<machineVars, open, subscribed, replay, histories, toServer, serverVars,
                   mailVars>>

Encryptable(m) == m \in {Connect, 0} \/ FitsServerKey(dispatched[m], IdLength)

Record(promise) ==
    IF promise.message = Connect THEN UNCHANGED histories
    ELSE /\ sent' = Append(sent, promise)
         /\ early' = IF On(socket, Connect) \in encrypting THEN early \cup {promise} ELSE early

\* A rejection is only logged; ws.send on a closed socket does nothing.
Encrypted(promise) ==
    /\ promise \in encrypting
    /\ encrypting' = encrypting \ {promise}
    /\ IF Encryptable(promise.message) /\ open
         THEN /\ toServer' = [toServer EXCEPT ![socket] = Append(@, promise.message)]
              /\ Record(promise)
         ELSE UNCHANGED <<toServer, histories>>
    /\ UNCHANGED <<machineVars, open, dispatched, subscribed, replay, serverVars, mailVars>>

BytesReachServer == \A b \in Bytes : ServerReads(b)

\* registerConnection waits for connect and ignores anything else; connect
\* sends what it gets to the exchange, where {} is for nobody.
HandOver(s, m) ==
    /\ server' = [server EXCEPT ![s] =
                    IF m = Connect \/ @ = "joined" THEN "joined" ELSE "registered"]
    /\ forwarded' = IF server[s] = "joined" /\ m # 0
                      THEN Append(forwarded, On(s, m)) ELSE forwarded

\* Mutant: connect does not take over registerConnection's channel.
TakeUntilConnect(s) ==
    /\ toServer[s] # <<>> /\ s \notin wedged /\ server[s] # "joined"
    /\ toServer' = [toServer EXCEPT ![s] = Tail(@)]
    /\ HandOver(s, Head(toServer[s]))
    /\ UNCHANGED <<machineVars, open, dispatchVars, wedged, mailVars>>

\* The dispatcher.  When the first message comes keyExchange may still be
\* subscribed: the message is then handed over before, after or never, and the
\* dispatcher waits for ever (ServerConnection).
Take(s) ==
    /\ toServer[s] # <<>> /\ s \notin wedged
    /\ toServer' = [toServer EXCEPT ![s] = Tail(@)]
    /\ LET m == Head(toServer[s]) IN
          \/ /\ IF BytesReachServer THEN HandOver(s, m) ELSE UNCHANGED <<server, forwarded>>
             /\ UNCHANGED wedged
          \/ /\ server[s] = "exchanging"
             /\ HandOver(s, m) \/ UNCHANGED <<server, forwarded>>
             /\ wedged' = wedged \cup {s}
    /\ UNCHANGED <<machineVars, open, dispatchVars, mailVars>>

-----------------------------------------------------------------------------
(* Mail from the exchange. *)

\* The consumer of the mailbox writes what another browser could send.  An
\* error of WriteMessage, the text being too long by now, is dropped.
MailArrives(text) ==
    /\ server[socket] = "joined" /\ Len(mailed) < MaxMail
    /\ FitsServerKey(text, IdLength)
    /\ mailed' = Append(mailed, text)
    /\ toClient' = IF open /\ FitsClientKey(text, IdLength)
                     THEN Append(toClient, Len(mailed')) ELSE toClient
    /\ UNCHANGED <<machineVars, open, dispatchVars, toServer, serverVars, decrypting, shown>>

OnMessage ==
    /\ toClient # <<>>
    /\ toClient' = Tail(toClient)
    /\ decrypting' = decrypting \cup {Head(toClient)}
    /\ UNCHANGED <<machineVars, open, dispatchVars, toServer, serverVars, mailed, shown>>

BytesReachBrowser == \A b \in Bytes : BrowserReads(b)

Decrypted(mail) ==
    /\ mail \in decrypting
    /\ decrypting' = decrypting \ {mail}
    /\ shown' = IF BytesReachBrowser /\ connectionState # "disconnected"
                  THEN Append(shown, mail) ELSE shown
    /\ UNCHANGED <<machineVars, open, dispatchVars, toServer, serverVars, mailed, toClient>>

-----------------------------------------------------------------------------
Settles ==
    \/ \E promise \in encrypting : Encrypted(promise)
    \/ \E mail \in decrypting : Decrypted(mail)

Next ==
    \/ OnOpen \/ OnSuccess \/ OnFailure \/ Close \/ OnDisconnect \/ OnTimeout
    \/ OnMessage \/ Settles
    \/ \E text \in PageTexts : Dispatch(text)
    \/ \E text \in MailTexts : MailArrives(text)
    \/ \E s \in Sockets : Take(s)

\* Events that happened are handled, timeouts fire, promises settle, and the
\* server's goroutines run.  Nothing is asked of the network, the page, other
\* members, or of a handshake on an open socket.
Fairness ==
    /\ WF_vars(OnFailure /\ ~open) /\ WF_vars(OnDisconnect) /\ WF_vars(OnTimeout)
    /\ WF_vars(OnMessage) /\ WF_vars(Settles)
    /\ \A s \in Sockets : WF_vars(Take(s))

Spec == Init /\ [][Next]_vars /\ Fairness

-----------------------------------------------------------------------------
(***************************************************************************)
(* What the page's messages become is what Outgoing promises: each is sent *)
(* once per connection, and the latest again on the next one, whatever     *)
(* order promises settle in and handshakes and sockets fail in.            *)
(***************************************************************************)
LastConnection == IF subscribed = {} THEN 0 ELSE Max(subscribed)
Up == result = "success" /\ open
Replayed == IF subscribed = {} THEN 0 ELSE replay[LastConnection]
Waiting == {m \in 0..MaxMessages : Up /\ On(socket, m) \in encrypting}

Promised == INSTANCE Outgoing WITH
    latest <- Len(dispatched), connection <- LastConnection, up <- Up,
    replayed <- Replayed, waiting <- Waiting, sent <- sent

ImplementsOutgoing == Promised!OutgoingSpec

(***************************************************************************)
(* A message reaches the exchange a second time only on another socket,    *)
(* and only if it was the latest when that one connected: the server does  *)
(* not recognise it (connection.ts:130).                                   *)
(***************************************************************************)
ForwardedAgainIfReplayed ==
    \A i, j \in DOMAIN forwarded :
        i # j /\ forwarded[i].message = forwarded[j].message =>
            /\ forwarded[i].connection # forwarded[j].connection
            /\ replay[Max({forwarded[i].connection, forwarded[j].connection})]
                 = forwarded[i].message

(***************************************************************************)
(* There is one timeout as long as the connection is known to be broken,   *)
(* and none otherwise: it is not left for good, and no second timeout - of *)
(* onerror and onclose both (websocketClient.ts:28-35) - ends the one that *)
(* takes its place.                                                        *)
(***************************************************************************)
OneTimeoutIfBroken ==
    timers = IF result = "success" /\ connectionState = "disconnected" THEN 1 ELSE 0

(***************************************************************************)
(* A browser that loses its socket, at whatever point, opens another.      *)
(***************************************************************************)
Reconnects ==
    \A s \in 1..(MaxSockets - 1) : (socket = s /\ ~open) ~> socket > s

(***************************************************************************)
(* What a connection owes - the message it began with and those dispatched *)
(* since - can only be lost in four ways while the connection is up: the   *)
(* server's key is too short for it, the server's dispatcher is stuck, it  *)
(* is {}, or its encryption was quicker than that of connect               *)
(* (workflow.ts:259), so that registerConnection ignores it and nobody     *)
(* notices.  Otherwise it is being encrypted, under way, or forwarded.     *)
(***************************************************************************)
Owed(m) == result = "success" /\ open /\ m > 0 /\ m \in replay[socket]..Len(dispatched)

UnderWay(s, m) == \E i \in DOMAIN toServer[s] : toServer[s][i] = m
Forwarded(s, m) == \E i \in DOMAIN forwarded : forwarded[i] = On(s, m)
OvertookConnect(m) == On(socket, m) \in early

GetsThrough ==
    \A m \in 1..MaxMessages :
        Owed(m) /\ Encryptable(m) /\ socket \notin wedged =>
            \/ On(socket, m) \in encrypting
            \/ UnderWay(socket, m)
            \/ Forwarded(socket, m)
            \/ OvertookConnect(m)

(***************************************************************************)
(* Mail that another browser could send is on its way to a connected       *)
(* browser or shown, if json.Marshal's escapes and the sender's id add no  *)
(* more than 256 bytes: only growth makes the server drop it               *)
(* (connection_registration.go:45 ignores the error).                      *)
(***************************************************************************)
FewEscapes(text) == IdLength + 5 * text.markup + 3 * text.separator <= 256

MailIsShown ==
    \A i \in DOMAIN mailed :
        FewEscapes(mailed[i]) /\ open =>
            \/ i \in decrypting
            \/ \E k \in DOMAIN toClient : toClient[k] = i
            \/ \E k \in DOMAIN shown : shown[k] = i

(***************************************************************************)
(* Nothing stays on its way: a browser that keeps its socket comes to have *)
(* no promise pending, and nothing is under way unless the server's        *)
(* dispatcher is stuck.  With the two invariants above, messages and mail  *)
(* arrive.                                                                 *)
(***************************************************************************)
Drains ==
    []<>( /\ encrypting = {} /\ decrypting = {} /\ toClient = <<>>
          /\ toServer[socket] = <<>> \/ socket \in wedged )
=============================================================================
