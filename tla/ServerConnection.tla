-------------------------- MODULE ServerConnection --------------------------
(***************************************************************************)
(* The goroutines that serve one websocket connection, from                *)
(* hub.AddConnection on:                                                   *)
(*    reader        listenForIncomingMessages (core/subscribable)          *)
(*    dispatcher    subscriptionLoop          (core/subscribable)          *)
(*    keyExchange   keyExchange               (core/communication)         *)
(*    registration  registerConnection        (core/communication)         *)
(*    member        connect                   (core/communication)         *)
(*    consumer      the mailbox consumer, which runs connect's callback    *)
(* All their channels are unbuffered, so a send and its receive are one    *)
(* step, which both goroutines must have reached.  The value of each       *)
(* variable says where its goroutine is.                                   *)
(*                                                                         *)
(* A message is the position at which the client sent it; kinds gives its  *)
(* kind.  Requests and verify are plain text, what the key exchange makes  *)
(* of them is in KeyExchange; here it is a choice.  Connect and data,      *)
(* which is everything else a page sends, commands included, are encrypted *)
(* under the keys the handshake agreed on.                                 *)
(***************************************************************************)
EXTENDS Naturals, Sequences, FiniteSets

CONSTANTS
    MaxMessages,    \* bound: messages the client sends
    MaxUnread,      \* bound: those of them that wait to be read
    MaxMail         \* bound: messages other members leave in the mailbox

ASSUME ConnectionAssumption ==
    MaxMessages \in Nat /\ MaxUnread \in Nat /\ MaxMail \in Nat

Plain == {"request", "verify"}
Encrypted == {"connect", "data"}
Kinds == Plain \cup Encrypted \cup {"garbage"}

Tellings == {"nothing", "ready", "actions"}
Subscribers == {"keyExchange", "registration"}
None == "none"

VARIABLES
    kinds,          \* the client's messages, in the order sent
    told,           \* history: what the client can have been told when it sent each
    gone,           \* the client has closed the socket
    read,           \* how many of them ReadJSON has returned
    reader, dispatcher, keyExchange, registration, member, consumer,
    item,           \* the message the dispatcher is dispatching
    subscriptions,
    serving,        \* the subscription whose channel the dispatcher sends on
    unserved,       \* those the range loop has not reached
    handled,        \* history: messages the key exchange took, in order
    joinedAt,       \* history: the connect message that spawned the member, or 0
    forwarded,      \* history: messages the member took, in order
    mail,           \* mailbox messages consumed so far
    crashed         \* the process died

netVars == <<kinds, told, gone>>
dispatchVars == <<dispatcher, item, serving, unserved>>
goroutines == <<reader, dispatchVars, keyExchange, registration, member, consumer>>
histories == <<handled, joinedAt, forwarded>>
vars == <<netVars, read, goroutines, subscriptions, histories, mail, crashed>>

TypeOK ==
    /\ kinds \in Seq(Kinds) /\ Len(kinds) <= MaxMessages
    /\ told \in Seq(Tellings) /\ Len(told) = Len(kinds)
    /\ gone \in BOOLEAN /\ crashed \in BOOLEAN
    /\ read \in 0..Len(kinds)
    /\ reader \in {"reading", "sending", "disconnecting", "ended"}
    /\ dispatcher \in {"select", "dispatching", "dropping", "ended"}
    /\ keyExchange \in {"subscribing", "setup", "signalling", "select", "replying",
                        "verifying", "failing", "closing", "unsubscribing", "ended"}
    /\ registration \in {"range", "subscribing", "announcing", "select", "ended", "failed"}
    /\ member \in {None, "joining", "subscribing", "welcoming", "select", "sending", "ended"}
    /\ consumer \in {None, "waiting", "writing"}
    /\ item \in 0..MaxMessages
    /\ subscriptions \subseteq Subscribers /\ unserved \subseteq Subscribers
    /\ serving \in Subscribers \cup {None}
    /\ handled \in Seq(1..read) /\ forwarded \in Seq(1..read)
    /\ joinedAt \in 0..read
    /\ mail \in 0..MaxMail

Init ==
    /\ kinds = <<>> /\ told = <<>> /\ gone = FALSE /\ read = 0
    /\ reader = "reading"
    /\ dispatcher = "select" /\ item = 0 /\ serving = None /\ unserved = {}
    /\ keyExchange = "subscribing"
    /\ registration = "range"
    /\ member = None /\ consumer = None
    /\ subscriptions = {}
    /\ handled = <<>> /\ joinedAt = 0 /\ forwarded = <<>>
    /\ mail = 0 /\ crashed = FALSE

-----------------------------------------------------------------------------
(* The client, which may send anything at any time. *)

\* How far the server has got with telling the client: Ready, which keyExchange
\* writes when it has set up, or AvailableActions, which registerConnection
\* writes.  A message being written may have arrived.
Told ==
    IF keyExchange \in {"subscribing", "setup"} THEN "nothing"
    ELSE IF registration \in {"announcing", "select", "failed"} \/ member # None THEN "actions"
    ELSE "ready"

Send(kind) ==
    /\ ~gone /\ ~crashed
    /\ Len(kinds) < MaxMessages /\ Len(kinds) < read + MaxUnread
    /\ kinds' = Append(kinds, kind)
    /\ told' = Append(told, Told)
    /\ UNCHANGED <<gone, read, goroutines, subscriptions, histories, mail, crashed>>

\* What the server has not read yet may be lost with the connection.
Leave ==
    /\ ~gone /\ ~crashed
    /\ gone' = TRUE
    /\ \E k \in read..Len(kinds) :
          /\ kinds' = SubSeq(kinds, 1, k)
          /\ told' = SubSeq(told, 1, k)
    /\ UNCHANGED <<read, goroutines, subscriptions, histories, mail, crashed>>

-----------------------------------------------------------------------------
(* listenForIncomingMessages *)

ReadMessage ==
    /\ reader = "reading" /\ read < Len(kinds)
    /\ read' = read + 1
    /\ reader' = IF kinds[read + 1] = "garbage" THEN "disconnecting" ELSE "sending"
    /\ UNCHANGED <<netVars, dispatchVars, keyExchange, registration, member, consumer,
                   subscriptions, histories, mail, crashed>>

\* Mutant: the error of ReadJSON is ignored, and its zero message passed on.
ReadFailsIgnored ==
    /\ reader = "reading" /\ gone /\ read = Len(kinds)
    /\ read' = read + 1
    /\ reader' = "sending"
    /\ UNCHANGED <<netVars, dispatchVars, keyExchange, registration, member, consumer,
                   subscriptions, histories, mail, crashed>>

ReadFails ==
    /\ reader = "reading" /\ gone /\ read = Len(kinds)
    /\ reader' = "disconnecting"
    /\ UNCHANGED <<netVars, read, dispatchVars, keyExchange, registration, member, consumer,
                   subscriptions, histories, mail, crashed>>

-----------------------------------------------------------------------------
(* subscriptionLoop: the range over the subscriptions, in any order *)

ServeNext(doing, pending) ==
    \/ /\ pending = {}
       /\ dispatcher' = IF doing = "dropping" THEN "ended" ELSE "select"
       /\ serving' = None /\ unserved' = {}
    \/ \E s \in pending :
          /\ dispatcher' = doing
          /\ serving' = s /\ unserved' = pending \ {s}

TakeMessage ==
    /\ dispatcher = "select" /\ reader = "sending"
    /\ reader' = "reading"
    /\ item' = read
    /\ ServeNext("dispatching", subscriptions)
    /\ UNCHANGED <<netVars, read, keyExchange, registration, member, consumer,
                   subscriptions, histories, mail, crashed>>

TakeDisconnect ==
    /\ dispatcher = "select" /\ reader = "disconnecting"
    /\ reader' = "ended"
    /\ item' = 0
    /\ ServeNext("dropping", subscriptions)
    /\ UNCHANGED <<netVars, read, keyExchange, registration, member, consumer,
                   subscriptions, histories, mail, crashed>>

\* Mutant: the subscription's send does not wait for its receiver.
SkipBusy ==
    /\ dispatcher = "dispatching"
    /\ ServeNext("dispatching", unserved)
    /\ UNCHANGED <<netVars, read, reader, item, keyExchange, registration, member, consumer,
                   subscriptions, histories, mail, crashed>>

\* decryptSubscription passes on nothing it cannot decrypt.
SkipUndecryptable ==
    /\ dispatcher = "dispatching" /\ serving = "registration"
    /\ kinds[item] \in Plain
    /\ ServeNext("dispatching", unserved)
    /\ UNCHANGED <<netVars, read, reader, item, keyExchange, registration, member, consumer,
                   subscriptions, histories, mail, crashed>>

\* The dispatcher's send on s's message channel, or on its disconnect channel,
\* meets a receive.
Delivered(s) ==
    /\ dispatcher = "dispatching" /\ serving = s
    /\ s = "registration" => kinds[item] \in Encrypted
    /\ ServeNext("dispatching", unserved)
    /\ UNCHANGED <<netVars, read, reader, item, consumer, subscriptions, mail, crashed>>

Dropped(s) ==
    /\ dispatcher = "dropping" /\ serving = s
    /\ ServeNext("dropping", unserved)
    /\ UNCHANGED <<netVars, read, reader, item, consumer, subscriptions, histories, mail, crashed>>

Subscribed(s) ==
    /\ dispatcher = "select"
    /\ subscriptions' = subscriptions \cup {s}
    /\ UNCHANGED <<netVars, read, reader, dispatchVars, member, consumer,
                   histories, mail, crashed>>

\* Mutant: UnSubscribe empties the map.
UnSubscribedAll(s) ==
    /\ dispatcher = "select"
    /\ subscriptions' = {}
    /\ UNCHANGED <<netVars, read, reader, dispatchVars, registration, member, consumer,
                   histories, mail, crashed>>

UnSubscribed(s) ==
    /\ dispatcher = "select"
    /\ subscriptions' = subscriptions \ {s}
    /\ UNCHANGED <<netVars, read, reader, dispatchVars, registration, member, consumer,
                   histories, mail, crashed>>

-----------------------------------------------------------------------------
(* keyExchange *)

OnlyKeyExchange ==
    UNCHANGED <<netVars, read, reader, dispatchVars, registration, member, consumer,
                subscriptions, histories, mail, crashed>>

ExchangeSubscribes ==
    /\ keyExchange = "subscribing"
    /\ keyExchange' = "setup"
    /\ Subscribed("keyExchange")
    /\ UNCHANGED registration

ExchangeSetUp ==
    /\ keyExchange = "setup"
    /\ keyExchange' \in {"signalling", "closing"}
    /\ OnlyKeyExchange

\* A write to the socket returns.  Only the reply to a request is followed by
\* another turn of the loop, and not when it was an error.
ExchangeWrote ==
    /\ \/ keyExchange = "signalling" /\ keyExchange' = "select"
       \/ keyExchange = "replying" /\ keyExchange' \in {"select", "closing"}
       \/ keyExchange = "failing" /\ keyExchange' = "closing"
    /\ OnlyKeyExchange

\* A message of another Varient leaves the loop where it is; one whose Data
\* does not parse ends it without an answer.
ExchangeTakes ==
    /\ keyExchange = "select"
    /\ Delivered("keyExchange")
    /\ handled' = Append(handled, item)
    /\ \/ kinds[item] = "request" /\ keyExchange' \in {"replying", "closing"}
       \/ kinds[item] = "verify" /\ keyExchange' \in {"verifying", "failing", "closing"}
       \/ kinds[item] \in Encrypted /\ keyExchange' = "select"
    /\ UNCHANGED <<registration, member, joinedAt, forwarded>>

ExchangeDropped ==
    /\ keyExchange = "select"
    /\ Dropped("keyExchange")
    /\ keyExchange' = "closing"
    /\ UNCHANGED <<registration, member>>

\* Mutant: after handing the connection over, the exchange answers the client.
HandOverThenReply ==
    /\ keyExchange = "verifying" /\ registration = "range"
    /\ keyExchange' = "replying"
    /\ registration' = "subscribing"
    /\ UNCHANGED <<netVars, read, reader, dispatchVars, member, consumer,
                   subscriptions, histories, mail, crashed>>

\* responder.Verified: the connection goes to registerConnection.
HandOver ==
    /\ keyExchange = "verifying" /\ registration = "range"
    /\ keyExchange' = "closing"
    /\ registration' = "subscribing"
    /\ UNCHANGED <<netVars, read, reader, dispatchVars, member, consumer,
                   subscriptions, histories, mail, crashed>>

\* The deferred calls, last one first.
CloseSuccess ==
    /\ keyExchange = "closing"
    /\ keyExchange' = "unsubscribing"
    /\ OnlyKeyExchange

\* Mutant: no deferred UnSubscribe.
ExchangeStaysSubscribed ==
    /\ keyExchange = "unsubscribing"
    /\ keyExchange' = "ended"
    /\ UNCHANGED <<netVars, read, reader, dispatchVars, registration, member, consumer,
                   subscriptions, histories, mail, crashed>>

ExchangeUnSubscribes ==
    /\ keyExchange = "unsubscribing"
    /\ UnSubscribed("keyExchange")
    /\ keyExchange' = "ended"

-----------------------------------------------------------------------------
(* registerConnection *)

OnlyRegistration ==
    UNCHANGED <<netVars, read, reader, dispatchVars, keyExchange, member, consumer,
                subscriptions, histories, mail, crashed>>

RegistrationSubscribes ==
    /\ registration = "subscribing"
    /\ registration' = "announcing"
    /\ Subscribed("registration")
    /\ UNCHANGED keyExchange

\* Mutant: on an error, registerConnection goes on with the next connection.
AnnounceContinues ==
    /\ registration = "announcing"
    /\ registration' \in {"select", "range"}
    /\ OnlyRegistration

\* AvailableActions; it fails when the client's key is too small for it.
Announce ==
    /\ registration = "announcing"
    /\ registration' \in {"select", "failed"}
    /\ OnlyRegistration

\* Mutant: any command joins.
RegistrationTakesAny ==
    /\ registration = "select"
    /\ Delivered("registration")
    /\ registration' = "range" /\ member' = "joining" /\ joinedAt' = item
    /\ UNCHANGED <<keyExchange, handled, forwarded>>

\* Mutant: registerConnection goes on listening after it started connect.
RegistrationKeepsTaking ==
    /\ registration = "select"
    /\ Delivered("registration")
    /\ UNCHANGED registration
    /\ \/ /\ kinds[item] = "connect" /\ member = None
          /\ member' = "joining" /\ joinedAt' = item
       \/ /\ kinds[item] # "connect" \/ member # None
          /\ UNCHANGED <<member, joinedAt>>
    /\ UNCHANGED <<keyExchange, handled, forwarded>>

\* Mutant: a command other than connect ends the inner loop.
RegistrationGivesUp ==
    /\ registration = "select"
    /\ Delivered("registration")
    /\ registration' = "range"
    /\ \/ /\ kinds[item] = "connect"
          /\ member' = "joining" /\ joinedAt' = item
       \/ /\ kinds[item] # "connect"
          /\ UNCHANGED <<member, joinedAt>>
    /\ UNCHANGED <<keyExchange, handled, forwarded>>

RegistrationTakes ==
    /\ registration = "select"
    /\ Delivered("registration")
    /\ \/ /\ kinds[item] = "connect"
          /\ registration' = "range" /\ member' = "joining" /\ joinedAt' = item
       \/ /\ kinds[item] # "connect"
          /\ UNCHANGED <<registration, member, joinedAt>>
    /\ UNCHANGED <<keyExchange, handled, forwarded>>

\* Mutant: the disconnect does not end the inner loop.
RegistrationIgnoresDrop ==
    /\ registration = "select"
    /\ Dropped("registration")
    /\ UNCHANGED <<keyExchange, registration, member>>

RegistrationDropped ==
    /\ registration = "select"
    /\ Dropped("registration")
    /\ registration' = "range"
    /\ UNCHANGED <<keyExchange, member>>

\* The range loop ends once keyExchangeSuccess is closed.
RangeEnds ==
    /\ registration = "range" /\ keyExchange \in {"unsubscribing", "ended"}
    /\ registration' = "ended"
    /\ OnlyRegistration

-----------------------------------------------------------------------------
(* connect, and the consumer its Subscribe starts *)

Join ==
    /\ member = "joining"
    /\ member' = "subscribing"
    /\ UNCHANGED <<netVars, read, reader, dispatchVars, keyExchange, registration, consumer,
                   subscriptions, histories, mail, crashed>>

SubscribeMailbox ==
    /\ member = "subscribing"
    /\ member' = "welcoming" /\ consumer' = "waiting"
    /\ UNCHANGED <<netVars, read, reader, dispatchVars, keyExchange, registration,
                   subscriptions, histories, mail, crashed>>

\* The Welcome was written, or exchangeConnection.Send returned.
MemberReturns ==
    /\ member \in {"welcoming", "sending"}
    /\ member' = "select"
    /\ UNCHANGED <<netVars, read, reader, dispatchVars, keyExchange, registration, consumer,
                   subscriptions, histories, mail, crashed>>

\* receivedMessage sends whatever it is given: Varient is not looked at, and
\* what does not parse goes to the destination "ERROR".
MemberTakes ==
    /\ member = "select"
    /\ Delivered("registration")
    /\ member' = "sending"
    /\ forwarded' = Append(forwarded, item)
    /\ UNCHANGED <<keyExchange, registration, handled, joinedAt>>

MemberDropped ==
    /\ member = "select"
    /\ Dropped("registration")
    /\ member' = "ended"
    /\ UNCHANGED <<keyExchange, registration>>

MailArrives ==
    /\ consumer = "waiting" /\ mail < MaxMail
    /\ mail' = mail + 1
    /\ consumer' = "writing"
    /\ UNCHANGED <<netVars, read, reader, dispatchVars, keyExchange, registration, member,
                   subscriptions, histories, crashed>>

MailWritten ==
    /\ consumer = "writing"
    /\ consumer' = "waiting"
    /\ UNCHANGED <<netVars, read, reader, dispatchVars, keyExchange, registration, member,
                   subscriptions, histories, mail, crashed>>

-----------------------------------------------------------------------------
\* The goroutines inside the socket's WriteJSON.
Writers ==
    {g \in {"keyExchange", "registration", "member", "consumer"} :
        CASE g = "keyExchange" -> keyExchange \in {"signalling", "replying", "failing"}
          [] g = "registration" -> registration = "announcing"
          [] g = "member" -> member = "welcoming"
          [] g = "consumer" -> consumer = "writing"}

\* gorilla/websocket 1.4.2 allows one writer at a time; when it notices
\* another one it panics.
ConcurrentWrite ==
    /\ Cardinality(Writers) > 1
    /\ crashed' = TRUE
    /\ UNCHANGED <<netVars, read, goroutines, subscriptions, histories, mail>>

ReaderStep == ~crashed /\ (ReadMessage \/ ReadFails)
DispatcherStep == ~crashed /\ (TakeMessage \/ TakeDisconnect \/ SkipUndecryptable)
KeyExchangeStep ==
    ~crashed /\ ( ExchangeSubscribes \/ ExchangeSetUp \/ ExchangeWrote \/ ExchangeTakes
                  \/ ExchangeDropped \/ HandOver \/ CloseSuccess \/ ExchangeUnSubscribes )
RegistrationStep ==
    ~crashed /\ ( RegistrationSubscribes \/ Announce \/ RegistrationTakes
                  \/ RegistrationDropped \/ RangeEnds )
MemberStep ==
    ~crashed /\ (Join \/ SubscribeMailbox \/ MemberReturns \/ MemberTakes \/ MemberDropped)

ServerNext ==
    \/ ReaderStep \/ DispatcherStep \/ KeyExchangeStep \/ RegistrationStep \/ MemberStep
    \/ ~crashed /\ (MailArrives \/ MailWritten \/ ConcurrentWrite)

Next == Leave \/ (\E kind \in Kinds : Send(kind)) \/ ServerNext

\* Goroutines keep running, writes to the socket and sends to the exchange
\* return; nothing is asked of the client or of other members.
ServerFairness ==
    /\ WF_vars(ReaderStep) /\ WF_vars(DispatcherStep) /\ WF_vars(KeyExchangeStep)
    /\ WF_vars(RegistrationStep) /\ WF_vars(MemberStep)
    /\ WF_vars(~crashed /\ MailWritten)

Spec == Init /\ [][Next]_vars /\ ServerFairness

-----------------------------------------------------------------------------
(***************************************************************************)
(* The key exchange takes the client's messages one after another, from    *)
(* the first one dispatched after it subscribed, and skips none: a message *)
(* can be lost before its Subscribe or after its loop, never in between.   *)
(***************************************************************************)
HandledWithoutGap ==
    \A i \in 1..(Len(handled) - 1) : handled[i + 1] = handled[i] + 1

(***************************************************************************)
(* The dispatcher hands a message to whoever is subscribed, and if nobody  *)
(* is, it is lost (connection.go:70).  A client that waits is safe from    *)
(* that: what it sends once Ready was signalled is taken by the key        *)
(* exchange or comes after its last message, and no connect that it sends  *)
(* once AvailableActions was announced is dispatched without having made   *)
(* it a member, or having found it one.                                    *)
(***************************************************************************)
Dispatched == 1..(IF dispatcher = "dispatching" THEN item - 1 ELSE item)
Taken(n) == \E i \in DOMAIN handled : handled[i] = n
AfterKeyExchange(n) ==
    /\ keyExchange \in {"closing", "unsubscribing", "ended"}
    /\ \A i \in DOMAIN handled : handled[i] < n

HeardIfWaited ==
    \A n \in Dispatched :
        /\ told[n] # "nothing" => Taken(n) \/ AfterKeyExchange(n)
        /\ told[n] = "actions" /\ kinds[n] = "connect" => joinedAt \in 1..n

(***************************************************************************)
(* Two goroutines take messages from the channel registerConnection made:  *)
(* first registerConnection, then the connect goroutine it starts.  The    *)
(* change of hands loses and reorders nothing: what is sent to the         *)
(* exchange is every encrypted message after connect, in order, once.      *)
(***************************************************************************)
OnlyAfterJoin ==
    \A i \in DOMAIN forwarded :
        forwarded[i] > joinedAt /\ kinds[forwarded[i]] \in Encrypted

InSendingOrder ==
    \A i, j \in DOMAIN forwarded : i < j => forwarded[i] < forwarded[j]

AllForwardedUpTo(last) ==
    \A n \in (joinedAt + 1)..last :
        kinds[n] \in Encrypted => \E i \in DOMAIN forwarded : forwarded[i] = n

ForwardedInOrder ==
    /\ OnlyAfterJoin /\ InSendingOrder
    /\ \A i \in DOMAIN forwarded : AllForwardedUpTo(forwarded[i])

(***************************************************************************)
(* Whoever has a mailbox asked for it, with a connect sent after the       *)
(* verify that ended the key exchange: the exchange takes no message after *)
(* that one, and connect counts only once registerConnection listens.      *)
(***************************************************************************)
MemberWasVerified ==
    joinedAt # 0 =>
        /\ kinds[joinedAt] = "connect"
        /\ handled # <<>>
        /\ kinds[handled[Len(handled)]] = "verify"
        /\ handled[Len(handled)] < joinedAt

(***************************************************************************)
(* Nothing serialises writes to the socket but the order in which the      *)
(* goroutines follow one another; that order keeps them apart except for   *)
(* Welcome, which connect writes when the consumer of its mailbox already  *)
(* runs (connection_registration.go:40-53).                                *)
(***************************************************************************)
WritersTakeTurns ==
    Cardinality(Writers) > 1 \/ crashed => /\ member = "welcoming"
                                         /\ Writers = {"member", "consumer"}

Ended ==
    /\ reader = "ended" /\ dispatcher = "ended" /\ keyExchange = "ended"
    /\ registration = "ended" /\ member \in {None, "ended"}

\* Goroutines left waiting for a dispatcher that has ended.
Leaked ==
    /\ reader = "ended" /\ dispatcher = "ended"
    /\ keyExchange \in {"subscribing", "unsubscribing"} \/ registration = "subscribing"

\* The dispatcher, and behind it the reader, waiting for a subscriber that
\* does not receive any more.
Wedged ==
    \/ serving = "keyExchange" /\ keyExchange = "unsubscribing"
    \/ serving = "registration" /\ registration = "failed"

\* Nothing can move: what every guard of the server waits for.
Resting ==
    /\ reader = "reading" => read = Len(kinds) /\ ~gone
    /\ dispatcher = "select" =>
          /\ reader \notin {"sending", "disconnecting"}
          /\ keyExchange \notin {"subscribing", "unsubscribing"}
          /\ registration # "subscribing"
    /\ dispatcher = "dispatching" /\ serving = "registration" => kinds[item] \notin Plain
    /\ keyExchange \notin {"setup", "signalling", "replying", "failing", "closing"}
    /\ keyExchange = "select" /\ serving = "keyExchange" =>
          dispatcher = "dispatching" /\ kinds[item] = "garbage"
    /\ keyExchange \in {"verifying", "unsubscribing", "ended"} => registration # "range"
    /\ registration # "announcing"
    /\ registration = "select" \/ member = "select" =>
          ~(serving = "registration" /\ (dispatcher = "dropping" \/ kinds[item] \in Encrypted))
    /\ member \in {None, "select", "ended"}
    /\ consumer # "writing" /\ (consumer = "waiting" => mail = MaxMail)

(***************************************************************************)
(* Once the client is gone the goroutines come to rest, and there are no   *)
(* more ways to do so than these: all ended, which takes a key exchange    *)
(* that is over before the disconnect is dispatched; ended but for those   *)
(* that wait for the dispatcher; or the dispatcher stuck in one of the two *)
(* places where a subscription outlives its receiver.                      *)
(***************************************************************************)
RestsOnlyThere == gone /\ ~crashed /\ Resting => Ended \/ Leaked \/ Wedged

(***************************************************************************)
(* A verified handshake gets as far as AvailableActions, whatever the      *)
(* client sends meanwhile: the dispatcher is free to subscribe             *)
(* registerConnection while the key exchange is on its way out.  If not,   *)
(* the key cannot encrypt the announcement, or the dispatcher is stuck or  *)
(* has ended.                                                              *)
(***************************************************************************)
VerifiedIsAnnounced ==
    keyExchange = "verifying" ~> registration \in {"select", "failed"} \/ Wedged \/ Leaked

(***************************************************************************)
(* With the key exchange out of the way the reader is never held up for    *)
(* good: whatever it read is dispatched, be it to registerConnection, to   *)
(* connect, or to nobody.                                                  *)
(***************************************************************************)
MessagesFlow ==
    (reader = "sending" /\ keyExchange = "ended") ~>
        (reader = "reading" \/ registration = "failed" \/ crashed)

(***************************************************************************)
(* A client that was a member and leaves takes all its goroutines with it, *)
(* if only the key exchange had ended before; the mailbox's consumer is    *)
(* not among them.                                                         *)
(***************************************************************************)
MemberCleanedUp ==
    (member # None /\ keyExchange = "ended" /\ gone) ~> (Ended \/ crashed)
=============================================================================
