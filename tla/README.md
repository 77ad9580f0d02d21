# encryto, modelled and verified in TLA+

encryto is a Go server (`src/core`, `src/adapters`, `src/cmd/server`) and a
TypeScript client (`src/js`).  A browser opens a websocket, the two sides
exchange RSA keys and prove with a verification code that they hold them, and
from then on the browser is a member of an *exchange*: it has a mailbox, sends
encrypted messages to other mailboxes, and one mailbox belongs to a
*presentation coordinator* that forms groups.

This directory keeps TLA+ models of that system beside the code.  TLC checks
them on small instances, TLAPS proves the most important results for every
value of the constants.

## Inventory

| component | code | state it keeps | operations |
|---|---|---|---|
| handshake handler | `core/communication/handshake` | which of the two keys were exchanged, the verification code, the closure that sends it | SendKey, ReceiveKey, SendVerification, Verify |
| key exchange | `core/communication/key_exchange.go`, `hub.go` | loop flags, the responder's `hadError`, the channel `keyExchangeSuccess` | one goroutine per connection: a loop over requests and a disconnect |
| subscribable connection | `core/subscribable` | map of subscriptions, four channels | reader and dispatcher goroutines, Subscribe, UnSubscribe, WriteMessage |
| connection registration | `core/communication/connection_registration.go` | `connected`, `disconnected`, the channel it shares with `connect` | registerConnection, connect, receivedMessage |
| encrypted connection | `core/communication/encryped_connection.go` | the key pair of the handshake | decrypt incoming, encrypt outgoing messages |
| hub | `core/communication/hub.go` | none | AddConnection; responder of the handshake |
| actor exchange | `core/actors/concurrent` | map of outboxes, a lock, one channel, subscriber and mutex per outbox | Connect, Reconnect, Send, Subscribe |
| presentation coordinator | `core/actors/presentation` | three groups of member ids | one subscriber callback |
| RSA adapters | `adapters/asymetric` | keys | encode, encrypt, decrypt, parse |
| server main | `cmd/server` | the id counter | wiring |
| client handshake | `js/src/core/handshake`, `machineHelpers.ts` | a state machine | transitions on answers of the server |
| client connection | `js/src/core/connection.ts`, `socket.ts`, `websocketClient.ts` | the connection machine, the socket, `outgoing` with its last message and its subscriptions, a timeout | opens sockets, runs handshakes, dispatches, reconnects |
| client cryptography | `js/src/adapters/cryptography`, `workflow.ts` (encryptedSocket) | promises under way | encrypt, decrypt |
| client pages, command line tools | `js/src/entries`, `cmd/{encrypt,decrypt,otp}` | none of interest | user interface, experiments |

How they interact.  `AddConnection` starts, for one websocket, the *reader*
(ReadJSON loop), the *dispatcher* (`subscriptionLoop`: one `select` over new
messages, disconnects, Subscribe and UnSubscribe; it sends each message to
every subscription, in map order), `keyExchange` and `registerConnection`.  All
channels between them are unbuffered, so each send is a rendezvous and may
block.  When Verify succeeds, the responder passes an encrypted connection on
`keyExchangeSuccess` to `registerConnection`, which subscribes, announces
`AvailableActions`, and on a `connect` message starts `connect`, which takes
over its channel and joins the exchange.  Each mailbox has a consumer
goroutine that calls the subscriber: for a member that writes to its socket,
for the coordinator that runs its callback, which sends to members.

In the browser, `connection.ts` opens a socket, runs the handshake workflow on
it, and after a success dispatches `connect` and subscribes to `outgoing`, a
BehaviorSubject: what the page dispatches, and first of all the last thing it
dispatched, goes through an encryption promise to the socket.  A handshake that
fails opens the next socket at once, a connection that breaks a second later.

What is hard.  Five or six goroutines per connection and rendezvous in both
directions between dispatcher and subscriber (deadlock, messages dispatched to
nobody); a socket that allows one writer and has several; a handshake whose
requests come in any order and number from the client; a map read without its
lock; bounded outboxes that block their senders; errors that are recorded
before, after or instead of what they are about; promises that settle in any
order, so that a message may overtake the `connect` before it; sockets that come
and go under all of this; and messages whose size depends on who serialises
them.  `hazards` in PROJECT.json
lists each place with the properties that watch it.

What makes each component correct, in short: *handshake* – Verified is earned,
under the key that is registered; *key exchange* – at most one registration,
errors end it; *client handshake* – success means that both sides agree, and it
is called back once; *client connection* – each message is sent once per
connection, only the latest again on the next, none is lost in a way nobody
knows of, and a lost socket is replaced, once; *codec* – every byte survives, and
a message one can send one can be sent; *connection goroutines* – no gap or reordering of messages, none lost to
a client that waits to be told, one socket writer, a known list of places where
they can rest, cleanup; *exchange* – unique ids, each message delivered once and
in order, senders held up for good only by members that stopped reading;
*coordinator* – everyone hears commands in the same order and after being
welcomed, and is held up only by members that stopped reading.

## Modules

| module | models | extends |
|---|---|---|
| `Handshake` | the handler object, with a history of its calls | |
| `KeyExchange` | the request loop around it | `Handshake` |
| `ServerConnection` | all goroutines of one connection | |
| `PoliteClient` | the same, with the client of `hub_test.go` | `ServerConnection` |
| `ClientHandshake` | the browser's handshake machine and workflow | |
| `Workflow` | abstract: what `connection.ts` may expect of a handshake | |
| `Session` | browser and key exchange over one websocket, shown to implement `Workflow` | `ClientHandshake`, instantiates `KeyExchange`, `Workflow` |
| `Codec` | widths of bytes, sizes of texts | |
| `Outgoing` | abstract: what a page may expect of `dispatch` | |
| `ClientConnection` | the browser over all its sockets, with mail and the server's end of it, shown to implement `Outgoing` | `Workflow`, `Codec`, instantiates `Outgoing` |
| `Mailboxes` | abstract: what the exchange promises | |
| `Exchange` | `core/actors/concurrent`, shown to implement `Mailboxes` | |
| `Coordinator` | `core/actors/presentation` over bounded outboxes | |
| `KeyExchangeProofs`, `ServerConnectionProofs`, `ExchangeProofs`, `CoordinatorProofs`, `SessionProofs`, `CodecProofs`, `OutgoingProofs`, `ClientConnectionProofs` | theorems; those about `Handshake` are in `KeyExchangeProofs` | the module named |
| `MCHandshake`, `MCKeyExchange`, `MCExchange`, `MCCoordinator`, `MCClientConnection` | model values for TLC | the module named |

### Handshake

`serverKeySent`, `verification`, `clientKey` and `onSendVerify` are the fields
of `handshakeWorkflowHandler`.  A closure is represented by the key it
captures.  Keys are what the RSA adapter makes of a text: not PEM at all
(`NotPem`), PEM without a key (`Unparsable`), a key too small for the code
(`TooSmall`), or good.  A method runs to completion before the next one, since
one goroutine calls them, so each is one action; `calls` records method,
argument and answer and is what the properties speak about.

### KeyExchange

`phase` is where `keyExchange` is: before `SignalReady`, in the loop, or
returned.  A request is one action made of the handler's action, the
responder's bookkeeping (`responderHadError`) and the loop's tests of it.  The
code given to SendVerification is the one `GenerateCode` made before the loop.

### ServerConnection

One variable per goroutine says where it is; a rendezvous is one action with
the guards of both sides.  A client message is its position in the sequence
sent, `kinds` gives its kind: a request or a verify, which are plain text,
`connect` or other data, which are encrypted (commands are data: the server
passes them on without looking), or garbage, which ReadJSON rejects.  What a
request does is in `KeyExchange`; here
the key exchange chooses among the outcomes that module allows (answer,
answer with an error, or end).  Reading, dispatching to one subscription after
another, and writing to the socket (begin and end) are separate steps, so
every interleaving of them is explored.  `handled`, `joinedAt`, `forwarded` and
`told` are histories; `told` records how much the client can have heard from the
server (`Ready`, `AvailableActions`) when it sent a message, and with it
`HeardIfWaited` can say which messages the dispatcher may hand to nobody: those of
a client that did not wait.

### ClientHandshake and Session

JavaScript runs an event to its end, so each event (open, close, message, a
promise that settles) is one action, including the transition the workflow makes
itself when it enters CONNECTED, CLIENT_KEY_RECEIVED, KEYS_EXCHANGED or
SERVER_VERIFICATION_RECEIVED.  `machine` and `context` are `currentState` and
`context` of `newMachine`; `listening` is whether the two socket subscriptions
are there, `watching` the same of `machineSubscription`; `pending` holds the
promises under way.  `stateMap` is the map of that name without its ERROR
column, which every state has.  A transition a state does not have changes
nothing.  A decryption, an import or an encryption may be rejected at any time,
without a reason: the code does not look at reasons.

`Session` joins this to the actions of `KeyExchange` through two queues, the two
directions of the websocket.  Of the dispatcher only this is kept: a message read
before `keyExchange` has subscribed is gone (`Lose`), later ones reach it in
order; `ServerConnection` has the rest.  Closing the socket loses what is under
way, from some message on.

`Workflow` is what is left of all this for `connection.ts`: the state of the
socket wrapper and which callback was called.  `Session` implements it under the
mapping that counts callbacks (`ImplementsWorkflow`), so `ClientConnection` may
take it for the handshake.

### Codec

`ToInt8`, `ToByte` and `ToUint8` are the conversions of `toIntArray`, `toBytes`
and `new Uint8Array`, `IsInt16` is what `json.Unmarshal` accepts.  Of a text only
this matters for its size: how many characters it has of each class that the
two JSON writers and UTF-8 treat alike.  `Typed` is its size as the browser writes it, `Written` as the
server does, `Shown` the characters `ab2str` makes of it.  The constants 85 and
86 are the envelopes of `notes.ts` and `shared.FromMessage` around it.

### Outgoing and ClientConnection

`socket` numbers the sockets; `connectionState` and `result` are those of the
current one, per `Workflow`.  The connection machine needs no variable of its
own: it is in HANDSHAKE while `result` is `"none"` and in CONNECTED after; INITIAL
and NEW_SOCKET are left in the step that enters them.  A `success` runs CONNECTED's subscriber in the same
event: `connect` and the value of `outgoing` are both handed to encryption
promises.  `dispatched` numbers the page's messages, so that `outgoing`'s value
is the last number, and 0 is `{}`; `encrypting` and `decrypting` are the promises,
which settle in any order; `toServer` and `toClient` the websocket's two
directions.  `Close` loses what is under way, from some message on.  The server
is `registerConnection` and `connect` as one message sees them (`HandOver`); that
the dispatcher may be stuck on `keyExchange`'s UnSubscribe when the first message
comes, which `ServerConnection` shows, is the second disjunct of `Take`.  The server's
end of each socket lives on when the browser has moved to the next, which is how
a message comes to be forwarded twice.

`Outgoing` keeps of this the connections, what each owes and what was sent.  A
connection of it is a socket on which a handshake succeeded; it is `up` while
that socket is open.

What is left out, being without effect: on an old socket, its subscription to
`outgoing`, its promises and its mail.  `Take` of an old socket stays.

### Exchange

The callers are the goroutines that use the exchange.  Connect is three steps
(lock and read the counter; increment it; insert and unlock), Reconnect two,
Send two (look up both ends, without the lock; write to the channel), Subscribe
one, and a consumer's turn is three (receive; lock and call; return and
unlock).  The call returns also when its member has gone, since `connect`'s
callback ignores the error of the write; while the member is there and does not
read, it may never return (`Stall`), and its consumer keeps the mutex.  A look-up while another caller writes the map is a data race: it may
find the entry, miss it, or end the process (`DetectRace`).

The abstract `Mailboxes` has a queue per id, whether somebody subscribed, whether
that subscriber stalled, and whether the process is up.  The refinement mapping is `mailbox[id] = Held(id) \o
outbox[id]`: the message a consumer has received but not handed over is still
in the mailbox.

### Coordinator

`sending` is the list of Sends the running callback still has to make; it is
non-empty exactly while the coordinator's consumer is inside its callback.  A
request is a member's id and what its content is compared with.  `messageAll`
walks a Go map, so `Announcements` are all permutations.  Members' consumers
take from their outbox and write to the socket in two steps, and a member may
stop reading (`Stall`): `WriteMessage` sets no deadline.  `requested`,
`received`, `commands` and `since` are histories.  So are the numbers: a request
has one that says which of all it is, an answer that of the request it answers,
and a notice, whose text in the code is always the same, that of the command it
tells of.  No guard reads them; with them the properties can say that each
command is heard *once* and each request answered *in turn*, not only that the
counts agree.

## Runs

| run | bounds | what it shows |
|---|---|---|
| `handshake_code_sent` | 5 calls; 2 good keys, one of each bad kind; 2 codes | **violated**: a Verify is answered Verified although the code was never sent, since its encryption failed |
| `handshake_bad_key` | the same | **violated**: a key that is not PEM panics instead of being reported |
| `key_exchange` | 6 calls, the same keys and codes | in no order of requests is Verified obtained without a complete handshake under the registered key; the closure that encrypts the code never outlives its key; at most one registration and one Verify; an error ends the loop at the next key |
| `key_exchange_error` | 5 calls | **violated**: after "connection will be dropped" requests are still answered |
| `server_connection` | 4 messages of any kind, 1 of them unread, 1 mail | order and hand-over of messages, a client that waits for `Ready` and `AvailableActions` is heard, writers of the socket, a verified client hears of `AvailableActions` unless one of the known leaks comes between, every way the goroutines can come to rest, cleanup after a disconnect |
| `polite_client_connect` | 6 messages, 2 of them unread, 1 mail | **violated**: its `connect` may never be answered |
| `session` | one handshake, all settlings, rejections and closings | a handshake that succeeds leaves both sides with the same keys and code; the workflow implements `Workflow`: one outcome, success only on a socket not known to be closed; the client never earns an Error; it hangs only in known cases, and in no others do both sides wait for each other |
| `client_connection` | 2 sockets, 2 messages, 1 mail; texts that pass, that are too long, that grow too long | the browser implements `Outgoing`; a message reaches the exchange twice only if it was the latest at a reconnect; the only ways to lose one on a connection that is up; mail arrives unless it grew; one timeout for a broken connection; a lost socket is replaced; nothing stays under way |
| `exchange` | 2 callers, 2 connections, 3 sends, capacity 1, 2 Subscribes per outbox | unique ids, which race is left, exclusive calls of subscribers, no message lost or doubled; where everything stands still only Sends to full outboxes wait that nobody reads, or whose member stopped reading, and the lock is free |
| `exchange_mailboxes` | the same, capacity 2, 1 Subscribe | the exchange implements `Mailboxes`, delivery included; one subscriber reads in the order written; a Send to a subscribed mailbox returns unless its member stopped reading |
| `exchange_order` | as `exchange` | **violated**: after a second Subscribe, messages may arrive out of order |
| `coordinator` | 2 members, 4 requests, capacity 1 | who hears which command, order of answers, welcome before news, what can hold the coordinator up |

Why the bounds are enough.  A complete handshake is four calls and replacing a
key takes a fifth; the key exchange adds one for the request after an error.
The `session` run needs no bound: the browser sends each request once, and
its state space is small because the handshake is lock-step except for closing,
rejections and the server's start.  The protocol of a connection is request, verify, connect, and one more message
while the goroutines change over; `garbage` and leaving may come anywhere.  With
one message unread, one in the reader's hands and one in the dispatcher's, three
are under way at once, more than any hand-over spans; more unread ones only
stand for the client being ahead, which the choice of kinds gives too.  In
`client_connection` the second socket is the reconnect, and with two messages one
is the latest when it connects and one is older or newer; a third socket or
message meets no code the second did not.  Mail is independent of other mail
but for order, which no property claims, so one is enough; `Codec` is evaluated
for all 256 bytes.  In
the exchange two callers make every pair of overlapping calls, three sends fill
an outbox of one or two with one more waiting, and two Subscribes make the two
consumers that compete.  In the coordinator the shortest interesting runs are
join, join control, and two commands, or both groups, control and one command;
capacity 1 makes every outbox fill up that in the program takes ten messages.
Two callers, and two members, are interchangeable, so the invariant runs use
symmetry; the runs with liveness do not.

Deadlock is not checked (`CHECK_DEADLOCK FALSE`) since every bounded run ends:
the client is not obliged to send, nor are callers to call.  Where coming to
rest is the question it is asked by a property instead: `RestsOnlyThere`,
`RestsOnStalledMember` and `OnlyUnreadBlocks` say where, `NeverStuck` that it goes
on until then, `MessagesFlow` and `SendReturns` what it comes to.

### What was found

The violated runs are disagreements between the code and its own words or
tests; PROJECT.json `findings` quotes both sides.

1. `SendVerification` records the code as sent before it is encrypted; if that
   fails, a Verify with the code still succeeds.
2. `NewRSARemoteContainer` dereferences the nil block of a text that is not PEM.
3. An error in `GetVerification` does not end the loop that the answer says
   will end.
4. `keyExchange`'s deferred UnSubscribe and the dispatcher's delivery to it wait
   for each other if the client's next message is dispatched first, although
   the client sent that message only after `AvailableActions`.
5. A second `Subscribe` adds a consumer instead of replacing the first, and the
   two may deliver out of order.

Also seen, and stated as properties of what the code does do: `Send` reads the
map without the lock (`OnlySendRaces` says that it is the only one), Welcome and
the mailbox's consumer may write to the socket at once (`WritersTakeTurns`),
three kinds of goroutines can be left behind (`RestsOnlyThere`), and a client
waits for ever after a rejected import or encryption, or if its first request
arrives before `keyExchange` subscribes (`HangsOnlyThen`): it does not wait for
`Ready` and has no timeout.  A message may be encrypted before the `connect` that
was dispatched before it, and is then ignored without notice (`GetsThrough` names this
among the four ways to lose one); a reconnect sends the last message again, or
`{}` (`ForwardedAgainIfReplayed`); a message full of `<`, `>` and `&` that the
sender could encrypt may be too long once the server has escaped it, and is
dropped (`MarkupMayNotFit`, and the premise of `MailIsShown`); and the page shows
each byte of a character beyond ASCII as a character (`ShownAsTyped`).  Nothing
keeps the order of a page's messages, or of its mail: each is encrypted or
decrypted by a promise of its own.

### Fairness

Every goroutine gets to run and, when it can go on, does: weak fairness of each
goroutine's steps is what the Go scheduler gives.  A goroutine's channel
operations are one action each with both sides' guards; the dispatcher's
`select` chooses among ready cases at random, so fairness of the goroutine, not
of each case, is assumed.  Writes to the socket return in `ServerConnection`
(there the client keeps reading or closes).  In `Exchange` a subscriber may stall
instead, and what is promised of its mailbox excepts that; a member that is gone is
no exception: writes to it fail, and the consumer goes on.  `Coordinator` has no
fairness: it asks about states in which nothing can move, and there too a member may
have stopped reading.  Nothing is asked of a client or of a
caller that has not begun a call; only `PoliteClient` assumes that its client
sends `connect` when told it can.  In `ClientConnection` the browser's event loop
handles what has happened (a failed handshake's callback once the socket is gone,
a disconnect, a message), its timeouts fire and its promises settle (WebCrypto
always answers), and the server's dispatcher takes messages; a handshake on an
open socket need not end, since `HangsOnlyThen` lists how it may hang.  In `Session` promises settle, an event that
has happened is handled, and the server's goroutines run; nothing is assumed of
the socket, which may close or not.  `SendReturns` needs no fairness between
several senders that wait for the same outbox beyond weak fairness, because
sends are bounded; for an unbounded stream of competing senders Go's channels,
which are first come first served, would be needed.

## Proofs

All theorems hold for every value of the constants that satisfies the module's
assumption (`HandshakeAssumption`, `KeyExchangeAssumption`,
`ExchangeAssumption`, `CoordinatorAssumption`, `ConnectionAssumption`,
`ClientAssumption`, `SessionAssumption`): any sets of keys, codes, callers, members
and texts, any bounds; three theorems have a hypothesis more, named below.  `Codec`
and `Outgoing` have no constants.  The inductive invariants are defined in the
proof modules, before the lemmas that use them; each was first checked by TLC on
the instance of the run of its module.  Each begins with the module's type
invariant (`KTypeOK`, `TypeOK`), a theorem of its own; the runs of `Exchange` and
`ServerConnection` check theirs too, the other runs leave it to the theorem.

Liveness is out of the provers' reach, but the safety half of it is not: that a
state in which the promised thing has not happened is not one in which nothing can
move.  Every liveness property but `Drains` has that half among the theorems, in
terms of guards written out (`Resting`, `AtRest`, `CanMove`, `CanProceed`).  What
stays with TLC is the other half, that fairness then brings it about.

`KeyExchangeProofs`, of the handler: `TypeCorrect`, `CodeForCurrentKey`,
`VerifiedIsEarned`.  The invariant `VerifiedAfterHandshake` speaks only of the history of calls and is
not inductive: nothing in it ties the fields of the handler to the history.
`HandshakeInv` adds that tie (what each field holds was put there by a call on
record, and no later call took it back).

Of the loop around it: each step is a step of the handler or leaves it
alone, so the loop inherits `VerifiedAfterHandshake`
(`ExchangeVerifiedIsEarned`) and `CodeGoesToCurrentKey`
(`ExchangeCodeForCurrentKey`).  `ExchangeTypeCorrect`, `RegisteredOnce` and
`ErrorIsSticky` follow from `ExchangeInv`: Verify is the last call on record, and
`hadError` remembers every ErrorResponse.

`ServerConnectionProofs`: the safety invariants of the goroutines of one
connection.  None is inductive alone: each is about histories, and what keeps the
histories right is who may take a message at which point.  `ConnectionInv` says
so in six parts.  `DispatcherInv`: the dispatcher is at most one message behind
the reader, and what it has still to serve is registered.  `TurnsInv`: nothing of
`registerConnection` starts before the key exchange has taken its last message, a
verify, and nothing of `connect` before `registerConnection` has handed over.
`HandledInv` and `ForwardedInv`: a subscription has seen all messages up to the
dispatcher's (`Reached`), less the one it is still owed.  From it
`ExchangeSkipsNothing`, `ChangeOfHandsLosesNothing`, `MembersAreVerified`,
`OnlyWelcomeCollides`.  `HeardInv`: as far as the dispatcher has got, who was told
is heard, and nobody is told before the subscription is there that will hear them.
From it `WaitingIsEnough`: no message of a client that waits goes to nobody.  `RestInv`: who receives from the dispatcher goes on doing
so until it is told of the disconnect, and the dispatcher does not end before it
has told all of them.  From it `NoOtherWayToRest`: where nothing can move, the
goroutines ended, were left behind by the dispatcher, or hold it up in one of two
places.  Three consequences are the safety halves of the module's liveness:
`MembersLeaveNothingBehind` (a member whose key exchange is over and whose client
has gone rests with all goroutines ended; `MemberCleanedUp`),
`HandOverIsNotHeldUp` (no goroutine waits for good in the middle of a hand-over
unless the dispatcher is stuck or has ended; `VerifiedIsAnnounced`), and
`ReaderIsHeldUpOnlyByFailure` (`MessagesFlow`).  The instance has four messages,
the theorems any number.

`ExchangeProofs`: `MapInv` is inductive; besides the types it says who holds the
lock at which point of a call (`LockHeld`), that ids are given out in turn
(`IdsInTurn`) and that every pending call is about an id and a message that
exist (`CallsPending`).  From it follow `TypeCorrect`, `IdsUnique`,
`SendAloneRaces`, and with a second invariant `CallsExclusive`.  `MessagesOnce` is
about any number of consumers on one outbox: `PlaceInv` adds that messages being
sent differ from one another and from all that was written (`SendsDiffer`), and
that a message in an outbox is there once and in nobody's hands (`OnePlace`).
`ExchangeImplementsMailboxes` shows, if every connection subscribes at most
once, that each step of the exchange is a step of `Mailboxes` or changes nothing
there: Write posts, Subscribe opens, Call delivers, Stall stalls, DetectRace
crashes, and all else, Take and Return included, stutters.  The assumption is needed (`exchange_order`), and
it is how the program uses the exchange: `connect` and `Coordinate` subscribe
once each.  Under the same assumption `OneSubscriberReadsInOrder`: by `InOrder`, what
was written is what was delivered, then what the one consumer holds, then the
outbox.  `NothingElseBlocks` needs no assumption: `LockReleased` says that who
holds the lock, or reads under it, is at a point of a call from which it goes on
alone, and `ConsumersDrain` that of several consumers of one outbox one can
always move while there is a message, unless one of them has stalled in its call
and keeps the mutex from the others.  It is the safety half of `SendReturns`.

`CoordinatorProofs`: `CommandsReachTheirGroups`, `RequestsAreAnsweredInTurn`,
`MembersAreWelcomedFirst`, for any members (also infinitely many; the groups stay
finite), any capacity, any number of requests, and every order in which a map may
be walked.  A property that relates a request to its answer is about two
outboxes and a callback between them, so `CoordinatorInv` follows a request
through its places: it is itself at each (`RequestsNumbered`), and what is further
along is older (`RequestsInTurn`); what the callback sends is due
(`AnswersAreDue`) and is either one answer or one round of notices
(`OneCallback`); and who is in a group has its Welcome, or the callback is about
to send it and nothing else (`MembersWelcomed`).  That a round reaches every
member once rests on a lemma about `SetToSeqs`: its sequences have the set's
size and all its elements, and are therefore injective.  `OnlyAStalledMemberHoldsUp`
needs only `RequestsInTurn`: if all places but the mail are empty, the mail
answers everything.

`RestsOnlyThere` and `RestsOnStalledMember` are about states in which nothing can
move.  `Resting` and `AtRest` say that with the guards written out, negated one by
one, so that the provers, which do not know ENABLED, can use them.  The liveness
properties do not depend on them: `MemberCleanedUp`, `MessagesFlow` and
`VerifiedIsAnnounced` are about the steps themselves.

`SessionProofs`: `NoRequestIsRefused`, `SuccessIsAgreed`,
`SessionImplementsWorkflow`, `HandshakeIsNeverStuck`, for any keys and code and any bound on the server's
calls; `ClientAssumption` and `SessionAssumption` only keep them apart from each
other and from what stands for nothing.  That the two sides agree in the end is
not inductive: it takes all of the conversation.  `SessionInv` says that it is in
lock-step.  The server's fields are those after as many of the four calls as are
on record (`ServerInTurn`); the next call is at one place at most, on its way
(`RequestInTurn`), answered (`AnswerInTurn`), or in the hands of a promise of the
browser (`PromiseInTurn`); and the browser's state says which of them it waits for
(`BrowserInTurn`).  A socket that closes, or a request read too early, leaves the
next call nowhere, which all of this allows.  `OutcomeInTurn` is why one callback
is called at most, and with it every step of the session is one of `Workflow`'s
or changes nothing there.  `HandshakeIsNeverStuck` needs the converse of lock-step:
while neither side has given up, the next call is at *some* place.  That is
`Going => UnderWay` in `NeverStuckInv`; `LoopRuns` adds that the server's loop has not
returned before it.  The theorem assumes `MaxCalls >= 4`, room in the bound for the
four calls of a handshake; it is the safety half of `HangsOnlyThen`.

`CodecProofs`: `BytesSurvive`, by the ranges of the three conversions;
`FewEscapesFit` and `MarkupMayNotFit` from how much a text grows between the two
writers (`Growth`); `ShownAsTyped`.  They are about every text, where the run has
three.

`OutgoingProofs`: what being an implementation of `Outgoing` is good for.
`OutgoingSentOnce` and `OutgoingNothingOlder` follow from `OutgoingInv`, which adds
that what was sent on the current connection is neither waiting nor older than `replayed`,
that what was sent on earlier ones is not newer than it, and that nothing is newer
than `latest`.

`ClientConnectionProofs`: for any number of sockets, messages and mail, and any
texts.  `BrokenConnectionIsReplacedOnce`: a disconnect is taken notice of once, in the
step that sets the timeout, and only the timeout leaves CONNECTED.  The others
follow from `ClientInv`.  Its parts: only the current socket encrypts, and only once
it is subscribed (`SocketInv`); on one socket a message is at one place, being
encrypted, under way, or forwarded (`OncePerSocket`); what a socket carries is no
older than the message it began with, which is no older than what earlier
sockets carry (`NothingOlder`); and as long as `registerConnection` waits for
`connect`, everything ahead of it overtook it (`ConnectInv`).
`OnlyTheLatestIsForwardedAgain` needs the second and third,
`OwedMessagesGetThrough` the first and last.  `MailReachesThePage` rests on
`CodecProofs`: `FewEscapesFit` for the size, `BytesSurvive` for the bytes.
`ClientImplementsOutgoing` is the step simulation of `Outgoing` (its safety, which
is all `Outgoing` has): each kind of step of the client is one of `Outgoing`'s
or changes nothing there.  `PageMessagesSentInTurn` is what that buys: the two
theorems of `OutgoingProofs`, instantiated at the client's state, hold of the
client.  `AllArrivedWhenQuiet` joins `GetsThrough` and `MailIsShown` at an open socket
on which nothing is under way.  `LostSocketIsReplaceable`, the safety half of
`Reconnects`, follows from `OneTimeoutIfBroken` and the types.

Only model-checked:

- all liveness (`MessagesFlow`, `MemberCleanedUp`, `VerifiedIsAnnounced`,
  `HangsOnlyThen`, `Reconnects`, `Drains`, `SendReturns`, the delivery half of
  `DeliversAsMailboxes`), which the provers do not reach;
- `PoliteClient`, which exists for its violated run.

## Not modelled

- RSA, PEM and JSON themselves: a key is one of the kinds above, a ciphertext
  either decrypts or does not, a text is counts of characters.  Key generation and
  import in the browser are library calls.
- Sizes are those of messages between pages of `notes.ts`; the coordinator's
  announcements are not measured.
- `ServerConnection` has one connection and the mailbox as a source of mail; how
  connections meet is `Exchange`.  A member's Send is taken to return there,
  and a write to the socket; `Exchange` says when the one does not, and
  `Coordinator` and `Exchange` what happens if the other does not.
- In `Coordinator`, members' messages to each other are left out; they fill
  outboxes as notices do.  `Reconnect` is never called by the server
  (`connection_registration.go:116` only logs), `Exchange` has it all the same.
- Each run of `Session` is one socket.  There the announcement always encrypts,
  the browser's key being large enough.
- In `ClientConnection`, besides what is said above: a handshake that fails on an
  open socket leaves that socket open, and the server with it; the socket
  factory throwing, which `new WebSocket` does not for a valid address; and
  time, so neither the second before a reconnect nor that a failed handshake
  reconnects without one.
- Outboxes are never removed by the code, so a mailbox outlives its member, and so
  does its consumer; the models have no action for it.
- `cmd/{encrypt,decrypt,otp}` and the client's pages: sequential, or user
  interface.

## Plan

Done: the server from the socket to the coordinator, the browser's handshake and
connection, the codec, three refinements, and the proofs above.  What is left is
a composition of `Coordinator` with `Exchange`'s operations.  Until then the link is
this: `Coordinator` takes each outbox for a bounded queue with one reader, and
`ExchangeImplementsMailboxes` and `OneSubscriberReadsInOrder` show that an outbox
of `Exchange` is one if it is subscribed once, as the program does.
