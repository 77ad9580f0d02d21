------------------------------ MODULE Exchange ------------------------------
(***************************************************************************)
(* core/actors/concurrent/impl.go: a map from ids to outboxes, each a      *)
(* bounded channel with a subscriber.  Any number of goroutines, here      *)
(* Callers, use it at the same time; each holds the connection it last     *)
(* obtained.  Every Subscribe starts one more goroutine that consumes the  *)
(* outbox, for ever.                                                       *)
(*                                                                         *)
(* Connect and Reconnect access the map under connectionMutex, Send looks  *)
(* it up without.  To access a Go map while it is written is a data race:  *)
(* the runtime may notice and end the process, or the look-up may miss.    *)
(***************************************************************************)
EXTENDS Naturals, Sequences, FiniteSets

CONSTANTS
    Callers,            \* goroutines
    Nobody,             \* no caller, no connection
    System,             \* who an error message is from
    Capacity,           \* of an outbox: 10 in newOutBox
    MaxConnections,     \* bound: ids given out
    MaxSends,           \* bound: calls of Send
    MaxSubscribes       \* bound: calls of Subscribe for one outbox

ASSUME ExchangeAssumption ==
    /\ Nobody \notin Callers /\ Nobody \notin Nat /\ System \notin Nat
    /\ Capacity \in Nat \ {0}
    /\ MaxConnections \in Nat /\ MaxSends \in Nat /\ MaxSubscribes \in Nat

Ids == 0..(MaxConnections - 1)
\* A message: who it says it is from, and the Send it comes from.
Messages == [from: Ids \cup {System}, send: 1..MaxSends]
NoMessage == [from |-> System, send |-> 0]
Consumers == [pc: {"waiting", "holding", "calling", "stalled"},
              message: Messages \cup {NoMessage},
              subscriber: 0..MaxSubscribes]
Idle == [pc |-> "waiting", message |-> NoMessage, subscriber |-> 0]

VARIABLES
    current,    \* simpleIdGenerator.current (cmd/server/main.go)
    connected,  \* the ids in outboxMap
    outbox,     \* the channel of each id
    consumer,   \* the consumers of each id, in the order they were started;
                \* the subscriber is the one of the last of them
    lock,       \* the caller that holds connectionMutex for writing
    readers,    \* the callers that hold it for reading
    pc,         \* what each caller is doing
    connection, \* the id of its connection, or Nobody
    job,        \* its pending call: the outbox it is about, and the message
    sends,      \* calls of Send so far
    written,    \* history: messages written to each outbox
    delivered,  \* history: messages each outbox's subscribers were called with
    crashed     \* the runtime detected a data race

mapVars == <<current, connected, lock, readers>>
vars == <<mapVars, outbox, consumer, pc, connection, job, sends, written, delivered, crashed>>

Jobs == [id: Ids \cup {Nobody}, message: Messages \cup {NoMessage}]
NoJob == [id |-> Nobody, message |-> NoMessage]

TypeOK ==
    /\ current \in 0..MaxConnections
    /\ connected \subseteq Ids
    /\ outbox \in [Ids -> Seq(Messages)]
    /\ \A id \in Ids : Len(outbox[id]) <= Capacity
    /\ consumer \in [Ids -> Seq(Consumers)]
    /\ \A id \in Ids : Len(consumer[id]) <= MaxSubscribes
    /\ lock \in Callers \cup {Nobody} /\ readers \subseteq Callers
    /\ pc \in [Callers -> {"idle", "numbering", "inserting", "rejoining", "looking", "writing"}]
    /\ connection \in [Callers -> Ids \cup {Nobody}]
    /\ job \in [Callers -> Jobs]
    /\ sends \in 0..MaxSends
    /\ written \in [Ids -> Seq(Messages)]
    /\ delivered \in [Ids -> Seq(Messages)]
    /\ crashed \in BOOLEAN

Init ==
    /\ current = 0 /\ connected = {}
    /\ outbox = [id \in Ids |-> <<>>]
    /\ consumer = [id \in Ids |-> <<>>]
    /\ lock = Nobody /\ readers = {}
    /\ pc = [t \in Callers |-> "idle"]
    /\ connection = [t \in Callers |-> Nobody]
    /\ job = [t \in Callers |-> NoJob]
    /\ sends = 0
    /\ written = [id \in Ids |-> <<>>]
    /\ delivered = [id \in Ids |-> <<>>]
    /\ crashed = FALSE

-----------------------------------------------------------------------------
Goes(t, from, to) ==
    /\ ~crashed
    /\ pc[t] = from
    /\ pc' = [pc EXCEPT ![t] = to]

boxVars == <<outbox, consumer, written, delivered>>

\* Mutant: Connect without writeSynchronized.
ConnectUnlocked(t) ==
    /\ Goes(t, "idle", "numbering")
    /\ current < MaxConnections
    /\ job' = [job EXCEPT ![t].id = current]
    /\ UNCHANGED <<current, connected, lock, readers, boxVars, connection, sends, crashed>>

\* Connect takes the lock, and NextId reads current.
LockToConnect(t) ==
    /\ Goes(t, "idle", "numbering")
    /\ current < MaxConnections
    /\ lock = Nobody /\ readers = {}
    /\ lock' = t
    /\ job' = [job EXCEPT ![t].id = current]
    /\ UNCHANGED <<current, connected, readers, boxVars, connection, sends, crashed>>

\* NextId increments current; there is a new outbox, and the assignment to
\* outboxMap begins.
NextId(t) ==
    /\ Goes(t, "numbering", "inserting")
    /\ current' = job[t].id + 1
    /\ outbox' = [outbox EXCEPT ![job[t].id] = <<>>]
    /\ UNCHANGED <<connected, lock, readers, consumer, written, delivered, connection,
                   job, sends, crashed>>

\* Mutant: the lock is not released.
InsertLocked(t) ==
    /\ Goes(t, "inserting", "idle")
    /\ connected' = connected \cup {job[t].id}
    /\ connection' = [connection EXCEPT ![t] = job[t].id]
    /\ job' = [job EXCEPT ![t] = NoJob]
    /\ UNCHANGED <<current, lock, readers, boxVars, sends, crashed>>

\* The assignment is done and the lock released.
Insert(t) ==
    /\ Goes(t, "inserting", "idle")
    /\ connected' = connected \cup {job[t].id}
    /\ connection' = [connection EXCEPT ![t] = job[t].id]
    /\ lock' = Nobody
    /\ job' = [job EXCEPT ![t] = NoJob]
    /\ UNCHANGED <<current, readers, boxVars, sends, crashed>>

\* Mutant: Reconnect without readSynchronized.
ReconnectUnlocked(t, id) ==
    /\ Goes(t, "idle", "rejoining")
    /\ job' = [job EXCEPT ![t].id = id]
    /\ UNCHANGED <<current, connected, lock, readers, boxVars, connection, sends, crashed>>

LockToReconnect(t, id) ==
    /\ Goes(t, "idle", "rejoining")
    /\ lock = Nobody
    /\ readers' = readers \cup {t}
    /\ job' = [job EXCEPT ![t].id = id]
    /\ UNCHANGED <<current, connected, lock, boxVars, connection, sends, crashed>>

\* An unknown id is answered with an error, and no connection.
Reconnect(t) ==
    /\ Goes(t, "rejoining", "idle")
    /\ connection' = [connection EXCEPT ![t] =
                        IF job[t].id \in connected THEN job[t].id ELSE Nobody]
    /\ readers' = readers \ {t}
    /\ job' = [job EXCEPT ![t] = NoJob]
    /\ UNCHANGED <<current, connected, lock, boxVars, sends, crashed>>

-----------------------------------------------------------------------------
LookUp(t, to) ==
    /\ connection[t] # Nobody
    /\ sends < MaxSends
    /\ Goes(t, "idle", "looking")
    /\ sends' = sends + 1
    /\ job' = [job EXCEPT ![t] =
                 [id |-> to, message |-> [from |-> connection[t], send |-> sends + 1]]]
    /\ UNCHANGED <<mapVars, boxVars, connection, crashed>>

MayFind(id) == id \in connected \/ \E u \in Callers : pc[u] = "inserting" /\ job[u].id = id
MayMiss(id) == id \notin connected \/ \E u \in Callers : pc[u] = "inserting"

BySystem(t) == [job[t].message EXCEPT !.from = System]
WillWrite(t, id, message) ==
    /\ Goes(t, "looking", "writing")
    /\ job' = [job EXCEPT ![t] = [id |-> id, message |-> message]]
    /\ UNCHANGED <<mapVars, boxVars, connection, sends, crashed>>

SendToOther(t) ==
    /\ job[t].id # connection[t] /\ MayFind(job[t].id)
    /\ WillWrite(t, job[t].id, job[t].message)

SendToSelf(t) ==
    /\ job[t].id = connection[t] /\ MayFind(job[t].id)
    /\ WillWrite(t, connection[t], BySystem(t))

NoDestination(t) ==
    /\ MayMiss(job[t].id) /\ MayFind(connection[t])
    /\ WillWrite(t, connection[t], BySystem(t))

\* Neither end was found: nothing is sent to anyone.
NoSender(t) ==
    /\ MayMiss(job[t].id) /\ MayMiss(connection[t])
    /\ Goes(t, "looking", "idle")
    /\ job' = [job EXCEPT ![t] = NoJob]
    /\ UNCHANGED <<mapVars, boxVars, connection, sends, crashed>>

\* Mutant: an unbounded queue for the channel.
WriteUnbounded(t) ==
    /\ Goes(t, "writing", "idle")
    /\ outbox' = [outbox EXCEPT ![job[t].id] = Append(@, job[t].message)]
    /\ written' = [written EXCEPT ![job[t].id] = Append(@, job[t].message)]
    /\ job' = [job EXCEPT ![t] = NoJob]
    /\ UNCHANGED <<mapVars, consumer, connection, sends, delivered, crashed>>

\* The channel accepts a message only when it is not full.
Write(t) ==
    /\ Goes(t, "writing", "idle")
    /\ LET id == job[t].id IN
          /\ Len(outbox[id]) < Capacity
          /\ outbox' = [outbox EXCEPT ![id] = Append(@, job[t].message)]
          /\ written' = [written EXCEPT ![id] = Append(@, job[t].message)]
    /\ job' = [job EXCEPT ![t] = NoJob]
    /\ UNCHANGED <<mapVars, consumer, connection, sends, delivered, crashed>>

-----------------------------------------------------------------------------
\* The consumers that are inside a call, and hold subscriberMutex.
Calling(id) == {k \in 1..Len(consumer[id]) : consumer[id][k].pc \in {"calling", "stalled"}}
Stalled(id) == \E k \in 1..Len(consumer[id]) : consumer[id][k].pc = "stalled"

\* Mutant: the subscriber is set without subscriberMutex.
SubscribeUnlocked(t) ==
    /\ pc[t] = "idle" /\ connection[t] # Nobody /\ ~crashed
    /\ Len(consumer[connection[t]]) < MaxSubscribes
    /\ consumer' = [consumer EXCEPT ![connection[t]] = Append(@, Idle)]
    /\ UNCHANGED <<mapVars, outbox, pc, connection, job, sends, written, delivered, crashed>>

\* Subscribe sets the subscriber under subscriberMutex, which a consumer holds
\* while it calls it, and starts a consumer.
Subscribe(t) ==
    /\ pc[t] = "idle" /\ connection[t] # Nobody /\ ~crashed
    /\ LET id == connection[t] IN
          /\ Len(consumer[id]) < MaxSubscribes
          /\ Calling(id) = {}
          /\ consumer' = [consumer EXCEPT ![id] = Append(@, Idle)]
    /\ UNCHANGED <<mapVars, outbox, pc, connection, job, sends, written, delivered, crashed>>

\* Mutant: the message stays in the channel.
TakeLeaves(id, k) ==
    /\ ~crashed
    /\ consumer[id][k].pc = "waiting"
    /\ outbox[id] # <<>>
    /\ consumer' = [consumer EXCEPT ![id][k].pc = "holding",
                                    ![id][k].message = Head(outbox[id])]
    /\ UNCHANGED <<mapVars, outbox, pc, connection, job, sends, written, delivered, crashed>>

\* Mutant: the newest message first.
TakeNewest(id, k) ==
    /\ ~crashed
    /\ consumer[id][k].pc = "waiting"
    /\ outbox[id] # <<>>
    /\ consumer' = [consumer EXCEPT ![id][k].pc = "holding",
                                    ![id][k].message = outbox[id][Len(outbox[id])]]
    /\ outbox' = [outbox EXCEPT ![id] = SubSeq(@, 1, Len(@) - 1)]
    /\ UNCHANGED <<mapVars, pc, connection, job, sends, written, delivered, crashed>>

\* Mutant: the first Subscribe starts no goroutine.
TakeLaterOnly(id, k) ==
    /\ ~crashed
    /\ k > 1
    /\ consumer[id][k].pc = "waiting"
    /\ outbox[id] # <<>>
    /\ consumer' = [consumer EXCEPT ![id][k].pc = "holding",
                                    ![id][k].message = Head(outbox[id])]
    /\ outbox' = [outbox EXCEPT ![id] = Tail(@)]
    /\ UNCHANGED <<mapVars, pc, connection, job, sends, written, delivered, crashed>>

\* message := <-outbox.data
Take(id, k) ==
    /\ ~crashed
    /\ consumer[id][k].pc = "waiting"
    /\ outbox[id] # <<>>
    /\ consumer' = [consumer EXCEPT ![id][k].pc = "holding",
                                    ![id][k].message = Head(outbox[id])]
    /\ outbox' = [outbox EXCEPT ![id] = Tail(@)]
    /\ UNCHANGED <<mapVars, pc, connection, job, sends, written, delivered, crashed>>

\* The mutex is taken and the subscriber called.
Call(id, k) ==
    /\ ~crashed
    /\ consumer[id][k].pc = "holding"
    /\ Calling(id) = {}
    /\ consumer' = [consumer EXCEPT ![id][k].pc = "calling",
                                    ![id][k].subscriber = Len(consumer[id])]
    /\ delivered' = [delivered EXCEPT ![id] = Append(@, consumer[id][k].message)]
    /\ UNCHANGED <<mapVars, outbox, pc, connection, job, sends, written, crashed>>

\* Mutant: the consumer ends when its subscriber cannot write.
ReturnEnds(id, k) ==
    /\ ~crashed
    /\ consumer[id][k].pc = "calling"
    /\ \/ consumer' = [consumer EXCEPT ![id][k] = Idle]
       \/ consumer' = [consumer EXCEPT ![id][k].pc = "ended"]
    /\ UNCHANGED <<mapVars, outbox, pc, connection, job, sends, written, delivered, crashed>>

\* Also when the member is gone: connect's callback ignores the error of a
\* write, and the consumer goes on.
Return(id, k) ==
    /\ ~crashed
    /\ consumer[id][k].pc = "calling"
    /\ consumer' = [consumer EXCEPT ![id][k] = Idle]
    /\ UNCHANGED <<mapVars, outbox, pc, connection, job, sends, written, delivered, crashed>>

\* The member is there and has stopped reading: a write has no deadline, so
\* that the call never returns.
Stall(id, k) ==
    /\ ~crashed
    /\ consumer[id][k].pc = "calling"
    /\ consumer' = [consumer EXCEPT ![id][k].pc = "stalled"]
    /\ UNCHANGED <<mapVars, outbox, pc, connection, job, sends, written, delivered, crashed>>

-----------------------------------------------------------------------------
Accessing(t) == pc[t] \in {"inserting", "looking", "rejoining"}

\* "concurrent map read and map write", "concurrent map writes"
DetectRace ==
    /\ ~crashed
    /\ \E t, u \in Callers : t # u /\ pc[t] = "inserting" /\ Accessing(u)
    /\ crashed' = TRUE
    /\ UNCHANGED <<mapVars, boxVars, pc, connection, job, sends>>

\* What a caller does once it has begun a call.
Proceed(t) ==
    \/ NextId(t) \/ Insert(t) \/ Reconnect(t)
    \/ SendToOther(t) \/ SendToSelf(t) \/ NoDestination(t) \/ NoSender(t) \/ Write(t)

Consume(id) ==
    \E k \in 1..Len(consumer[id]) : Take(id, k) \/ Call(id, k) \/ Return(id, k)

Next ==
    \/ \E t \in Callers :
          \/ LockToConnect(t) \/ Subscribe(t) \/ Proceed(t)
          \/ \E id \in Ids : LockToReconnect(t, id) \/ LookUp(t, id)
    \/ \E id \in Ids : Consume(id) \/ \E k \in 1..Len(consumer[id]) : Stall(id, k)
    \/ DetectRace

\* No caller is obliged to call; calls, and subscribers that do not stall, return.
Fairness ==
    /\ \A t \in Callers : WF_vars(Proceed(t))
    /\ \A id \in Ids : WF_vars(Consume(id))

Spec == Init /\ [][Next]_vars /\ Fairness

-----------------------------------------------------------------------------
(***************************************************************************)
(* Whatever the callers do at the same time, no two outboxes get the same  *)
(* id: simpleIdGenerator has no lock of its own, and relies on being       *)
(* called inside writeSynchronized.                                        *)
(***************************************************************************)
IdsAreUnique ==
    \A t, u \in Callers :
        pc[t] \in {"numbering", "inserting"} =>
            /\ job[t].id \notin connected
            /\ pc[u] \in {"numbering", "inserting"} /\ t # u => job[u].id # job[t].id

(***************************************************************************)
(* connectionMutex leaves one race on outboxMap: when one caller writes    *)
(* it, any other caller inside the map is in Send (impl.go:24-25), never   *)
(* in Connect or Reconnect.                                                *)
(***************************************************************************)
OnlySendRaces ==
    \A t, u \in Callers :
        t # u /\ pc[t] = "inserting" /\ Accessing(u) => pc[u] = "looking"

(***************************************************************************)
(* "The first subscriber should not receive any additional messages"       *)
(* (impl_test.go): each call is made to the subscriber set last, and until *)
(* it returns no consumer of that outbox makes another one.                *)
(***************************************************************************)
CallsAreExclusive ==
    \A id \in Ids :
        /\ \A k, l \in Calling(id) : k = l
        /\ \A k \in Calling(id) : consumer[id][k].subscriber = Len(consumer[id])

Holding(id) == {k \in 1..Len(consumer[id]) : consumer[id][k].pc = "holding"}
InHands(id) == {consumer[id][k].message : k \in Holding(id)}
In(queue) == {queue[i] : i \in DOMAIN queue}

(***************************************************************************)
(* However many consumers an outbox has, each message written to it is in  *)
(* one place: still in the channel, taken by one consumer, or delivered.   *)
(***************************************************************************)
EachMessageOnce ==
    \A id \in Ids :
        /\ In(written[id]) = In(outbox[id]) \cup InHands(id) \cup In(delivered[id])
        /\ Len(written[id]) = Len(outbox[id]) + Cardinality(InHands(id)) + Len(delivered[id])

(***************************************************************************)
(* With one Subscribe per connection, as the program makes it, the         *)
(* exchange is a set of mailboxes read in order.                           *)
(***************************************************************************)
Held(id) ==
    IF consumer[id] # <<>> /\ consumer[id][1].pc = "holding"
      THEN <<consumer[id][1].message>>
      ELSE <<>>

M == INSTANCE Mailboxes WITH
        mailbox <- [id \in Ids |-> Held(id) \o outbox[id]],
        subscribed <- {id \in Ids : consumer[id] # <<>>},
        stalled <- {id \in Ids : Stalled(id)},
        up <- ~crashed

\* The safety half, and the whole with delivery of every message.
ImplementsMailboxes == M!MailboxSafety
DeliversAsMailboxes == M!MailboxSpec

(***************************************************************************)
(* A full outbox holds a sender up only until it is consumed: a Send to a  *)
(* mailbox with a subscriber returns, also after its member has gone,      *)
(* unless the member is there and reads nothing any more.                  *)
(***************************************************************************)
SendReturns ==
    \A t \in Callers :
        (pc[t] = "writing" /\ consumer[job[t].id] # <<>>) ~>
            (pc[t] = "idle" \/ crashed \/ Stalled(job[t].id))

(***************************************************************************)
(* The exchange stops only at an outbox that is full and that nobody       *)
(* consumes: as long as the process runs, some call or consumer can go on, *)
(* or connectionMutex is free and every caller either is idle or writes to *)
(* an outbox without a subscriber, or with one that stalled (impl.go:72).  *)
(***************************************************************************)
CanProceed(t) ==
    \/ pc[t] \in {"numbering", "inserting", "rejoining", "looking"}
    \/ pc[t] = "writing" /\ Len(outbox[job[t].id]) < Capacity

CanConsume(id) ==
    \E k \in 1..Len(consumer[id]) :
        \/ consumer[id][k].pc = "waiting" /\ outbox[id] # <<>>
        \/ consumer[id][k].pc = "holding" /\ Calling(id) = {}
        \/ consumer[id][k].pc = "calling"

OnlyUnreadBlocks ==
    ~crashed /\ (\A t \in Callers : ~CanProceed(t)) /\ (\A id \in Ids : ~CanConsume(id)) =>
        /\ lock = Nobody /\ readers = {}
        /\ \A t \in Callers :
              pc[t] # "idle" =>
                  /\ pc[t] = "writing"
                  /\ consumer[job[t].id] = <<>> \/ Stalled(job[t].id)

(***************************************************************************)
(* "expected message to subscriber two" (impl_test.go:201): messages reach *)
(* the subscribers in the order in which they were written, also after a   *)
(* second Subscribe.                                                       *)
(***************************************************************************)
DeliveredInOrder ==
    \A id \in Ids :
        delivered[id] = SubSeq(written[id], 1, Len(delivered[id]))
=============================================================================
