--------------------------- MODULE ExchangeProofs ---------------------------
(***************************************************************************)
(* Proofs about Exchange, for any number of callers, connections and       *)
(* messages and any capacity: MapInv is inductive; ids are unique, the     *)
(* lock covers every access to the map but Send's, and subscribers are     *)
(* called one at a time.  With at most one Subscribe per connection the    *)
(* exchange implements Mailboxes, and delivers in order; with any number   *)
(* of them no message is lost or doubled, which takes PlaceInv, and only   *)
(* an outbox that nobody consumes any more stops anyone.                   *)
(***************************************************************************)
EXTENDS Exchange, SequenceTheorems, FiniteSetTheorems, TLAPS

-----------------------------------------------------------------------------
(***************************************************************************)
(* The inductive invariant of the map: who is inside it holds the          *)
(* lock (Send excepted), ids are given out in turn, and every pending call *)
(* and every connection is about an id that has been given out.            *)
(***************************************************************************)
LockHeld ==
    /\ \A t \in Callers : pc[t] \in {"numbering", "inserting"} => lock = t
    /\ \A t \in Callers : pc[t] = "rejoining" => t \in readers
    /\ lock # Nobody => readers = {}

IdsInTurn ==
    /\ \A id \in connected : id < current
    /\ \A t \in Callers :
          /\ pc[t] = "numbering" => job[t].id = current /\ current \in Ids
          /\ pc[t] = "inserting" => job[t].id \notin connected /\ current = job[t].id + 1
          /\ pc[t] = "writing" => job[t].id < current
          /\ connection[t] # Nobody => connection[t] < current
    /\ \A id \in Ids : id >= current => outbox[id] = <<>>

CallsPending ==
    /\ \A t \in Callers :
          /\ pc[t] # "idle" => job[t].id \in Ids
          /\ pc[t] \in {"looking", "writing"} => job[t].message \in Messages
          /\ pc[t] = "looking" => connection[t] # Nobody
    /\ \A id \in Ids : \A k \in 1..Len(consumer[id]) :
          consumer[id][k].pc # "waiting" => consumer[id][k].message \in Messages

MapInv == TypeOK /\ LockHeld /\ IdsInTurn /\ CallsPending

(***************************************************************************)
(* And the one behind EachMessageOnce: no two Sends write one message, so  *)
(* that what is in the channel, or in one consumer's hands, is not also in *)
(* another's.                                                              *)
(***************************************************************************)
Sending(t) == pc[t] \in {"looking", "writing"}

SendsDiffer ==
    /\ \A t \in Callers : Sending(t) => job[t].message.send <= sends
    /\ \A t, u \in Callers :
          Sending(t) /\ Sending(u) /\ t # u => job[t].message.send # job[u].message.send
    /\ \A id \in Ids : \A m \in In(written[id]) :
          m.send <= sends /\ \A t \in Callers : Sending(t) => m.send # job[t].message.send

OnePlace ==
    \A id \in Ids :
        /\ \A i, j \in DOMAIN outbox[id] : i # j => outbox[id][i] # outbox[id][j]
        /\ \A k, l \in Holding(id) : k # l => consumer[id][k].message # consumer[id][l].message
        /\ In(outbox[id]) \cap InHands(id) = {}
        /\ IsFiniteSet(InHands(id))

PlaceInv == MapInv /\ SendsDiffer /\ OnePlace /\ EachMessageOnce

-----------------------------------------------------------------------------
(* What the assignments of the actions make of the tables. *)

\* Replacing one consumer of one outbox.
LEMMA SetConsumer ==
  ASSUME consumer \in [Ids -> Seq(Consumers)],
         NEW id \in Ids, NEW k \in 1..Len(consumer[id]), NEW c \in Consumers,
         consumer' = [consumer EXCEPT ![id][k] = c]
  PROVE  /\ consumer' \in [Ids -> Seq(Consumers)]
         /\ \A i \in Ids : Len(consumer'[i]) = Len(consumer[i])
         /\ \A i \in Ids : \A l \in 1..Len(consumer[i]) :
               consumer'[i][l] = IF i = id /\ l = k THEN c ELSE consumer[i][l]
<1>1. consumer[id] \in Seq(Consumers)
  OBVIOUS
<1>2. [consumer[id] EXCEPT ![k] = c] \in Seq(Consumers)
  BY <1>1
<1>3. consumer' = [consumer EXCEPT ![id] = [consumer[id] EXCEPT ![k] = c]]
  OBVIOUS
<1>4. Len([consumer[id] EXCEPT ![k] = c]) = Len(consumer[id])
  BY <1>1
<1> QED
  BY <1>2, <1>3, <1>4

\* Adding a consumer to an outbox.
LEMMA AddConsumer ==
  ASSUME consumer \in [Ids -> Seq(Consumers)], NEW id \in Ids, NEW c \in Consumers,
         consumer' = [consumer EXCEPT ![id] = Append(@, c)]
  PROVE  /\ consumer' \in [Ids -> Seq(Consumers)]
         /\ \A i \in Ids \ {id} : consumer'[i] = consumer[i]
         /\ Len(consumer'[id]) = Len(consumer[id]) + 1
         /\ \A l \in 1..Len(consumer[id]) : consumer'[id][l] = consumer[id][l]
         /\ consumer'[id][Len(consumer[id]) + 1] = c
  OBVIOUS

\* Naming the outbox a caller's pending call is about.
LEMMA SetJob ==
  ASSUME job \in [Callers -> Jobs], NEW t \in Callers, NEW id \in Ids \cup {Nobody},
         job' = [job EXCEPT ![t].id = id]
  PROVE  job' = [job EXCEPT ![t] = [id |-> id, message |-> job[t].message]]
         /\ job' \in [Callers -> Jobs]
<1>1. job[t] \in [id: Ids \cup {Nobody}, message: Messages \cup {NoMessage}]
  BY DEF Jobs
<1>2. [job[t] EXCEPT !.id = id] = [id |-> id, message |-> job[t].message]
  BY <1>1
<1>3. job' = [job EXCEPT ![t] = [job[t] EXCEPT !.id = id]]
  OBVIOUS
<1>4. [id |-> id, message |-> job[t].message] \in Jobs
  BY <1>1 DEF Jobs
<1> QED
  BY <1>2, <1>3, <1>4

\* Adding a message to an outbox.
LEMMA SetBox ==
  ASSUME outbox \in [Ids -> Seq(Messages)], NEW id \in Ids, NEW m \in Messages,
         outbox' = [outbox EXCEPT ![id] = Append(@, m)]
  PROVE  /\ outbox' \in [Ids -> Seq(Messages)]
         /\ Len(outbox'[id]) = Len(outbox[id]) + 1
         /\ \A i \in Ids \ {id} : outbox'[i] = outbox[i]
  OBVIOUS

\* A consumer that takes a message.
LEMMA EditConsumer ==
  ASSUME NEW r \in Consumers, NEW p, NEW x
  PROVE  [r EXCEPT !.pc = p, !.message = x] = [pc |-> p, message |-> x, subscriber |-> r.subscriber]
<1> DEFINE q == [pc |-> p, message |-> r.message, subscriber |-> r.subscriber]
<1>1. [r EXCEPT !.pc = p] = q
  BY DEF Consumers
<1>2. [q EXCEPT !.message = x] = [pc |-> p, message |-> x, subscriber |-> r.subscriber]
  OBVIOUS
<1> QED
  BY <1>1, <1>2

\* A consumer that calls a subscriber.
LEMMA CallConsumer ==
  ASSUME NEW r \in Consumers, NEW p, NEW x
  PROVE  [r EXCEPT !.pc = p, !.subscriber = x] = [pc |-> p, message |-> r.message, subscriber |-> x]
<1> DEFINE q == [pc |-> p, message |-> r.message, subscriber |-> r.subscriber]
<1>1. [r EXCEPT !.pc = p] = q
  BY DEF Consumers
<1>2. [q EXCEPT !.subscriber = x] = [pc |-> p, message |-> r.message, subscriber |-> x]
  OBVIOUS
<1> QED
  BY <1>1, <1>2

\* The error message that stands for a message.
LEMMA BySystemMessage ==
  ASSUME NEW t \in Callers, job[t].message \in Messages
  PROVE  BySystem(t) \in Messages
  BY DEF BySystem, Messages

-----------------------------------------------------------------------------
(* Each step preserves MapInv. *)

\* Connect: the lock, and the counter's value.
LEMMA LockToConnectKeeps ==
  ASSUME MapInv, NEW t \in Callers, LockToConnect(t)
  PROVE  MapInv'
<1>1. TypeOK'
  <2>1. current \in Ids
    BY ExchangeAssumption DEF MapInv, TypeOK, LockToConnect, Ids
  <2>2. job' \in [Callers -> Jobs]
    BY <2>1, SetJob DEF MapInv, TypeOK, LockToConnect
  <2> QED
    BY <2>2 DEF MapInv, TypeOK, LockToConnect, Goes, boxVars
<1>2. LockHeld'
  BY ExchangeAssumption DEF MapInv, TypeOK, LockHeld, LockToConnect, Goes, mapVars
<1>3. IdsInTurn'
  BY ExchangeAssumption DEF MapInv, TypeOK, LockHeld, IdsInTurn, CallsPending, LockToConnect, Goes, NoJob, mapVars, boxVars, Ids
<1>4. CallsPending'
  BY ExchangeAssumption DEF MapInv, TypeOK, CallsPending, IdsInTurn, LockToConnect, Goes, Jobs, NoJob, Messages, mapVars, boxVars, Ids
<1> QED
  BY <1>1, <1>2, <1>3, <1>4 DEF MapInv

\* Connect: the counter moves on.  The new outbox was empty already.
LEMMA NextIdKeeps ==
  ASSUME MapInv, NEW t \in Callers, NextId(t)
  PROVE  MapInv'
<1>1. job[t].id = current /\ current \in Ids /\ current' = current + 1
  BY DEF MapInv, IdsInTurn, NextId, Goes
<1>2. current \in Nat /\ connected \subseteq Nat /\ Ids \subseteq Nat
  BY ExchangeAssumption DEF MapInv, TypeOK, Ids
<1>3. TypeOK'
  <2>1. current' \in 0..MaxConnections
    BY <1>1, ExchangeAssumption DEF NextId, Ids
  <2>2. outbox' \in [Ids -> Seq(Messages)] /\ \A id \in Ids : Len(outbox'[id]) <= Capacity
    BY <1>1, ExchangeAssumption DEF MapInv, TypeOK, NextId
  <2> QED
    BY <2>1, <2>2 DEF MapInv, TypeOK, NextId, Goes
<1>4. LockHeld'
  BY ExchangeAssumption DEF MapInv, TypeOK, LockHeld, NextId, Goes, mapVars
<1>5. IdsInTurn'
  <2>1. \A id \in connected : id < current'
    BY <1>1, <1>2 DEF MapInv, IdsInTurn
  <2>2. \A u \in Callers \ {t} : pc[u] \notin {"numbering", "inserting"}
    BY DEF MapInv, LockHeld, NextId, Goes
  <2>3. ASSUME NEW u \in Callers
        PROVE  /\ pc'[u] = "numbering" => job'[u].id = current' /\ current' \in Ids
               /\ pc'[u] = "inserting" => job'[u].id \notin connected' /\ current' = job'[u].id + 1
               /\ pc'[u] = "writing" => job'[u].id < current'
               /\ connection'[u] # Nobody => connection'[u] < current'
    <3>1. connection[u] # Nobody => connection[u] \in Nat /\ connection[u] < current
      BY <1>2 DEF MapInv, TypeOK, IdsInTurn
    <3>2. CASE u = t
      <4>1. /\ pc'[t] = "inserting"
            /\ UNCHANGED <<connection, job, connected>>
        BY DEF MapInv, TypeOK, NextId, Goes
      <4>2. job[t].id \notin connected
        BY <1>1, <1>2 DEF MapInv, IdsInTurn
      <4> QED
        BY <1>1, <1>2, <3>1, <3>2, <4>1, <4>2
    <3>3. CASE u # t
      <4>1. pc'[u] = "writing" => job[u].id \in Nat /\ job[u].id < current
        BY <1>2, <3>3 DEF MapInv, TypeOK, IdsInTurn, CallsPending, NextId, Goes
      <4> QED
        BY <1>1, <1>2, <2>2, <3>1, <3>3, <4>1 DEF MapInv, TypeOK, NextId, Goes
    <3> QED
      BY <3>2, <3>3
  <2>4. \A id \in Ids : id >= current' => outbox'[id] = <<>>
    BY <1>1, <1>2 DEF MapInv, TypeOK, IdsInTurn, NextId
  <2> QED
    BY <2>1, <2>3, <2>4 DEF IdsInTurn, NextId
<1>6. CallsPending'
  BY ExchangeAssumption DEF MapInv, TypeOK, CallsPending, IdsInTurn, NextId, Goes, Jobs, NoJob, Messages, mapVars, boxVars, Ids
<1> QED
  BY <1>3, <1>4, <1>5, <1>6 DEF MapInv

\* Connect: the entry is made, and the lock released.
LEMMA InsertKeeps ==
  ASSUME MapInv, NEW t \in Callers, Insert(t)
  PROVE  MapInv'
<1>1. TypeOK'
  BY ExchangeAssumption DEF MapInv, TypeOK, IdsInTurn, CallsPending, Insert, Goes, Jobs, NoJob, Messages, NoMessage, mapVars, boxVars, Ids
<1>2. LockHeld'
  BY ExchangeAssumption DEF MapInv, TypeOK, LockHeld, Insert, Goes, mapVars
<1>3. IdsInTurn'
  <2>1. /\ job[t].id \in Ids /\ job[t].id < current /\ current \in Nat
        /\ \A u \in Callers \ {t} : pc[u] \notin {"numbering", "inserting"}
    BY ExchangeAssumption
       DEF MapInv, TypeOK, LockHeld, IdsInTurn, CallsPending, Insert, Goes, Ids
  <2>2. /\ connected' = connected \cup {job[t].id}
        /\ pc'[t] = "idle" /\ connection'[t] = job[t].id
        /\ \A u \in Callers \ {t} : /\ pc'[u] = pc[u] /\ job'[u] = job[u]
                                   /\ connection'[u] = connection[u]
        /\ current' = current /\ outbox' = outbox
    BY DEF MapInv, TypeOK, Insert, Goes, boxVars
  <2>3. \A id \in connected' : id < current'
    BY <2>1, <2>2 DEF MapInv, IdsInTurn
  <2>4. ASSUME NEW u \in Callers
        PROVE  /\ pc'[u] \notin {"numbering", "inserting"}
               /\ pc'[u] = "writing" => job'[u].id < current'
               /\ connection'[u] # Nobody => connection'[u] < current'
    <3>1. CASE u = t
      BY <2>1, <2>2, <3>1
    <3>2. CASE u # t
      BY <2>1, <2>2, <3>2 DEF MapInv, IdsInTurn
    <3> QED
      BY <3>1, <3>2
  <2>5. \A id \in Ids : id >= current' => outbox'[id] = <<>>
    BY <2>2 DEF MapInv, IdsInTurn
  <2> QED
    BY <2>3, <2>4, <2>5 DEF IdsInTurn
<1>4. CallsPending'
  BY ExchangeAssumption DEF MapInv, TypeOK, CallsPending, IdsInTurn, Insert, Goes, Jobs, NoJob, Messages, mapVars, boxVars, Ids
<1> QED
  BY <1>1, <1>2, <1>3, <1>4 DEF MapInv

\* Reconnect: the read lock.
LEMMA LockToReconnectKeeps ==
  ASSUME MapInv, NEW t \in Callers, NEW id \in Ids, LockToReconnect(t, id)
  PROVE  MapInv'
<1>1. TypeOK'
  <2>1. job' \in [Callers -> Jobs]
    BY SetJob DEF MapInv, TypeOK, LockToReconnect
  <2> QED
    BY <2>1 DEF MapInv, TypeOK, LockToReconnect, Goes, boxVars
<1>2. LockHeld'
  BY ExchangeAssumption DEF MapInv, TypeOK, LockHeld, LockToReconnect, Goes, mapVars
<1>3. IdsInTurn'
  BY ExchangeAssumption DEF MapInv, TypeOK, LockHeld, IdsInTurn, CallsPending, LockToReconnect, Goes, NoJob, mapVars, boxVars, Ids
<1>4. CallsPending'
  BY ExchangeAssumption DEF MapInv, TypeOK, CallsPending, IdsInTurn, LockToReconnect, Goes, Jobs, NoJob, Messages, mapVars, boxVars, Ids
<1> QED
  BY <1>1, <1>2, <1>3, <1>4 DEF MapInv

\* Reconnect: the look-up, and the lock released.
LEMMA ReconnectKeeps ==
  ASSUME MapInv, NEW t \in Callers, Reconnect(t)
  PROVE  MapInv'
<1>1. TypeOK'
  BY ExchangeAssumption DEF MapInv, TypeOK, IdsInTurn, CallsPending, Reconnect, Goes, Jobs, NoJob, Messages, NoMessage, mapVars, boxVars, Ids
<1>2. LockHeld'
  BY ExchangeAssumption DEF MapInv, TypeOK, LockHeld, Reconnect, Goes, mapVars
<1>3. IdsInTurn'
  BY ExchangeAssumption DEF MapInv, TypeOK, LockHeld, IdsInTurn, CallsPending, Reconnect, Goes, NoJob, mapVars, boxVars, Ids
<1>4. CallsPending'
  BY ExchangeAssumption DEF MapInv, TypeOK, CallsPending, IdsInTurn, Reconnect, Goes, Jobs, NoJob, Messages, mapVars, boxVars, Ids
<1> QED
  BY <1>1, <1>2, <1>3, <1>4 DEF MapInv

\* Send begins.
LEMMA LookUpKeeps ==
  ASSUME MapInv, NEW t \in Callers, NEW to \in Ids, LookUp(t, to)
  PROVE  MapInv'
<1>1. sends' \in 1..MaxSends
  BY ExchangeAssumption DEF MapInv, TypeOK, LookUp
<1>2. [from |-> connection[t], send |-> sends + 1] \in Messages
  BY <1>1 DEF MapInv, TypeOK, LookUp, Messages
<1>3. TypeOK'
  <2>1. job' \in [Callers -> Jobs]
    BY <1>2 DEF MapInv, TypeOK, LookUp, Jobs
  <2> QED
    BY <1>1, <2>1 DEF MapInv, TypeOK, LookUp, Goes, mapVars, boxVars
<1>4. LockHeld'
  BY ExchangeAssumption DEF MapInv, TypeOK, LockHeld, LookUp, Goes, mapVars
<1>5. IdsInTurn'
  BY ExchangeAssumption DEF MapInv, TypeOK, LockHeld, IdsInTurn, CallsPending, LookUp, Goes, NoJob, mapVars, boxVars, Ids
<1>6. CallsPending'
  BY <1>2 DEF MapInv, TypeOK, CallsPending, LookUp, Goes, mapVars, boxVars
<1> QED
  BY <1>3, <1>4, <1>5, <1>6 DEF MapInv

\* Send has found its destination.
LEMMA SendToOtherKeeps ==
  ASSUME MapInv, NEW t \in Callers, SendToOther(t)
  PROVE  MapInv'
<1>1. TypeOK'
  BY ExchangeAssumption DEF MapInv, TypeOK, IdsInTurn, CallsPending, SendToOther, WillWrite, BySystem, MayFind, MayMiss, Goes, Jobs, NoJob, Messages, NoMessage, mapVars, boxVars, Ids
<1>2. LockHeld'
  BY ExchangeAssumption DEF MapInv, TypeOK, LockHeld, SendToOther, WillWrite, BySystem, MayFind, MayMiss, Goes, mapVars
<1>3. IdsInTurn'
  <2>1. job[t].id \in Ids
    BY DEF MapInv, CallsPending, SendToOther, WillWrite, Goes
  <2>2. job[t].id < current
    <3>1. CASE job[t].id \in connected
      BY <3>1 DEF MapInv, IdsInTurn
    <3>2. ASSUME NEW u \in Callers, pc[u] = "inserting", job[u].id = job[t].id
          PROVE  job[t].id < current
      BY <2>1, <3>2, ExchangeAssumption DEF MapInv, IdsInTurn, Ids
    <3> QED
      BY <3>1, <3>2 DEF SendToOther, MayFind
  <2> QED
    BY <2>1, <2>2 DEF MapInv, TypeOK, IdsInTurn, SendToOther, WillWrite, Goes, mapVars, boxVars
<1>4. CallsPending'
  BY ExchangeAssumption DEF MapInv, TypeOK, CallsPending, IdsInTurn, SendToOther, WillWrite, BySystem, MayFind, MayMiss, Goes, Jobs, NoJob, Messages, mapVars, boxVars, Ids
<1> QED
  BY <1>1, <1>2, <1>3, <1>4 DEF MapInv

\* Send to oneself: an error to one's own outbox.
LEMMA SendToSelfKeeps ==
  ASSUME MapInv, NEW t \in Callers, SendToSelf(t)
  PROVE  MapInv'
<1>1. BySystem(t) \in Messages
  BY BySystemMessage DEF MapInv, CallsPending, SendToSelf, WillWrite, Goes
<1>2. connection[t] \in Ids
  BY DEF MapInv, TypeOK, CallsPending, SendToSelf, WillWrite, Goes
<1>3. TypeOK'
  BY <1>1, <1>2 DEF MapInv, TypeOK, SendToSelf, WillWrite, Goes, Jobs, mapVars, boxVars
<1>4. LockHeld'
  BY ExchangeAssumption DEF MapInv, TypeOK, LockHeld, SendToSelf, WillWrite, BySystem, MayFind, MayMiss, Goes, mapVars
<1>5. IdsInTurn'
  BY ExchangeAssumption DEF MapInv, TypeOK, LockHeld, IdsInTurn, CallsPending, SendToSelf, WillWrite, BySystem, MayFind, MayMiss, Goes, NoJob, mapVars, boxVars, Ids
<1>6. CallsPending'
  BY <1>1, <1>2 DEF MapInv, TypeOK, CallsPending, SendToSelf, WillWrite, Goes, mapVars, boxVars
<1> QED
  BY <1>3, <1>4, <1>5, <1>6 DEF MapInv

\* Send to nobody: an error to one's own outbox.
LEMMA NoDestinationKeeps ==
  ASSUME MapInv, NEW t \in Callers, NoDestination(t)
  PROVE  MapInv'
<1>1. BySystem(t) \in Messages
  BY BySystemMessage DEF MapInv, CallsPending, NoDestination, WillWrite, Goes
<1>2. connection[t] \in Ids
  BY DEF MapInv, TypeOK, CallsPending, NoDestination, WillWrite, Goes
<1>3. TypeOK'
  BY <1>1, <1>2 DEF MapInv, TypeOK, NoDestination, WillWrite, Goes, Jobs, mapVars, boxVars
<1>4. LockHeld'
  BY ExchangeAssumption DEF MapInv, TypeOK, LockHeld, NoDestination, WillWrite, BySystem, MayFind, MayMiss, Goes, mapVars
<1>5. IdsInTurn'
  BY ExchangeAssumption DEF MapInv, TypeOK, LockHeld, IdsInTurn, CallsPending, NoDestination, WillWrite, BySystem, MayFind, MayMiss, Goes, NoJob, mapVars, boxVars, Ids
<1>6. CallsPending'
  BY <1>1, <1>2 DEF MapInv, TypeOK, CallsPending, NoDestination, WillWrite, Goes, mapVars, boxVars
<1> QED
  BY <1>3, <1>4, <1>5, <1>6 DEF MapInv

\* Neither outbox was found.
LEMMA NoSenderKeeps ==
  ASSUME MapInv, NEW t \in Callers, NoSender(t)
  PROVE  MapInv'
<1>1. TypeOK'
  BY ExchangeAssumption DEF MapInv, TypeOK, IdsInTurn, CallsPending, NoSender, WillWrite, BySystem, MayFind, MayMiss, Goes, Jobs, NoJob, Messages, NoMessage, mapVars, boxVars, Ids
<1>2. LockHeld'
  BY ExchangeAssumption DEF MapInv, TypeOK, LockHeld, NoSender, WillWrite, BySystem, MayFind, MayMiss, Goes, mapVars
<1>3. IdsInTurn'
  BY ExchangeAssumption DEF MapInv, TypeOK, LockHeld, IdsInTurn, CallsPending, NoSender, WillWrite, BySystem, MayFind, MayMiss, Goes, NoJob, mapVars, boxVars, Ids
<1>4. CallsPending'
  BY ExchangeAssumption DEF MapInv, TypeOK, CallsPending, IdsInTurn, NoSender, WillWrite, BySystem, MayFind, MayMiss, Goes, Jobs, NoJob, Messages, mapVars, boxVars, Ids
<1> QED
  BY <1>1, <1>2, <1>3, <1>4 DEF MapInv

\* Send's write to the channel.
LEMMA WriteKeeps ==
  ASSUME MapInv, NEW t \in Callers, Write(t)
  PROVE  MapInv'
<1>1. job[t].id \in Ids /\ job[t].message \in Messages /\ job[t].id < current
  BY DEF MapInv, IdsInTurn, CallsPending, Write, Goes
<1>2. /\ outbox' \in [Ids -> Seq(Messages)]
      /\ Len(outbox'[job[t].id]) = Len(outbox[job[t].id]) + 1
      /\ \A i \in Ids \ {job[t].id} : outbox'[i] = outbox[i]
  BY <1>1, SetBox DEF MapInv, TypeOK, Write
<1>3. TypeOK'
  <2>1. \A i \in Ids : Len(outbox'[i]) <= Capacity
    BY <1>1, <1>2, ExchangeAssumption DEF MapInv, TypeOK, Write
  <2>2. written' \in [Ids -> Seq(Messages)]
    BY <1>1 DEF MapInv, TypeOK, Write
  <2>3. job' \in [Callers -> Jobs]
    BY DEF MapInv, TypeOK, Write, NoJob, Jobs
  <2> QED
    BY <1>2, <2>1, <2>2, <2>3 DEF MapInv, TypeOK, Write, Goes, mapVars
<1>4. LockHeld'
  BY ExchangeAssumption DEF MapInv, TypeOK, LockHeld, Write, Goes, mapVars
<1>5. IdsInTurn'
  BY <1>1, <1>2 DEF MapInv, TypeOK, IdsInTurn, Write, Goes, mapVars, Ids, NoJob
<1>6. CallsPending'
  BY ExchangeAssumption DEF MapInv, TypeOK, CallsPending, IdsInTurn, Write, Goes, Jobs, NoJob, Messages, mapVars, boxVars, Ids
<1> QED
  BY <1>3, <1>4, <1>5, <1>6 DEF MapInv

\* Subscribe: one consumer more.
LEMMA SubscribeKeeps ==
  ASSUME MapInv, NEW t \in Callers, Subscribe(t)
  PROVE  MapInv'
<1>1. connection[t] \in Ids /\ Idle \in Consumers
  BY ExchangeAssumption DEF MapInv, TypeOK, Subscribe, Idle, Consumers
<1>2. /\ consumer' \in [Ids -> Seq(Consumers)]
      /\ \A i \in Ids \ {connection[t]} : consumer'[i] = consumer[i]
      /\ Len(consumer'[connection[t]]) = Len(consumer[connection[t]]) + 1
      /\ \A l \in 1..Len(consumer[connection[t]]) :
            consumer'[connection[t]][l] = consumer[connection[t]][l]
      /\ consumer'[connection[t]][Len(consumer[connection[t]]) + 1] = Idle
  BY <1>1, AddConsumer DEF MapInv, TypeOK, Subscribe
<1>3. TypeOK'
  <2>1. \A i \in Ids : Len(consumer'[i]) <= MaxSubscribes
    BY <1>2, ExchangeAssumption DEF MapInv, TypeOK, Subscribe
  <2> QED
    BY <1>2, <2>1 DEF MapInv, TypeOK, Subscribe, mapVars
<1>4. LockHeld'
  BY ExchangeAssumption DEF MapInv, TypeOK, LockHeld, Subscribe, Goes, mapVars
<1>5. IdsInTurn'
  BY ExchangeAssumption DEF MapInv, TypeOK, LockHeld, IdsInTurn, CallsPending, Subscribe, Goes, NoJob, mapVars, boxVars, Ids
<1>6. CallsPending'
  <2>1. \A i \in Ids : \A l \in 1..Len(consumer'[i]) :
          consumer'[i][l].pc # "waiting" => consumer'[i][l].message \in Messages
    <3>1. ASSUME NEW i \in Ids, NEW l \in 1..Len(consumer'[i]), consumer'[i][l].pc # "waiting"
          PROVE  consumer'[i][l].message \in Messages
      <4>1. Len(consumer[i]) \in Nat
        BY DEF MapInv, TypeOK
      <4>2. l \in 1..Len(consumer[i]) /\ consumer'[i][l] = consumer[i][l]
        <5>1. CASE i = connection[t]
          BY <1>2, <3>1, <4>1, <5>1 DEF Idle
        <5>2. CASE i # connection[t]
          BY <1>2, <3>1, <5>2
        <5> QED
          BY <5>1, <5>2
      <4> QED
        BY <3>1, <4>2 DEF MapInv, CallsPending
    <3> QED
      BY <3>1
  <2> QED
    BY <2>1 DEF MapInv, CallsPending, Subscribe
<1> QED
  BY <1>3, <1>4, <1>5, <1>6 DEF MapInv

\* Take: one consumer changes, and nothing else of any of them.
LEMMA TakeChanges ==
  ASSUME MapInv, NEW id \in Ids, NEW k \in 1..Len(consumer[id]), Take(id, k)
  PROVE  /\ consumer' \in [Ids -> Seq(Consumers)]
         /\ \A i \in Ids : Len(consumer'[i]) = Len(consumer[i])
         /\ \A i \in Ids : \A l \in 1..Len(consumer[i]) :
               consumer'[i][l] = IF i = id /\ l = k
                                   THEN [pc |-> "holding", message |-> Head(outbox[id]),
                                         subscriber |-> consumer[id][k].subscriber]
                                   ELSE consumer[i][l]
<1> DEFINE c == [pc |-> "holding", message |-> Head(outbox[id]),
                 subscriber |-> consumer[id][k].subscriber]
<1>1. /\ outbox[id] \in Seq(Messages) /\ Len(outbox[id]) \in Nat
      /\ Head(outbox[id]) \in Messages
      /\ Tail(outbox[id]) \in Seq(Messages) /\ Len(Tail(outbox[id])) = Len(outbox[id]) - 1
  BY DEF MapInv, TypeOK, Take
<1>2. consumer[id][k] \in Consumers
  BY DEF MapInv, TypeOK
<1>3. c \in Consumers /\ consumer' = [consumer EXCEPT ![id][k] = c]
  <2>1. c \in Consumers
    BY <1>1, <1>2 DEF Consumers
  <2>2. [consumer[id][k] EXCEPT !.pc = "holding", !.message = Head(outbox[id])] = c
    BY <1>2, EditConsumer
  <2>3. consumer[id] \in Seq(Consumers) /\ consumer \in [Ids -> Seq(Consumers)]
    BY DEF MapInv, TypeOK
  <2> HIDE DEF c
  <2>4. consumer' = [consumer EXCEPT ![id][k] =
                       [consumer[id][k] EXCEPT !.pc = "holding", !.message = Head(outbox[id])]]
    BY <2>3 DEF Take
  <2> QED
    BY <2>1, <2>2, <2>4
<1> HIDE DEF c
<1>4. /\ consumer' \in [Ids -> Seq(Consumers)]
      /\ \A i \in Ids : Len(consumer'[i]) = Len(consumer[i])
      /\ \A i \in Ids : \A l \in 1..Len(consumer[i]) :
            consumer'[i][l] = IF i = id /\ l = k THEN c ELSE consumer[i][l]
  BY <1>3, SetConsumer DEF MapInv, TypeOK
<1> QED
  BY <1>4 DEF c

\* A consumer receives.
LEMMA TakeKeeps ==
  ASSUME MapInv, NEW id \in Ids, NEW k \in 1..Len(consumer[id]), Take(id, k)
  PROVE  MapInv'
<1> DEFINE c == [pc |-> "holding", message |-> Head(outbox[id]),
                 subscriber |-> consumer[id][k].subscriber]
<1>1. /\ outbox[id] \in Seq(Messages) /\ Len(outbox[id]) \in Nat
      /\ Head(outbox[id]) \in Messages
      /\ Tail(outbox[id]) \in Seq(Messages) /\ Len(Tail(outbox[id])) = Len(outbox[id]) - 1
  BY DEF MapInv, TypeOK, Take
<1>2. /\ consumer' \in [Ids -> Seq(Consumers)]
      /\ \A i \in Ids : Len(consumer'[i]) = Len(consumer[i])
      /\ \A i \in Ids : \A l \in 1..Len(consumer[i]) :
            consumer'[i][l] = IF i = id /\ l = k THEN c ELSE consumer[i][l]
  BY TakeChanges
<1> HIDE DEF c
<1>3. TypeOK'
  <2>1. outbox' \in [Ids -> Seq(Messages)] /\ \A i \in Ids : Len(outbox'[i]) <= Capacity
    BY <1>1, ExchangeAssumption DEF MapInv, TypeOK, Take
  <2> QED
    BY <1>2, <2>1 DEF MapInv, TypeOK, Take, mapVars
<1>4. LockHeld'
  BY ExchangeAssumption DEF MapInv, TypeOK, LockHeld, Take, Goes, mapVars
<1>5. IdsInTurn'
  <2>1. id < current
    BY ExchangeAssumption DEF MapInv, TypeOK, IdsInTurn, Take, Ids
  <2> QED
    BY <2>1, ExchangeAssumption DEF MapInv, TypeOK, IdsInTurn, Take, mapVars, Ids
<1>6. CallsPending'
  <2>1. c.message \in Messages
    BY <1>1 DEF c
  <2>2. \A i \in Ids : \A l \in 1..Len(consumer'[i]) :
          consumer'[i][l].pc # "waiting" => consumer'[i][l].message \in Messages
    BY <1>2, <2>1 DEF MapInv, CallsPending
  <2>3. UNCHANGED <<pc, job, connection>>
    BY DEF Take
  <2> QED
    BY <2>2, <2>3 DEF MapInv, CallsPending
<1> QED
  BY <1>3, <1>4, <1>5, <1>6 DEF MapInv

\* Call: one consumer changes, and nothing else of any of them.
LEMMA CallChanges ==
  ASSUME MapInv, NEW id \in Ids, NEW k \in 1..Len(consumer[id]), Call(id, k)
  PROVE  /\ consumer' \in [Ids -> Seq(Consumers)]
         /\ \A i \in Ids : Len(consumer'[i]) = Len(consumer[i])
         /\ \A i \in Ids : \A l \in 1..Len(consumer[i]) :
               consumer'[i][l] = IF i = id /\ l = k
                                   THEN [pc |-> "calling", message |-> consumer[id][k].message,
                                         subscriber |-> Len(consumer[id])]
                                   ELSE consumer[i][l]
<1> DEFINE c == [pc |-> "calling", message |-> consumer[id][k].message,
                 subscriber |-> Len(consumer[id])]
<1>1. consumer[id][k].message \in Messages /\ Len(consumer[id]) \in 0..MaxSubscribes
  BY ExchangeAssumption DEF MapInv, TypeOK, CallsPending, Call
<1>2. consumer[id][k] \in Consumers
  BY DEF MapInv, TypeOK
<1>3. c \in Consumers /\ consumer' = [consumer EXCEPT ![id][k] = c]
  <2>1. c \in Consumers
    BY <1>1 DEF Consumers
  <2>2. [consumer[id][k] EXCEPT !.pc = "calling", !.subscriber = Len(consumer[id])] = c
    BY <1>2, CallConsumer
  <2>3. consumer[id] \in Seq(Consumers) /\ consumer \in [Ids -> Seq(Consumers)]
    BY DEF MapInv, TypeOK
  <2> HIDE DEF c
  <2>4. consumer' = [consumer EXCEPT ![id][k] =
                       [consumer[id][k] EXCEPT !.pc = "calling", !.subscriber = Len(consumer[id])]]
    BY <2>3 DEF Call
  <2> QED
    BY <2>1, <2>2, <2>4
<1> HIDE DEF c
<1>4. /\ consumer' \in [Ids -> Seq(Consumers)]
      /\ \A i \in Ids : Len(consumer'[i]) = Len(consumer[i])
      /\ \A i \in Ids : \A l \in 1..Len(consumer[i]) :
            consumer'[i][l] = IF i = id /\ l = k THEN c ELSE consumer[i][l]
  BY <1>3, SetConsumer DEF MapInv, TypeOK
<1> QED
  BY <1>4 DEF c

\* A consumer takes the mutex and calls the subscriber.
LEMMA CallKeeps ==
  ASSUME MapInv, NEW id \in Ids, NEW k \in 1..Len(consumer[id]), Call(id, k)
  PROVE  MapInv'
<1> DEFINE c == [pc |-> "calling", message |-> consumer[id][k].message,
                 subscriber |-> Len(consumer[id])]
<1>1. consumer[id][k].message \in Messages /\ Len(consumer[id]) \in 0..MaxSubscribes
  BY ExchangeAssumption DEF MapInv, TypeOK, CallsPending, Call
<1>2. /\ consumer' \in [Ids -> Seq(Consumers)]
      /\ \A i \in Ids : Len(consumer'[i]) = Len(consumer[i])
      /\ \A i \in Ids : \A l \in 1..Len(consumer[i]) :
            consumer'[i][l] = IF i = id /\ l = k THEN c ELSE consumer[i][l]
  BY CallChanges
<1> HIDE DEF c
<1>3. TypeOK'
  <2>1. delivered' \in [Ids -> Seq(Messages)]
    BY <1>1 DEF MapInv, TypeOK, Call
  <2> QED
    BY <1>2, <2>1 DEF MapInv, TypeOK, Call, mapVars
<1>4. LockHeld'
  BY ExchangeAssumption DEF MapInv, TypeOK, LockHeld, Call, Goes, mapVars
<1>5. IdsInTurn'
  BY ExchangeAssumption DEF MapInv, TypeOK, LockHeld, IdsInTurn, CallsPending, Call, Goes, NoJob, mapVars, boxVars, Ids
<1>6. CallsPending'
  <2>1. c.message \in Messages
    BY <1>1 DEF c
  <2>2. \A i \in Ids : \A l \in 1..Len(consumer'[i]) :
          consumer'[i][l].pc # "waiting" => consumer'[i][l].message \in Messages
    BY <1>2, <2>1 DEF MapInv, CallsPending
  <2>3. UNCHANGED <<pc, job, connection>>
    BY DEF Call
  <2> QED
    BY <2>2, <2>3 DEF MapInv, CallsPending
<1> QED
  BY <1>3, <1>4, <1>5, <1>6 DEF MapInv

\* The subscriber returns.
LEMMA ReturnKeeps ==
  ASSUME MapInv, NEW id \in Ids, NEW k \in 1..Len(consumer[id]), Return(id, k)
  PROVE  MapInv'
<1>1. Idle \in Consumers
  BY ExchangeAssumption DEF Idle, Consumers
<1>2. /\ consumer' \in [Ids -> Seq(Consumers)]
      /\ \A i \in Ids : Len(consumer'[i]) = Len(consumer[i])
      /\ \A i \in Ids : \A l \in 1..Len(consumer[i]) :
            consumer'[i][l] = IF i = id /\ l = k THEN Idle ELSE consumer[i][l]
  BY <1>1, SetConsumer DEF MapInv, TypeOK, Return
<1>3. TypeOK'
  BY <1>2 DEF MapInv, TypeOK, Return, mapVars
<1>4. LockHeld'
  BY ExchangeAssumption DEF MapInv, TypeOK, LockHeld, Return, Goes, mapVars
<1>5. IdsInTurn'
  BY ExchangeAssumption DEF MapInv, TypeOK, LockHeld, IdsInTurn, CallsPending, Return, Goes, NoJob, mapVars, boxVars, Ids
<1>6. CallsPending'
  <2>1. Idle.pc = "waiting"
    BY DEF Idle
  <2>2. \A i \in Ids : \A l \in 1..Len(consumer'[i]) :
          consumer'[i][l].pc # "waiting" => consumer'[i][l].message \in Messages
    BY <1>2, <2>1 DEF MapInv, CallsPending
  <2>3. UNCHANGED <<pc, job, connection>>
    BY DEF Return
  <2> QED
    BY <2>2, <2>3 DEF MapInv, CallsPending
<1> QED
  BY <1>3, <1>4, <1>5, <1>6 DEF MapInv

\* Stall: one consumer changes, and nothing else of any of them.
LEMMA StallChanges ==
  ASSUME MapInv, NEW id \in Ids, NEW k \in 1..Len(consumer[id]), Stall(id, k)
  PROVE  /\ consumer' \in [Ids -> Seq(Consumers)]
         /\ \A i \in Ids : Len(consumer'[i]) = Len(consumer[i])
         /\ \A i \in Ids : \A l \in 1..Len(consumer[i]) :
               consumer'[i][l] = IF i = id /\ l = k
                                   THEN [consumer[id][k] EXCEPT !.pc = "stalled"]
                                   ELSE consumer[i][l]
<1> DEFINE c == [consumer[id][k] EXCEPT !.pc = "stalled"]
<1>1. consumer[id][k] \in Consumers
  BY DEF MapInv, TypeOK
<1>2. c \in Consumers
  BY <1>1 DEF Consumers
<1>3. consumer' = [consumer EXCEPT ![id][k] = c]
  <2>1. consumer[id] \in Seq(Consumers) /\ consumer \in [Ids -> Seq(Consumers)]
    BY DEF MapInv, TypeOK
  <2> QED
    BY <2>1 DEF Stall
<1> HIDE DEF c
<1>4. /\ consumer' \in [Ids -> Seq(Consumers)]
      /\ \A i \in Ids : Len(consumer'[i]) = Len(consumer[i])
      /\ \A i \in Ids : \A l \in 1..Len(consumer[i]) :
            consumer'[i][l] = IF i = id /\ l = k THEN c ELSE consumer[i][l]
  BY <1>2, <1>3, SetConsumer DEF MapInv, TypeOK
<1> QED
  BY <1>4 DEF c

\* The consumer stays inside its call, with its message and subscriber.
LEMMA StallStates ==
  ASSUME MapInv, NEW id \in Ids, NEW k \in 1..Len(consumer[id]), Stall(id, k)
  PROVE  /\ \A i \in Ids : Len(consumer'[i]) = Len(consumer[i])
         /\ \A i \in Ids : \A l \in 1..Len(consumer[i]) :
               /\ i # id \/ l # k => consumer'[i][l] = consumer[i][l]
               /\ i = id /\ l = k => consumer'[i][l].pc = "stalled"
               /\ consumer'[i][l].message = consumer[i][l].message
               /\ consumer'[i][l].subscriber = consumer[i][l].subscriber
<1> DEFINE c == [consumer[id][k] EXCEPT !.pc = "stalled"]
<1>1. consumer[id][k] \in Consumers
  BY DEF MapInv, TypeOK
<1>2. /\ c.pc = "stalled" /\ c.message = consumer[id][k].message
      /\ c.subscriber = consumer[id][k].subscriber
  BY <1>1 DEF Consumers
<1>3. /\ \A i \in Ids : Len(consumer'[i]) = Len(consumer[i])
      /\ \A i \in Ids : \A l \in 1..Len(consumer[i]) :
            consumer'[i][l] = IF i = id /\ l = k THEN c ELSE consumer[i][l]
  BY StallChanges
<1> HIDE DEF c
<1> QED
  BY <1>2, <1>3

\* A subscriber stalls.
LEMMA StallKeeps ==
  ASSUME MapInv, NEW id \in Ids, NEW k \in 1..Len(consumer[id]), Stall(id, k)
  PROVE  MapInv'
<1>1. /\ consumer' \in [Ids -> Seq(Consumers)]
      /\ \A i \in Ids : Len(consumer'[i]) = Len(consumer[i])
      /\ \A i \in Ids : \A l \in 1..Len(consumer[i]) :
            /\ i # id \/ l # k => consumer'[i][l] = consumer[i][l]
            /\ consumer'[i][l].message = consumer[i][l].message
  <2>1. consumer' \in [Ids -> Seq(Consumers)]
    BY StallChanges
  <2> QED
    BY <2>1, StallStates
<1>2. TypeOK'
  <2>1. \A i \in Ids : Len(consumer'[i]) <= MaxSubscribes
    BY <1>1 DEF MapInv, TypeOK
  <2> QED
    BY <1>1, <2>1 DEF MapInv, TypeOK, Stall, mapVars
<1>3. LockHeld'
  BY ExchangeAssumption DEF MapInv, TypeOK, LockHeld, Stall, Goes, mapVars
<1>4. IdsInTurn'
  BY ExchangeAssumption DEF MapInv, TypeOK, LockHeld, IdsInTurn, CallsPending, Stall, Goes, NoJob, mapVars, boxVars, Ids
<1>5. CallsPending'
  <2>1. consumer[id][k].pc # "waiting"
    BY DEF Stall
  <2>2. \A i \in Ids : \A l \in 1..Len(consumer'[i]) :
          consumer'[i][l].pc # "waiting" => consumer'[i][l].message \in Messages
    BY <1>1, <2>1 DEF MapInv, CallsPending
  <2>3. UNCHANGED <<pc, job, connection>>
    BY DEF Stall
  <2> QED
    BY <2>2, <2>3 DEF MapInv, CallsPending
<1> QED
  BY <1>2, <1>3, <1>4, <1>5 DEF MapInv

\* The runtime ends the process.
LEMMA DetectRaceKeeps ==
  ASSUME MapInv, DetectRace
  PROVE  MapInv'
<1>1. TypeOK'
  BY ExchangeAssumption DEF MapInv, TypeOK, IdsInTurn, CallsPending, DetectRace, Goes, Jobs, NoJob, Messages, NoMessage, mapVars, boxVars, Ids
<1>2. LockHeld'
  BY ExchangeAssumption DEF MapInv, TypeOK, LockHeld, DetectRace, Goes, mapVars
<1>3. IdsInTurn'
  BY ExchangeAssumption DEF MapInv, TypeOK, LockHeld, IdsInTurn, CallsPending, DetectRace, Goes, NoJob, mapVars, boxVars, Ids
<1>4. CallsPending'
  BY ExchangeAssumption DEF MapInv, TypeOK, CallsPending, IdsInTurn, DetectRace, Goes, Jobs, NoJob, Messages, mapVars, boxVars, Ids
<1> QED
  BY <1>1, <1>2, <1>3, <1>4 DEF MapInv

\* Whatever the step, the invariant survives it.
LEMMA StepKeeps ==
  ASSUME MapInv, [Next]_vars
  PROVE  MapInv'
<1>1. ASSUME NEW t \in Callers, Proceed(t)
      PROVE  MapInv'
  BY <1>1, NextIdKeeps, InsertKeeps, ReconnectKeeps, SendToOtherKeeps, SendToSelfKeeps,
     NoDestinationKeeps, NoSenderKeeps, WriteKeeps DEF Proceed
<1>2. ASSUME NEW id \in Ids, Consume(id)
      PROVE  MapInv'
  BY <1>2, TakeKeeps, CallKeeps, ReturnKeeps DEF Consume
<1>3. CASE UNCHANGED vars
  BY <1>3 DEF MapInv, TypeOK, LockHeld, IdsInTurn, CallsPending, vars, mapVars
<1> QED
  BY <1>1, <1>2, <1>3, LockToConnectKeeps, SubscribeKeeps, LockToReconnectKeeps, LookUpKeeps,
     StallKeeps, DetectRaceKeeps DEF Next

\* It holds to begin with.
LEMMA InitHolds == Init => MapInv
<1> SUFFICES ASSUME Init
             PROVE  MapInv
  OBVIOUS
<1>1. NoJob \in Jobs
  BY DEF NoJob, Jobs
<1>2. TypeOK
  <2>1. outbox \in [Ids -> Seq(Messages)] /\ consumer \in [Ids -> Seq(Consumers)]
    BY DEF Init
  <2>2. \A id \in Ids : Len(outbox[id]) <= Capacity /\ Len(consumer[id]) <= MaxSubscribes
    BY ExchangeAssumption DEF Init
  <2>3. job \in [Callers -> Jobs]
    BY <1>1 DEF Init
  <2>4. current \in 0..MaxConnections /\ sends \in 0..MaxSends
    BY ExchangeAssumption DEF Init
  <2> QED
    BY <2>1, <2>2, <2>3, <2>4 DEF Init, TypeOK
<1>3. LockHeld
  BY DEF Init, LockHeld
<1>4. IdsInTurn
  BY DEF Init, IdsInTurn
<1>5. CallsPending
  BY DEF Init, CallsPending
<1> QED
  BY <1>2, <1>3, <1>4, <1>5 DEF MapInv

(***************************************************************************)
(* The inductive invariant of the exchange: who holds the lock, which ids  *)
(* have been given out, and what each pending call is about.               *)
(***************************************************************************)
THEOREM MapInvHolds == Spec => []MapInv
  BY InitHolds, StepKeeps, PTL DEF Spec

\* Every table of the exchange keeps its type; no outbox exceeds its capacity.
THEOREM TypeCorrect == Spec => []TypeOK
<1>1. MapInv => TypeOK
  BY DEF MapInv
<1> QED
  BY <1>1, MapInvHolds, PTL

\* No two Connects give out the same id.
THEOREM IdsUnique == Spec => []IdsAreUnique
<1>1. MapInv => IdsAreUnique
  <2> SUFFICES ASSUME MapInv, NEW t \in Callers, pc[t] \in {"numbering", "inserting"}
               PROVE  /\ job[t].id \notin connected
                      /\ \A u \in Callers : pc[u] \in {"numbering", "inserting"} => t = u
    BY DEF IdsAreUnique
  <2>1. \A id \in connected : id \in Nat /\ id < current
    BY DEF MapInv, TypeOK, IdsInTurn, Ids
  <2>2. job[t].id = current \/ job[t].id \notin connected
    BY DEF MapInv, IdsInTurn
  <2>3. \A u \in Callers : pc[u] \in {"numbering", "inserting"} => lock = u
    BY DEF MapInv, LockHeld
  <2> QED
    BY <2>1, <2>2, <2>3
<1> QED
  BY <1>1, MapInvHolds, PTL

\* Whoever is in the map while it is written is in Send.
THEOREM SendAloneRaces == Spec => []OnlySendRaces
<1>1. MapInv => OnlySendRaces
  BY ExchangeAssumption DEF MapInv, LockHeld, OnlySendRaces, Accessing
<1> QED
  BY <1>1, MapInvHolds, PTL

-----------------------------------------------------------------------------
(* Subscribers are called one at a time. *)

\* What Take, Call and Return do to the states of the consumers.
LEMMA TakeStates ==
  ASSUME MapInv, NEW id \in Ids, NEW k \in 1..Len(consumer[id]), Take(id, k)
  PROVE  /\ \A i \in Ids : Len(consumer'[i]) = Len(consumer[i])
         /\ \A i \in Ids : \A l \in 1..Len(consumer[i]) :
               /\ i # id \/ l # k => consumer'[i][l] = consumer[i][l]
               /\ i = id /\ l = k => /\ consumer'[i][l].pc = "holding"
                                    /\ consumer'[i][l].message = Head(outbox[id])
<1> DEFINE c == [pc |-> "holding", message |-> Head(outbox[id]), subscriber |-> consumer[id][k].subscriber]
<1>1. c.pc = "holding" /\ c.message = Head(outbox[id])
  OBVIOUS
<1>2. /\ \A i \in Ids : Len(consumer'[i]) = Len(consumer[i])
      /\ \A i \in Ids : \A l \in 1..Len(consumer[i]) :
            consumer'[i][l] = IF i = id /\ l = k THEN c ELSE consumer[i][l]
  BY TakeChanges
<1> HIDE DEF c
<1> QED
  BY <1>1, <1>2

LEMMA CallStates ==
  ASSUME MapInv, NEW id \in Ids, NEW k \in 1..Len(consumer[id]), Call(id, k)
  PROVE  /\ \A i \in Ids : Len(consumer'[i]) = Len(consumer[i])
         /\ \A i \in Ids : \A l \in 1..Len(consumer[i]) :
               /\ i # id \/ l # k => consumer'[i][l] = consumer[i][l]
               /\ i = id /\ l = k => /\ consumer'[i][l].pc = "calling"
                                    /\ consumer'[i][l].subscriber = Len(consumer[id])
<1> DEFINE c == [pc |-> "calling", message |-> consumer[id][k].message, subscriber |-> Len(consumer[id])]
<1>1. c.pc = "calling" /\ c.subscriber = Len(consumer[id])
  OBVIOUS
<1>2. /\ \A i \in Ids : Len(consumer'[i]) = Len(consumer[i])
      /\ \A i \in Ids : \A l \in 1..Len(consumer[i]) :
            consumer'[i][l] = IF i = id /\ l = k THEN c ELSE consumer[i][l]
  BY CallChanges
<1> HIDE DEF c
<1> QED
  BY <1>1, <1>2

LEMMA ReturnStates ==
  ASSUME MapInv, NEW id \in Ids, NEW k \in 1..Len(consumer[id]), Return(id, k)
  PROVE  /\ \A i \in Ids : Len(consumer'[i]) = Len(consumer[i])
         /\ \A i \in Ids : \A l \in 1..Len(consumer[i]) :
               /\ i # id \/ l # k => consumer'[i][l] = consumer[i][l]
               /\ i = id /\ l = k => consumer'[i][l].pc = "waiting"
<1>1. Idle \in Consumers
  BY ExchangeAssumption DEF Idle, Consumers
<1>2. /\ \A i \in Ids : Len(consumer'[i]) = Len(consumer[i])
      /\ \A i \in Ids : \A l \in 1..Len(consumer[i]) :
            consumer'[i][l] = IF i = id /\ l = k THEN Idle ELSE consumer[i][l]
  BY <1>1, SetConsumer DEF MapInv, TypeOK, Return
<1> QED
  BY <1>2 DEF Idle

\* A second consumer has to wait until the call returns; a second Subscribe too.
LEMMA ExclusiveStep ==
  ASSUME MapInv, CallsAreExclusive, [Next]_vars
  PROVE  CallsAreExclusive'
<1>1. CASE UNCHANGED consumer
  BY <1>1 DEF CallsAreExclusive, Calling
<1>2. ASSUME NEW t \in Callers, Subscribe(t)
      PROVE  CallsAreExclusive'
  <2>1. connection[t] \in Ids /\ Idle \in Consumers
    BY <1>2, ExchangeAssumption DEF MapInv, TypeOK, Subscribe, Idle, Consumers
  <2>2. /\ \A i \in Ids \ {connection[t]} : consumer'[i] = consumer[i]
        /\ Len(consumer'[connection[t]]) = Len(consumer[connection[t]]) + 1
        /\ \A l \in 1..Len(consumer[connection[t]]) :
              consumer'[connection[t]][l] = consumer[connection[t]][l]
        /\ consumer'[connection[t]][Len(consumer[connection[t]]) + 1] = Idle
    BY <1>2, <2>1, AddConsumer DEF MapInv, TypeOK, Subscribe
  <2>3. Calling(connection[t]) = {} /\ Len(consumer[connection[t]]) \in Nat
    BY <1>2, <2>1 DEF MapInv, TypeOK, Subscribe
  <2>4. ASSUME NEW l \in Calling(connection[t])'
        PROVE  FALSE
    <3>1. l \in 1..(Len(consumer[connection[t]]) + 1) /\ consumer'[connection[t]][l].pc \in {"calling", "stalled"}
      BY <1>2, <2>2 DEF Calling, Subscribe
    <3>2. l \in 1..Len(consumer[connection[t]])
      BY <2>2, <2>3, <3>1 DEF Idle
    <3> QED
      BY <2>2, <2>3, <3>1, <3>2 DEF Calling
  <2>5. \A i \in Ids \ {connection[t]} : Calling(i)' = Calling(i)
    BY <2>2 DEF Calling
  <2>6. connection' = connection
    BY <1>2 DEF Subscribe
  <2>7. ASSUME NEW i \in Ids
        PROVE  /\ \A k, l \in Calling(i)' : k = l
               /\ \A k \in Calling(i)' : consumer'[i][k].subscriber = Len(consumer'[i])
    <3>1. CASE i = connection[t]
      BY <2>4, <2>6, <3>1
    <3>2. CASE i # connection[t]
      BY <2>2, <2>5, <3>2 DEF CallsAreExclusive
    <3> QED
      BY <3>1, <3>2
  <2> QED
    BY <2>7 DEF CallsAreExclusive
<1>3. ASSUME NEW id \in Ids, NEW k \in 1..Len(consumer[id]), Take(id, k)
      PROVE  CallsAreExclusive'
  <2>1. ASSUME NEW i \in Ids, NEW l \in Calling(i)'
        PROVE  l \in Calling(i) /\ consumer'[i][l] = consumer[i][l]
    <3>1. l \in 1..Len(consumer[i]) /\ consumer'[i][l].pc \in {"calling", "stalled"}
      BY <1>3, TakeStates DEF Calling
    <3>2. i # id \/ l # k
      BY <1>3, <3>1, TakeStates
    <3> QED
      BY <1>3, <3>1, <3>2, TakeStates DEF Calling
  <2>2. \A i \in Ids : Len(consumer'[i]) = Len(consumer[i])
    BY <1>3, TakeStates
  <2> QED
    BY <2>1, <2>2 DEF CallsAreExclusive
<1>4. ASSUME NEW id \in Ids, NEW k \in 1..Len(consumer[id]), Call(id, k)
      PROVE  CallsAreExclusive'
  <2>1. Calling(id) = {}
    BY <1>4 DEF Call
  <2>2. Calling(id)' = {k}
    BY <1>4, <2>1, CallStates DEF Calling
  <2>3. consumer'[id][k].subscriber = Len(consumer'[id])
    BY <1>4, CallStates
  <2>4. \A i \in Ids \ {id} : consumer'[i] = consumer[i] /\ Calling(i)' = Calling(i)
    BY <1>4 DEF Call, MapInv, TypeOK, Calling
  <2> QED
    BY <2>2, <2>3, <2>4 DEF CallsAreExclusive
<1>5. ASSUME NEW id \in Ids, NEW k \in 1..Len(consumer[id]), Return(id, k)
      PROVE  CallsAreExclusive'
  <2>1. ASSUME NEW i \in Ids, NEW l \in Calling(i)'
        PROVE  l \in Calling(i) /\ consumer'[i][l] = consumer[i][l]
    <3>1. l \in 1..Len(consumer[i]) /\ consumer'[i][l].pc \in {"calling", "stalled"}
      BY <1>5, ReturnStates DEF Calling
    <3>2. i # id \/ l # k
      BY <1>5, <3>1, ReturnStates
    <3> QED
      BY <1>5, <3>1, <3>2, ReturnStates DEF Calling
  <2>2. \A i \in Ids : Len(consumer'[i]) = Len(consumer[i])
    BY <1>5, ReturnStates
  <2> QED
    BY <2>1, <2>2 DEF CallsAreExclusive
<1>9. ASSUME NEW id \in Ids, NEW k \in 1..Len(consumer[id]), Stall(id, k)
      PROVE  CallsAreExclusive'
  <2>1. k \in Calling(id)
    BY <1>9 DEF Stall, Calling
  <2>2. ASSUME NEW i \in Ids, NEW l \in Calling(i)'
        PROVE  l \in Calling(i) /\ consumer'[i][l].subscriber = consumer[i][l].subscriber
    <3>1. l \in 1..Len(consumer[i]) /\ consumer'[i][l].pc \in {"calling", "stalled"}
      BY <1>9, StallStates DEF Calling
    <3>2. CASE i = id /\ l = k
      BY <1>9, <2>1, <3>1, <3>2, StallStates
    <3>3. CASE i # id \/ l # k
      BY <1>9, <3>1, <3>3, StallStates DEF Calling
    <3> QED
      BY <3>2, <3>3
  <2>3. \A i \in Ids : Len(consumer'[i]) = Len(consumer[i])
    BY <1>9, StallStates
  <2> QED
    BY <2>2, <2>3 DEF CallsAreExclusive
<1>6. ASSUME NEW t \in Callers, Proceed(t)
      PROVE  UNCHANGED consumer
  BY <1>6 DEF Proceed, NextId, Insert, Reconnect, SendToOther, SendToSelf, NoDestination, NoSender,
              Write, WillWrite, boxVars
<1>7. ASSUME NEW t \in Callers, LockToConnect(t) \/ \E id \in Ids : LockToReconnect(t, id) \/ LookUp(t, id)
      PROVE  UNCHANGED consumer
  BY <1>7 DEF LockToConnect, LockToReconnect, LookUp, boxVars
<1>8. DetectRace \/ UNCHANGED vars => UNCHANGED consumer
  BY DEF DetectRace, boxVars, vars
<1> QED
  BY <1>1, <1>2, <1>3, <1>4, <1>5, <1>6, <1>7, <1>8, <1>9 DEF Next, Consume

\* Every call goes to the subscriber set last, and no two overlap.
THEOREM CallsExclusive == Spec => []CallsAreExclusive
<1>1. Init => CallsAreExclusive
  BY DEF Init, CallsAreExclusive, Calling
<1> QED
  BY <1>1, ExclusiveStep, MapInvHolds, PTL DEF Spec

-----------------------------------------------------------------------------
(* The exchange implements Mailboxes. *)

\* Three facts about sequences.
LEMMA ConcatAppend ==
  ASSUME NEW S, NEW s \in Seq(S), NEW r \in Seq(S), NEW e \in S
  PROVE  s \o Append(r, e) = Append(s \o r, e)
<1>1. <<e>> \in Seq(S)
  OBVIOUS
<1>2. Append(r, e) = r \o <<e>>
  BY AppendIsConcat
<1>3. s \o r \in Seq(S)
  BY ConcatProperties
<1>4. Append(s \o r, e) = (s \o r) \o <<e>>
  BY <1>3, AppendIsConcat
<1> QED
  BY <1>1, <1>2, <1>4, ConcatAssociative

LEMMA HeadBeforeTail ==
  ASSUME NEW S, NEW s \in Seq(S), s # <<>>
  PROVE  <<Head(s)>> \o Tail(s) = s
<1>1. /\ <<Head(s)>> \in Seq(S) /\ Len(<<Head(s)>>) = 1 /\ <<Head(s)>>[1] = s[1]
      /\ Tail(s) \in Seq(S) /\ Len(Tail(s)) = Len(s) - 1
      /\ \A i \in 1..Len(Tail(s)) : Tail(s)[i] = s[i + 1]
  BY HeadTailProperties
<1>2. Len(s) \in Nat \ {0}
  BY EmptySeq
<1> DEFINE r == <<Head(s)>> \o Tail(s)
<1>3. r \in Seq(S) /\ Len(r) = Len(s)
  BY <1>1, <1>2, ConcatProperties
<1>4. ASSUME NEW i \in 1..Len(r)
      PROVE  r[i] = s[i]
  BY <1>1, <1>2, <1>3, ConcatProperties
<1> HIDE DEF r
<1>5. r = s
  BY <1>3, <1>4, SeqEqual
<1> QED
  BY <1>5 DEF r

LEMMA UnitConcat ==
  ASSUME NEW S, NEW s \in Seq(S), NEW e \in S
  PROVE  <<e>> \o s # <<>> /\ Head(<<e>> \o s) = e /\ Tail(<<e>> \o s) = s
<1>1. <<e>> \in Seq(S) /\ Len(<<e>>) = 1 /\ <<e>>[1] = e /\ Len(s) \in Nat
  OBVIOUS
<1> DEFINE r == <<e>> \o s
<1>2. r \in Seq(S) /\ Len(r) = Len(s) + 1
  BY <1>1, ConcatProperties
<1>3. \A i \in 1..Len(s) + 1 : r[i] = IF i <= 1 THEN <<e>>[i] ELSE s[i - 1]
  BY <1>1, ConcatProperties
<1> HIDE DEF r
<1>4. r # <<>> /\ r[1] = e
  BY <1>1, <1>2, <1>3
<1>5. Tail(r) = s
  <2>1. /\ Tail(r) \in Seq(S) /\ Len(Tail(r)) = Len(s)
        /\ \A i \in 1..Len(Tail(r)) : Tail(r)[i] = r[i + 1]
    BY <1>1, <1>2, <1>4, HeadTailProperties
  <2>2. \A i \in 1..Len(Tail(r)) : Tail(r)[i] = s[i]
    BY <1>1, <1>3, <2>1
  <2> QED
    BY <2>1, <2>2, SeqEqual
<1>6. Head(r) = e
  BY <1>4
<1> QED
  BY <1>4, <1>5, <1>6 DEF r

\* With one Subscribe, an outbox has at most one consumer.
LEMMA OneConsumer ==
  ASSUME MapInv, MaxSubscribes <= 1, NEW id \in Ids
  PROVE  /\ Len(consumer[id]) \in {0, 1}
         /\ consumer[id] = <<>> <=> Len(consumer[id]) = 0
         /\ Held(id) \in Seq(Messages)
         /\ outbox[id] \in Seq(Messages) /\ delivered[id] \in Seq(Messages)
<1>1. /\ consumer[id] \in Seq(Consumers) /\ Len(consumer[id]) \in Nat
      /\ Len(consumer[id]) <= MaxSubscribes
  BY DEF MapInv, TypeOK
<1>2. consumer[id] = <<>> <=> Len(consumer[id]) = 0
  BY <1>1
<1>3. Len(consumer[id]) \in {0, 1}
  <2>1. \A n \in Nat : n <= MaxSubscribes => n \in {0, 1}
    BY ExchangeAssumption
  <2> QED
    BY <1>1, <2>1
<1>4. Held(id) \in Seq(Messages)
  <2>1. CASE consumer[id] # <<>> /\ consumer[id][1].pc = "holding"
    <3>1. consumer[id][1].message \in Messages
      BY <1>2, <1>3, <2>1 DEF MapInv, CallsPending
    <3> QED
      BY <2>1, <3>1 DEF Held
  <2>2. CASE ~(consumer[id] # <<>> /\ consumer[id][1].pc = "holding")
    BY <2>2 DEF Held
  <2> QED
    BY <2>1, <2>2
<1> QED
  BY <1>2, <1>3, <1>4 DEF MapInv, TypeOK

\* A consumer of an outbox is then its only one.
LEMMA OnlyConsumer ==
  ASSUME MapInv, MaxSubscribes <= 1, NEW id \in Ids, NEW k \in 1..Len(consumer[id])
  PROVE  k = 1 /\ consumer[id] # <<>> /\ Len(consumer[id]) = 1
<1>1. Len(consumer[id]) \in {0, 1} /\ (consumer[id] = <<>> <=> Len(consumer[id]) = 0)
  BY OneConsumer
<1>2. CASE Len(consumer[id]) = 0
  BY <1>2
<1>3. CASE Len(consumer[id]) = 1
  BY <1>1, <1>3
<1> QED
  BY <1>1, <1>2, <1>3

LEMMA MailboxesStart == Init => M!MailboxInit
  BY DEF Init, M!MailboxInit, Held, Stalled

\* No consumer comes to stall, and none is relieved.
LEMMA StalledStays ==
  ASSUME \A i \in Ids :
           /\ Len(consumer'[i]) = Len(consumer[i])
           /\ \A l \in 1..Len(consumer[i]) :
                 consumer'[i][l].pc = "stalled" <=> consumer[i][l].pc = "stalled"
  PROVE  {i \in Ids : Stalled(i)}' = {i \in Ids : Stalled(i)}
<1>1. ASSUME NEW i \in Ids
      PROVE  Stalled(i)' <=> Stalled(i)
  BY DEF Stalled
<1> QED
  BY <1>1

\* Nothing of what Mailboxes sees changes.
LEMMA MailboxesStutter ==
  ASSUME UNCHANGED <<boxVars, crashed>>
  PROVE  UNCHANGED M!mailboxVars
  BY DEF M!mailboxVars, boxVars, Held, Stalled

\* The outbox that Connect creates was empty.
LEMMA NextIdStutters ==
  ASSUME MapInv, NEW t \in Callers, NextId(t)
  PROVE  UNCHANGED M!mailboxVars
<1>1. outbox' = outbox
  BY DEF MapInv, TypeOK, IdsInTurn, NextId, Goes
<1> QED
  BY <1>1, MailboxesStutter DEF NextId, boxVars

LEMMA WritePosts ==
  ASSUME MapInv, MaxSubscribes <= 1, NEW t \in Callers, Write(t)
  PROVE  M!Post(job[t].id, job[t].message)
<1>1. job[t].id \in Ids /\ job[t].message \in Messages
  BY DEF MapInv, CallsPending, Write, Goes
<1>2. \A id \in Ids : outbox[id] \in Seq(Messages) /\ Held(id) \in Seq(Messages)
  BY OneConsumer
<1>3. \A id \in Ids : Held(id)' = Held(id)
  BY DEF Write, Held
<1>4. outbox' = [outbox EXCEPT ![job[t].id] = Append(@, job[t].message)]
  BY DEF Write
<1>5. [id \in Ids |-> Held(id) \o outbox[id]]'
        = [[id \in Ids |-> Held(id) \o outbox[id]]
             EXCEPT ![job[t].id] = Append(@, job[t].message)]
  <2>1. Held(job[t].id) \o Append(outbox[job[t].id], job[t].message)
          = Append(Held(job[t].id) \o outbox[job[t].id], job[t].message)
    <3>1. ASSUME NEW r \in Seq(Messages), NEW q \in Seq(Messages), NEW m \in Messages
          PROVE  r \o Append(q, m) = Append(r \o q, m)
      BY ConcatAppend
    <3> QED
      BY <1>1, <1>2, <3>1
  <2> QED
    BY <1>1, <1>3, <1>4, <2>1 DEF MapInv, TypeOK
<1>6. {id \in Ids : Stalled(id)}' = {id \in Ids : Stalled(id)}
  BY DEF Write, Stalled
<1> QED
  BY <1>5, <1>6 DEF M!Post, Write, Goes

\* The first Subscribe of a connection opens its mailbox.
LEMMA SubscribeOpens ==
  ASSUME MapInv, MaxSubscribes <= 1, NEW t \in Callers, Subscribe(t)
  PROVE  M!Open(connection[t])
<1>1. connection[t] \in Ids /\ Idle \in Consumers
  BY ExchangeAssumption DEF MapInv, TypeOK, Subscribe, Idle, Consumers
<1>2. consumer[connection[t]] = <<>>
  <2>1. /\ Len(consumer[connection[t]]) \in {0, 1}
        /\ consumer[connection[t]] = <<>> <=> Len(consumer[connection[t]]) = 0
    BY <1>1, OneConsumer
  <2>2. Len(consumer[connection[t]]) < MaxSubscribes
    BY DEF Subscribe
  <2>3. CASE Len(consumer[connection[t]]) = 1
    BY <2>2, <2>3, ExchangeAssumption
  <2> QED
    BY <2>1, <2>3
<1>3. /\ consumer' \in [Ids -> Seq(Consumers)]
      /\ \A i \in Ids \ {connection[t]} : consumer'[i] = consumer[i]
      /\ Len(consumer'[connection[t]]) = 1
      /\ consumer'[connection[t]][1] = Idle
  BY <1>1, <1>2, AddConsumer DEF MapInv, TypeOK, Subscribe
<1>4. ASSUME NEW i \in Ids
      PROVE  Held(i)' = Held(i)
  BY <1>2, <1>3 DEF Held, Idle
<1>5. consumer'[connection[t]] # <<>>
  BY <1>1, <1>3
<1>6. {i \in Ids : consumer'[i] # <<>>} = {i \in Ids : consumer[i] # <<>>} \cup {connection[t]}
  BY <1>1, <1>3, <1>5
<1>7. [i \in Ids |-> Held(i) \o outbox[i]]' = [i \in Ids |-> Held(i) \o outbox[i]]
  BY <1>4 DEF Subscribe
<1>8. {i \in Ids : Stalled(i)}' = {i \in Ids : Stalled(i)}
  <2>1. ASSUME NEW i \in Ids
        PROVE  Stalled(i)' <=> Stalled(i)
    BY <1>2, <1>3 DEF Stalled, Idle
  <2> QED
    BY <2>1
<1> QED
  BY <1>6, <1>7, <1>8 DEF M!Open, Subscribe

\* The message a consumer has taken is still in the mailbox.
LEMMA TakeStutters ==
  ASSUME MapInv, MaxSubscribes <= 1,
         NEW id \in Ids, NEW k \in 1..Len(consumer[id]), Take(id, k)
  PROVE  UNCHANGED M!mailboxVars
<1>1. k = 1 /\ consumer[id] # <<>> /\ Len(consumer[id]) = 1
  BY OnlyConsumer
<1>2. outbox[id] \in Seq(Messages) /\ outbox[id] # <<>>
  BY OneConsumer DEF Take
<1>3. \A i \in Ids : Len(consumer'[i]) = Len(consumer[i])
  BY TakeStates
<1>4. consumer' \in [Ids -> Seq(Consumers)]
  BY TakeKeeps DEF MapInv, TypeOK
<1>5. \A i \in Ids : consumer'[i] = <<>> <=> consumer[i] = <<>>
  BY <1>3, <1>4 DEF MapInv, TypeOK
<1>6. \A i \in Ids \ {id} : consumer'[i] = consumer[i] /\ outbox'[i] = outbox[i]
  BY DEF MapInv, TypeOK, Take
<1>7. Held(id) = <<>> /\ Held(id)' = <<Head(outbox[id])>> /\ outbox'[id] = Tail(outbox[id])
  <2>1. consumer[id][1].pc = "waiting" /\ outbox'[id] = Tail(outbox[id])
    BY <1>1 DEF Take, MapInv, TypeOK
  <2>2. consumer'[id][1].pc = "holding" /\ consumer'[id][1].message = Head(outbox[id])
    BY <1>1, TakeStates
  <2> QED
    BY <1>1, <1>5, <2>1, <2>2 DEF Held
<1>8. ASSUME NEW i \in Ids
      PROVE  Held(i)' \o outbox'[i] = Held(i) \o outbox[i]
  <2>1. CASE i = id
    BY <1>2, <1>7, <2>1, HeadBeforeTail, ConcatEmptySeq
  <2>2. CASE i # id
    BY <1>6, <2>2 DEF Held
  <2> QED
    BY <2>1, <2>2
<1>9. {i \in Ids : consumer'[i] # <<>>} = {i \in Ids : consumer[i] # <<>>}
  BY <1>5
<1>10. {i \in Ids : Stalled(i)}' = {i \in Ids : Stalled(i)}
  <2>1. consumer[id][k].pc # "stalled" /\ consumer'[id][k].pc # "stalled"
    BY TakeStates DEF Take
  <2>2. \A i \in Ids :
          /\ Len(consumer'[i]) = Len(consumer[i])
          /\ \A l \in 1..Len(consumer[i]) : i # id \/ l # k => consumer'[i][l] = consumer[i][l]
    BY TakeStates
  <2>3. \A i \in Ids : \A l \in 1..Len(consumer[i]) :
          consumer'[i][l].pc = "stalled" <=> consumer[i][l].pc = "stalled"
    BY <2>1, <2>2
  <2> QED
    BY <2>2, <2>3, StalledStays
<1> QED
  BY <1>8, <1>9, <1>10 DEF M!mailboxVars, Take

\* Calling the subscriber delivers the oldest message.
LEMMA CallDelivers ==
  ASSUME MapInv, MaxSubscribes <= 1,
         NEW id \in Ids, NEW k \in 1..Len(consumer[id]), Call(id, k)
  PROVE  M!Deliver(id)
<1> DEFINE message == consumer[id][1].message
<1>1. k = 1 /\ consumer[id] # <<>> /\ Len(consumer[id]) = 1
  BY OnlyConsumer
<1>2. outbox[id] \in Seq(Messages) /\ message \in Messages
  BY <1>1, OneConsumer DEF Call, MapInv, CallsPending
<1>3. \A i \in Ids : Len(consumer'[i]) = Len(consumer[i])
  BY CallStates
<1>4. consumer' \in [Ids -> Seq(Consumers)]
  BY CallKeeps DEF MapInv, TypeOK
<1>5. \A i \in Ids : consumer'[i] = <<>> <=> consumer[i] = <<>>
  BY <1>3, <1>4 DEF MapInv, TypeOK
<1>6. \A i \in Ids \ {id} : consumer'[i] = consumer[i]
  BY DEF MapInv, TypeOK, Call
<1>7. Held(id) = <<message>> /\ Held(id)' = <<>>
  <2>1. consumer[id][1].pc = "holding" /\ consumer'[id][1].pc = "calling"
    BY <1>1, CallStates DEF Call
  <2> QED
    BY <1>1, <2>1 DEF Held
<1> HIDE DEF message
<1>8. /\ Held(id) \o outbox[id] # <<>>
      /\ Head(Held(id) \o outbox[id]) = message
      /\ Tail(Held(id) \o outbox[id]) = Held(id)' \o outbox[id]
  BY <1>2, <1>7, UnitConcat, ConcatEmptySeq
<1>9. [i \in Ids |-> Held(i) \o outbox[i]]'
        = [[i \in Ids |-> Held(i) \o outbox[i]] EXCEPT ![id] = Tail(@)]
  <2>1. \A i \in Ids \ {id} : Held(i)' = Held(i)
    BY <1>6 DEF Held
  <2>2. outbox' = outbox
    BY DEF Call
  <2>3. \A i \in Ids : Held(i)' \o outbox[i]
          = IF i = id THEN Tail(Held(i) \o outbox[i]) ELSE Held(i) \o outbox[i]
    BY <1>8, <2>1
  <2> QED
    BY <2>2, <2>3
<1>10. {i \in Ids : consumer'[i] # <<>>} = {i \in Ids : consumer[i] # <<>>}
  BY <1>5
<1>11. delivered' = [delivered EXCEPT ![id] = Append(@, message)]
  BY <1>1 DEF Call, message
<1>12. id \in {i \in Ids : consumer[i] # <<>>}
  BY <1>1
<1>13. [i \in Ids |-> Held(i) \o outbox[i]][id] = Held(id) \o outbox[id]
  OBVIOUS
<1>14. ~crashed /\ UNCHANGED crashed
  BY DEF Call
<1>15. {i \in Ids : Stalled(i)}' = {i \in Ids : Stalled(i)}
  <2>1. consumer[id][k].pc # "stalled" /\ consumer'[id][k].pc # "stalled"
    BY CallStates DEF Call
  <2>2. \A i \in Ids :
          /\ Len(consumer'[i]) = Len(consumer[i])
          /\ \A l \in 1..Len(consumer[i]) : i # id \/ l # k => consumer'[i][l] = consumer[i][l]
    BY CallStates
  <2>3. \A i \in Ids : \A l \in 1..Len(consumer[i]) :
          consumer'[i][l].pc = "stalled" <=> consumer[i][l].pc = "stalled"
    BY <2>1, <2>2
  <2> QED
    BY <2>2, <2>3, StalledStays
<1>16. id \notin {i \in Ids : Stalled(i)}
  BY DEF Call, Calling, Stalled
<1> HIDE DEF Held, Stalled
<1> QED
  BY <1>8, <1>9, <1>10, <1>11, <1>12, <1>13, <1>14, <1>15, <1>16 DEF M!Deliver

LEMMA ReturnStutters ==
  ASSUME MapInv, MaxSubscribes <= 1,
         NEW id \in Ids, NEW k \in 1..Len(consumer[id]), Return(id, k)
  PROVE  UNCHANGED M!mailboxVars
<1>1. k = 1 /\ consumer[id] # <<>> /\ Len(consumer[id]) = 1
  BY OnlyConsumer
<1>2. \A i \in Ids : Len(consumer'[i]) = Len(consumer[i])
  BY ReturnStates
<1>3. consumer' \in [Ids -> Seq(Consumers)]
  BY ReturnKeeps DEF MapInv, TypeOK
<1>4. \A i \in Ids : consumer'[i] = <<>> <=> consumer[i] = <<>>
  BY <1>2, <1>3 DEF MapInv, TypeOK
<1>5. \A i \in Ids \ {id} : consumer'[i] = consumer[i]
  BY DEF MapInv, TypeOK, Return
<1>6. Held(id)' = Held(id)
  <2>1. consumer[id][1].pc = "calling" /\ consumer'[id][1].pc = "waiting"
    BY <1>1, ReturnStates DEF Return
  <2> QED
    BY <2>1 DEF Held
<1>7. \A i \in Ids : Held(i)' = Held(i)
  BY <1>5, <1>6 DEF Held
<1>8. {i \in Ids : consumer'[i] # <<>>} = {i \in Ids : consumer[i] # <<>>}
  BY <1>4
<1>9. {i \in Ids : Stalled(i)}' = {i \in Ids : Stalled(i)}
  <2>1. consumer[id][k].pc # "stalled" /\ consumer'[id][k].pc # "stalled"
    BY ReturnStates DEF Return
  <2>2. \A i \in Ids :
          /\ Len(consumer'[i]) = Len(consumer[i])
          /\ \A l \in 1..Len(consumer[i]) : i # id \/ l # k => consumer'[i][l] = consumer[i][l]
    BY ReturnStates
  <2>3. \A i \in Ids : \A l \in 1..Len(consumer[i]) :
          consumer'[i][l].pc = "stalled" <=> consumer[i][l].pc = "stalled"
    BY <2>1, <2>2
  <2> QED
    BY <2>2, <2>3, StalledStays
<1> QED
  BY <1>7, <1>8, <1>9 DEF M!mailboxVars, Return

\* A subscriber that stalls keeps its message, and its mailbox what is in it.
LEMMA StallStalls ==
  ASSUME MapInv, MaxSubscribes <= 1,
         NEW id \in Ids, NEW k \in 1..Len(consumer[id]), Stall(id, k)
  PROVE  /\ M!Stall(id)
         /\ UNCHANGED <<delivered, written>>
         /\ \A i \in Ids : (Held(i) \o outbox[i])' = Held(i) \o outbox[i]
<1>1. k = 1 /\ consumer[id] # <<>> /\ Len(consumer[id]) = 1
  BY OnlyConsumer
<1>2. \A i \in Ids : Len(consumer'[i]) = Len(consumer[i])
  BY StallStates
<1>3. consumer' \in [Ids -> Seq(Consumers)]
  BY StallKeeps DEF MapInv, TypeOK
<1>4. \A i \in Ids : consumer'[i] = <<>> <=> consumer[i] = <<>>
  BY <1>2, <1>3 DEF MapInv, TypeOK
<1>5. \A i \in Ids \ {id} : consumer'[i] = consumer[i]
  BY DEF MapInv, TypeOK, Stall
<1>6. consumer[id][1].pc = "calling" /\ consumer'[id][1].pc = "stalled"
  BY <1>1, StallStates DEF Stall
<1>7. \A i \in Ids : Held(i)' = Held(i)
  BY <1>5, <1>6 DEF Held
<1>8. UNCHANGED <<outbox, delivered, written, crashed>> /\ ~crashed
  BY DEF Stall
<1>9. {i \in Ids : consumer'[i] # <<>>} = {i \in Ids : consumer[i] # <<>>}
  BY <1>4
<1>10. {i \in Ids : Stalled(i)}' = {i \in Ids : Stalled(i)} \cup {id}
  <2>1. Stalled(id)'
    BY <1>1, <1>2, <1>6 DEF Stalled
  <2>2. ASSUME NEW i \in Ids \ {id}
        PROVE  Stalled(i)' <=> Stalled(i)
    BY <1>5 DEF Stalled
  <2> QED
    BY <2>1, <2>2
<1> HIDE DEF Held, Stalled
<1> QED
  BY <1>1, <1>7, <1>8, <1>9, <1>10 DEF M!Stall

\* Every step is one of Mailboxes, or changes nothing there.
LEMMA MailboxesStep ==
  ASSUME MapInv, MaxSubscribes <= 1, [Next]_vars
  PROVE  [M!MailboxNext]_(M!mailboxVars)
<1>1. ASSUME NEW t \in Callers, Proceed(t)
      PROVE  M!MailboxNext \/ UNCHANGED M!mailboxVars
  <2>1. CASE NextId(t)
    BY <2>1, NextIdStutters
  <2>2. CASE Write(t)
    <3>1. job[t].id \in Ids /\ job[t].message \in Messages
      BY <2>2 DEF MapInv, CallsPending, Write, Goes
    <3>2. M!Post(job[t].id, job[t].message)
      BY <2>2, WritePosts
    <3>3. \E id \in Ids : \E message \in Messages : M!Post(id, message)
      BY <3>1, <3>2 DEF M!Post
    <3> QED
      BY <3>3 DEF M!MailboxNext
  <2>3. CASE \/ Insert(t) \/ Reconnect(t)
             \/ SendToOther(t) \/ SendToSelf(t) \/ NoDestination(t) \/ NoSender(t)
    BY <2>3, MailboxesStutter
       DEF Insert, Reconnect, SendToOther, SendToSelf, NoDestination, NoSender, WillWrite
  <2> QED
    BY <1>1, <2>1, <2>2, <2>3 DEF Proceed
<1>2. ASSUME NEW t \in Callers,
             LockToConnect(t) \/ \E id \in Ids : LockToReconnect(t, id) \/ LookUp(t, id)
      PROVE  UNCHANGED M!mailboxVars
  BY <1>2, MailboxesStutter DEF LockToConnect, LockToReconnect, LookUp
<1>3. ASSUME NEW t \in Callers, Subscribe(t)
      PROVE  M!MailboxNext
  <2>1. connection[t] \in Ids
    BY <1>3 DEF MapInv, TypeOK, Subscribe
  <2>2. M!Open(connection[t])
    BY <1>3, SubscribeOpens
  <2>3. \E id \in Ids : M!Open(id)
    BY <2>1, <2>2 DEF M!Open
  <2> QED
    BY <2>3 DEF M!MailboxNext
<1>4. ASSUME NEW id \in Ids, Consume(id)
      PROVE  M!MailboxNext \/ UNCHANGED M!mailboxVars
  BY <1>4, TakeStutters, CallDelivers, ReturnStutters DEF Consume, M!MailboxNext
<1>5. DetectRace => M!Crash
  BY DEF DetectRace, M!Crash, boxVars, Held, Stalled
<1>6. UNCHANGED vars => UNCHANGED M!mailboxVars
  BY MailboxesStutter DEF vars, boxVars
<1>7. ASSUME NEW id \in Ids, NEW k \in 1..Len(consumer[id]), Stall(id, k)
      PROVE  M!MailboxNext
  <2>1. M!Stall(id)
    BY <1>7, StallStalls
  <2> QED
    BY <2>1 DEF M!MailboxNext
<1> QED
  BY <1>1, <1>2, <1>3, <1>4, <1>5, <1>6, <1>7 DEF Next, M!MailboxNext

(***************************************************************************)
(* For any number of callers, any capacity and any number of messages: if  *)
(* every connection subscribes at most once, what the exchange does, races *)
(* included, Mailboxes does too; each subscriber is called with the        *)
(* messages written to its outbox in the order in which they were written, *)
(* none twice.                                                             *)
(***************************************************************************)
THEOREM ExchangeImplementsMailboxes ==
  ASSUME MaxSubscribes <= 1
  PROVE  Spec => ImplementsMailboxes
<1>1. MapInv /\ [Next]_vars => [M!MailboxNext]_(M!mailboxVars)
  BY MailboxesStep
<1> QED
  BY <1>1, MailboxesStart, MapInvHolds, PTL DEF Spec, ImplementsMailboxes, M!MailboxSafety

-----------------------------------------------------------------------------
(* Each message is in one place. *)

LEMMA InAppend ==
  ASSUME NEW S, NEW seq \in Seq(S), NEW e \in S
  PROVE  /\ In(Append(seq, e)) = In(seq) \cup {e}
         /\ Len(Append(seq, e)) = Len(seq) + 1 /\ Len(seq) \in Nat
         /\ (e \notin In(seq) /\ \A i, j \in DOMAIN seq : i # j => seq[i] # seq[j])
              => \A i, j \in DOMAIN Append(seq, e) : i # j => Append(seq, e)[i] # Append(seq, e)[j]
<1>1. /\ Len(seq) \in Nat /\ DOMAIN seq = 1..Len(seq)
      /\ Len(Append(seq, e)) = Len(seq) + 1
      /\ DOMAIN Append(seq, e) = 1..(Len(seq) + 1)
      /\ Append(seq, e)[Len(seq) + 1] = e
      /\ \A i \in 1..Len(seq) : Append(seq, e)[i] = seq[i]
  <2>1. Len(seq) \in Nat /\ DOMAIN seq = 1..Len(seq) /\ Append(seq, e) \in Seq(S)
    BY LenProperties
  <2>2. Len(Append(seq, e)) = Len(seq) + 1
    OBVIOUS
  <2> QED
    BY <2>1, <2>2
<1>2. DOMAIN Append(seq, e) = DOMAIN seq \cup {Len(seq) + 1} /\ Len(seq) + 1 \notin DOMAIN seq
  BY <1>1
<1>3. In(Append(seq, e)) = In(seq) \cup {e}
  BY <1>1, <1>2 DEF In
<1>4. ASSUME e \notin In(seq), \A i, j \in DOMAIN seq : i # j => seq[i] # seq[j],
             NEW i \in DOMAIN Append(seq, e), NEW j \in DOMAIN Append(seq, e), i # j
      PROVE  Append(seq, e)[i] # Append(seq, e)[j]
  BY <1>1, <1>2, <1>4 DEF In
<1> QED
  BY <1>1, <1>3, <1>4

LEMMA InTail ==
  ASSUME NEW S, NEW seq \in Seq(S), seq # <<>>
  PROVE  /\ In(seq) = {Head(seq)} \cup In(Tail(seq))
         /\ Len(Tail(seq)) = Len(seq) - 1 /\ Len(seq) \in Nat \ {0}
         /\ (\A i, j \in DOMAIN seq : i # j => seq[i] # seq[j])
              => /\ Head(seq) \notin In(Tail(seq))
                 /\ \A i, j \in DOMAIN Tail(seq) : i # j => Tail(seq)[i] # Tail(seq)[j]
<1>1. /\ Len(seq) \in Nat \ {0} /\ DOMAIN seq = 1..Len(seq)
      /\ Tail(seq) \in Seq(S) /\ Len(Tail(seq)) = Len(seq) - 1
      /\ \A i \in 1..Len(Tail(seq)) : Tail(seq)[i] = seq[i + 1]
  BY HeadTailProperties, EmptySeq, LenProperties
<1>2. DOMAIN Tail(seq) = 1..(Len(seq) - 1) /\ Head(seq) = seq[1] /\ 1 \in DOMAIN seq
  BY <1>1, LenProperties
<1>3. \A i \in DOMAIN Tail(seq) : i + 1 \in DOMAIN seq /\ i + 1 # 1 /\ Tail(seq)[i] = seq[i + 1]
  BY <1>1, <1>2
<1>4. \A i \in DOMAIN seq \ {1} : i - 1 \in DOMAIN Tail(seq) /\ Tail(seq)[i - 1] = seq[i]
  <2>1. ASSUME NEW i \in DOMAIN seq \ {1}
        PROVE  i - 1 \in 1..(Len(seq) - 1) /\ (i - 1) + 1 = i
    BY <1>1
  <2> QED
    BY <1>1, <1>2, <2>1
<1>5. In(seq) = {Head(seq)} \cup In(Tail(seq))
  <2>1. ASSUME NEW x \in In(seq)
        PROVE  x \in {Head(seq)} \cup In(Tail(seq))
    BY <1>2, <1>4 DEF In
  <2>2. ASSUME NEW x \in {Head(seq)} \cup In(Tail(seq))
        PROVE  x \in In(seq)
    BY <1>2, <1>3 DEF In
  <2> QED
    BY <2>1, <2>2
<1>6. ASSUME \A i, j \in DOMAIN seq : i # j => seq[i] # seq[j]
      PROVE  Head(seq) \notin In(Tail(seq))
  BY <1>2, <1>3, <1>6 DEF In
<1>7. ASSUME \A i, j \in DOMAIN seq : i # j => seq[i] # seq[j],
             NEW i \in DOMAIN Tail(seq), NEW j \in DOMAIN Tail(seq), i # j
      PROVE  Tail(seq)[i] # Tail(seq)[j]
  <2>1. i + 1 # j + 1
    BY <1>2, <1>7
  <2> QED
    BY <1>3, <1>7, <2>1
<1> QED
  BY <1>1, <1>5, <1>6, <1>7

\* What OnePlace and EachMessageOnce say of one outbox.
Placed(id) ==
    /\ \A i, j \in DOMAIN outbox[id] : i # j => outbox[id][i] # outbox[id][j]
    /\ \A k, l \in Holding(id) : k # l => consumer[id][k].message # consumer[id][l].message
    /\ In(outbox[id]) \cap InHands(id) = {}
    /\ IsFiniteSet(InHands(id))
    /\ In(written[id]) = In(outbox[id]) \cup InHands(id) \cup In(delivered[id])
    /\ Len(written[id]) = Len(outbox[id]) + Cardinality(InHands(id)) + Len(delivered[id])

LEMMA AllPlaced == OnePlace /\ EachMessageOnce <=> \A id \in Ids : Placed(id)
BY DEF OnePlace, EachMessageOnce, Placed

LEMMA AllStayPlaced ==
  ASSUME \A id \in Ids : Placed(id)'
  PROVE  OnePlace' /\ EachMessageOnce'
BY DEF OnePlace, EachMessageOnce, Placed

\* An outbox whose consumers hold what they held.
LEMMA StaysPlaced ==
  ASSUME NEW id, Placed(id),
         outbox'[id] = outbox[id], written'[id] = written[id], delivered'[id] = delivered[id],
         Holding(id)' = Holding(id),
         \A l \in Holding(id) : consumer'[id][l].message = consumer[id][l].message
  PROVE  Placed(id)'
<1>0. InHands(id)' = InHands(id)
  BY DEF InHands
<1>1. /\ In(outbox[id])' = In(outbox[id]) /\ In(written[id])' = In(written[id])
      /\ In(delivered[id])' = In(delivered[id])
  BY DEF In
<1>2. \A k, l \in Holding(id)' : k # l => consumer'[id][k].message # consumer'[id][l].message
  BY DEF Placed
<1>3. \A i, j \in DOMAIN outbox'[id] : i # j => outbox'[id][i] # outbox'[id][j]
  BY DEF Placed
<1>4. /\ In(outbox[id])' \cap InHands(id)' = {}
      /\ IsFiniteSet(InHands(id)')
      /\ In(written[id])' = In(outbox[id])' \cup InHands(id)' \cup In(delivered[id])'
  BY <1>0, <1>1 DEF Placed
<1>5. Len(written'[id]) = Len(outbox'[id]) + Cardinality(InHands(id)') + Len(delivered'[id])
  BY <1>0 DEF Placed
<1> QED
  BY <1>2, <1>3, <1>4, <1>5 DEF Placed

LEMMA BoxesStay ==
  ASSUME OnePlace, EachMessageOnce, UNCHANGED boxVars
  PROVE  OnePlace' /\ EachMessageOnce'
<1>1. ASSUME NEW id \in Ids
      PROVE  Placed(id)'
  <2>1. /\ outbox'[id] = outbox[id] /\ written'[id] = written[id]
        /\ delivered'[id] = delivered[id] /\ consumer'[id] = consumer[id]
    BY DEF boxVars
  <2>2. /\ Holding(id)' = Holding(id)
        /\ \A l \in Holding(id) : consumer'[id][l].message = consumer[id][l].message
    BY <2>1 DEF Holding
  <2>3. Placed(id)
    BY AllPlaced
  <2> QED
    BY <2>1, <2>2, <2>3, StaysPlaced
<1> QED
  BY <1>1, AllStayPlaced

\* No caller comes to have a message that it did not have.
LEMMA SendsStay ==
  ASSUME SendsDiffer, UNCHANGED <<written, sends>>,
         \A t \in Callers : Sending(t)' => /\ Sending(t)
                                          /\ job'[t].message.send = job[t].message.send
  PROVE  SendsDiffer'
BY DEF SendsDiffer, In

\* A message on its way to an outbox comes into the channel.
LEMMA WritePlaces ==
  ASSUME PlaceInv, NEW t \in Callers, Write(t)
  PROVE  SendsDiffer' /\ OnePlace' /\ EachMessageOnce'
<1> SUFFICES ASSUME NEW to, NEW m, to = job[t].id, m = job[t].message
             PROVE  SendsDiffer' /\ OnePlace' /\ EachMessageOnce'
  OBVIOUS
<1>1. to \in Ids /\ m \in Messages /\ Sending(t) /\ m.send <= sends
  BY DEF PlaceInv, MapInv, CallsPending, Sending, SendsDiffer, Write, Goes
<1>2. /\ outbox' = [outbox EXCEPT ![to] = Append(@, m)]
      /\ written' = [written EXCEPT ![to] = Append(@, m)]
      /\ outbox \in [Ids -> Seq(Messages)] /\ written \in [Ids -> Seq(Messages)]
      /\ delivered \in [Ids -> Seq(Messages)]
      /\ UNCHANGED <<consumer, sends, delivered>>
  BY DEF PlaceInv, MapInv, TypeOK, Write
<1>3. /\ pc'[t] = "idle"
      /\ \A u \in Callers \ {t} : pc'[u] = pc[u] /\ job'[u] = job[u]
  BY DEF PlaceInv, MapInv, TypeOK, Write, Goes
<1>4. /\ \A id \in Ids : \A n \in In(written[id]) : n.send # m.send
      /\ \A u \in Callers \ {t} : Sending(u) => m.send # job[u].message.send
  BY <1>1 DEF PlaceInv, SendsDiffer
<1>5. /\ In(outbox[to])' = In(outbox[to]) \cup {m} /\ In(written[to])' = In(written[to]) \cup {m}
      /\ Len(outbox'[to]) = Len(outbox[to]) + 1 /\ Len(written'[to]) = Len(written[to]) + 1
      /\ Len(outbox[to]) \in Nat /\ Len(written[to]) \in Nat
  <2>1. outbox'[to] = Append(outbox[to], m) /\ written'[to] = Append(written[to], m)
    BY <1>1, <1>2
  <2>2. In(outbox[to])' = In(Append(outbox[to], m)) /\ In(written[to])' = In(Append(written[to], m))
    BY <2>1 DEF In
  <2>3. outbox[to] \in Seq(Messages) /\ written[to] \in Seq(Messages) /\ m \in Messages
    BY <1>1, <1>2
  <2>4. /\ In(outbox[to])' = In(outbox[to]) \cup {m} /\ Len(outbox'[to]) = Len(outbox[to]) + 1
        /\ Len(outbox[to]) \in Nat
    BY <2>1, <2>2, <2>3, InAppend
  <2>5. /\ In(written[to])' = In(written[to]) \cup {m} /\ Len(written'[to]) = Len(written[to]) + 1
        /\ Len(written[to]) \in Nat
    BY <2>1, <2>2, <2>3, InAppend
  <2> QED
    BY <2>4, <2>5
<1>6. \A id \in Ids \ {to} : outbox'[id] = outbox[id] /\ written'[id] = written[id]
  BY <1>2
<1>7. SendsDiffer'
  <2>1. \A u \in Callers : Sending(u)' => u # t /\ Sending(u) /\ job'[u] = job[u]
    BY <1>3 DEF Sending
  <2>2. \A id \in Ids : \A n \in In(written[id])' : n \in In(written[id]) \/ n = m
    <3>1. \A id \in Ids \ {to} : In(written[id])' = In(written[id])
      BY <1>6 DEF In
    <3>2. \A n \in In(written[to])' : n \in In(written[to]) \/ n = m
      BY <1>5
    <3> QED
      BY <3>1, <3>2
  <2>3. /\ \A u \in Callers : Sending(u)' => job'[u].message.send <= sends'
        /\ \A u, v \in Callers :
              Sending(u)' /\ Sending(v)' /\ u # v => job'[u].message.send # job'[v].message.send
    BY <1>2, <2>1 DEF PlaceInv, SendsDiffer
  <2>4. ASSUME NEW id \in Ids, NEW n \in In(written[id])'
        PROVE  n.send <= sends' /\ \A u \in Callers : Sending(u)' => n.send # job'[u].message.send
    <3>1. CASE n \in In(written[id])
      BY <1>2, <2>1, <3>1 DEF PlaceInv, SendsDiffer
    <3>2. CASE n = m
      BY <1>1, <1>2, <1>4, <2>1, <3>2
    <3> QED
      BY <2>2, <3>1, <3>2
  <2> QED
    BY <2>3, <2>4 DEF SendsDiffer
<1>8. ASSUME NEW id \in Ids
      PROVE  Placed(id)'
  <2>0. Placed(id)
    BY AllPlaced DEF PlaceInv
  <2>1. /\ Holding(id)' = Holding(id) /\ InHands(id)' = InHands(id)
        /\ \A l \in Holding(id) : consumer'[id][l].message = consumer[id][l].message
    BY <1>2 DEF Holding, InHands
  <2>2. CASE id # to
    BY <1>2, <1>6, <2>0, <2>1, <2>2, StaysPlaced
  <2>3. CASE id = to
    <3>1. m \notin In(written[to])
      BY <1>1, <1>4
    <3>2. m \notin In(outbox[to]) /\ m \notin InHands(to)
      BY <2>0, <2>3, <3>1 DEF Placed
    <3>3. \A i, j \in DOMAIN outbox'[to] : i # j => outbox'[to][i] # outbox'[to][j]
      <4>1. outbox'[to] = Append(outbox[to], m)
        BY <1>1, <1>2
      <4>2. \A i, j \in DOMAIN outbox[to] : i # j => outbox[to][i] # outbox[to][j]
        BY <2>0, <2>3 DEF Placed
      <4>3. outbox[to] \in Seq(Messages) /\ m \in Messages
        BY <1>1, <1>2
      <4>4. \A i, j \in DOMAIN Append(outbox[to], m) :
              i # j => Append(outbox[to], m)[i] # Append(outbox[to], m)[j]
        BY <3>2, <4>2, <4>3, InAppend
      <4>5. \A seq : seq = Append(outbox[to], m) =>
              \A i, j \in DOMAIN seq : i # j => seq[i] # seq[j]
        BY <4>4, Zenon
      <4> QED
        BY <4>1, <4>5, Zenon
    <3>4. \A k, l \in Holding(to)' : k # l => consumer'[to][k].message # consumer'[to][l].message
      BY <2>0, <2>1, <2>3 DEF Placed
    <3>5. In(delivered[to])' = In(delivered[to]) /\ Len(delivered'[to]) = Len(delivered[to])
          /\ Len(delivered[to]) \in Nat
      BY <1>1, <1>2 DEF In
    <3>6. /\ In(outbox[to])' \cap InHands(to)' = {}
          /\ IsFiniteSet(InHands(to)')
          /\ In(written[to])' = In(outbox[to])' \cup InHands(to)' \cup In(delivered[to])'
      BY <1>5, <2>0, <2>1, <2>3, <3>2, <3>5 DEF Placed
    <3>7. Len(written'[to]) = Len(outbox'[to]) + Cardinality(InHands(to)') + Len(delivered'[to])
      <4>1. /\ Cardinality(InHands(to)) \in Nat
            /\ Len(written[to]) = Len(outbox[to]) + Cardinality(InHands(to)) + Len(delivered[to])
        <5>1. IsFiniteSet(InHands(to))
          BY <2>0, <2>3 DEF Placed
        <5>2. Cardinality(InHands(to)) \in Nat
          BY <5>1, FS_CardinalityType
        <5> QED
          BY <2>0, <2>3, <5>2 DEF Placed
      <4>2. Cardinality(InHands(to)') = Cardinality(InHands(to))
        BY <2>1, <2>3
      <4>3. /\ Len(outbox'[to]) = Len(outbox[to]) + 1 /\ Len(written'[to]) = Len(written[to]) + 1
            /\ Len(outbox[to]) \in Nat
        BY <1>5
      <4>4. Len(delivered'[to]) = Len(delivered[to]) /\ Len(delivered[to]) \in Nat
        BY <3>5
      <4> HIDE DEF InHands, Holding
      <4>5. Len(written'[to]) = Len(outbox[to]) + Cardinality(InHands(to)) + Len(delivered[to]) + 1
        BY <4>1, <4>3
      <4>6. Len(outbox'[to]) + Cardinality(InHands(to)') + Len(delivered'[to])
              = (Len(outbox[to]) + 1) + Cardinality(InHands(to)) + Len(delivered[to])
        BY <4>2, <4>3, <4>4
      <4>7. Len(outbox[to]) + Cardinality(InHands(to)) + Len(delivered[to]) + 1
              = (Len(outbox[to]) + 1) + Cardinality(InHands(to)) + Len(delivered[to])
        <5> DEFINE o == Len(outbox[to])
                   c == Cardinality(InHands(to))
                   d == Len(delivered[to])
        <5>1. o \in Nat /\ c \in Nat /\ d \in Nat
          BY <4>1, <4>3, <4>4
        <5> HIDE DEF o, c, d
        <5>2. o + c + d + 1 = (o + 1) + c + d
          BY <5>1
        <5> QED
          BY <5>2 DEF o, c, d
      <4> QED
        BY <4>5, <4>6, <4>7, Zenon
    <3> QED
      BY <2>3, <3>3, <3>4, <3>6, <3>7 DEF Placed
  <2> QED
    BY <2>2, <2>3
<1> QED
  BY <1>7, <1>8, AllStayPlaced

\* The oldest message comes from the channel into a consumer's hands.
LEMMA TakePlaces ==
  ASSUME PlaceInv, NEW id \in Ids, NEW k \in 1..Len(consumer[id]), Take(id, k)
  PROVE  SendsDiffer' /\ OnePlace' /\ EachMessageOnce'
<1> SUFFICES ASSUME NEW m, m = Head(outbox[id])
             PROVE  SendsDiffer' /\ OnePlace' /\ EachMessageOnce'
  OBVIOUS
<1>1. SendsDiffer'
  BY SendsStay DEF PlaceInv, Take, Sending
<1>2. /\ outbox \in [Ids -> Seq(Messages)] /\ outbox[id] \in Seq(Messages) /\ outbox[id] # <<>>
      /\ outbox'[id] = Tail(outbox[id]) /\ delivered[id] \in Seq(Messages)
      /\ \A i \in Ids \ {id} : outbox'[i] = outbox[i]
      /\ UNCHANGED <<written, delivered>>
  BY DEF PlaceInv, MapInv, TypeOK, Take
<1>3. /\ \A i \in Ids : Len(consumer'[i]) = Len(consumer[i])
      /\ \A i \in Ids : \A l \in 1..Len(consumer[i]) :
            /\ i # id \/ l # k => consumer'[i][l] = consumer[i][l]
            /\ i = id /\ l = k => consumer'[i][l].pc = "holding" /\ consumer'[i][l].message = m
  BY TakeStates DEF PlaceInv
<1>4. \A i \in Ids : Placed(i)
  BY AllPlaced DEF PlaceInv
<1>5. ASSUME NEW i \in Ids \ {id}
      PROVE  Placed(i)'
  <2>1. \A l \in 1..Len(consumer[i]) : consumer'[i][l] = consumer[i][l]
    BY <1>3
  <2>2. Holding(i)' = Holding(i)
    BY <1>3, <2>1 DEF Holding
  <2>3. \A l \in Holding(i) : consumer'[i][l].message = consumer[i][l].message
    BY <2>1 DEF Holding
  <2> QED
    BY <1>2, <1>4, <2>2, <2>3, StaysPlaced
<1>6. Placed(id)'
  <2>1. /\ \A i, j \in DOMAIN outbox'[id] : i # j => outbox'[id][i] # outbox'[id][j]
        /\ m \notin In(outbox[id])'
        /\ In(outbox[id]) = {m} \cup In(outbox[id])'
        /\ Len(outbox'[id]) = Len(outbox[id]) - 1 /\ Len(outbox[id]) \in Nat
    <3>1. \A i, j \in DOMAIN outbox[id] : i # j => outbox[id][i] # outbox[id][j]
      BY <1>4 DEF Placed
    <3>2. /\ In(outbox[id]) = {m} \cup In(Tail(outbox[id]))
          /\ Len(Tail(outbox[id])) = Len(outbox[id]) - 1 /\ Len(outbox[id]) \in Nat \ {0}
          /\ m \notin In(Tail(outbox[id]))
          /\ \A i, j \in DOMAIN Tail(outbox[id]) :
                i # j => Tail(outbox[id])[i] # Tail(outbox[id])[j]
      BY <1>2, <3>1, InTail
    <3>3. In(outbox[id])' = In(Tail(outbox[id]))
      BY <1>2 DEF In
    <3> QED
      BY <1>2, <3>2, <3>3
  <2>2. k \notin Holding(id) /\ Holding(id)' = Holding(id) \cup {k}
    <3>1. consumer[id][k].pc # "holding"
      BY DEF Take
    <3>2. \A l \in 1..Len(consumer[id]) : l # k => consumer'[id][l] = consumer[id][l]
      BY <1>3
    <3>3. Len(consumer'[id]) = Len(consumer[id]) /\ consumer'[id][k].pc = "holding"
      BY <1>3
    <3> QED
      BY <3>1, <3>2, <3>3 DEF Holding
  <2>3. /\ \A l \in Holding(id) : consumer'[id][l].message = consumer[id][l].message
        /\ consumer'[id][k].message = m
    <3>1. \A l \in Holding(id) : l \in 1..Len(consumer[id]) /\ l # k
      BY <2>2 DEF Holding
    <3> QED
      BY <1>3, <3>1
  <2>4. InHands(id)' = InHands(id) \cup {m}
    <3>1. InHands(id)' = {consumer'[id][l].message : l \in Holding(id)'}
      BY DEF InHands
    <3> QED
      BY <2>2, <2>3, <3>1 DEF InHands
  <2>5. m \notin InHands(id) /\ IsFiniteSet(InHands(id))
    BY <1>4, <2>1 DEF Placed
  <2>6. /\ IsFiniteSet(InHands(id)')
        /\ Cardinality(InHands(id)') = Cardinality(InHands(id)) + 1
        /\ Cardinality(InHands(id)) \in Nat
    BY <2>4, <2>5, FS_AddElement, FS_CardinalityType
  <2>7. ASSUME NEW j \in Holding(id)', NEW l \in Holding(id)', j # l
        PROVE  consumer'[id][j].message # consumer'[id][l].message
    <3>1. \A n \in Holding(id) : consumer[id][n].message # m
      BY <2>5 DEF InHands
    <3>2. CASE j \in Holding(id) /\ l \in Holding(id)
      BY <1>4, <2>3, <2>7, <3>2 DEF Placed
    <3>3. CASE j = k \/ l = k
      BY <2>2, <2>3, <2>7, <3>1, <3>3
    <3> QED
      BY <2>2, <3>2, <3>3
  <2>8. /\ In(written[id])' = In(written[id]) /\ In(delivered[id])' = In(delivered[id])
        /\ Len(delivered[id]) \in Nat
    BY <1>2 DEF In
  <2>9. /\ In(outbox[id])' \cap InHands(id)' = {}
        /\ In(written[id])' = In(outbox[id])' \cup InHands(id)' \cup In(delivered[id])'
    BY <1>4, <2>1, <2>4, <2>8 DEF Placed
  <2>10. Len(written'[id]) = Len(outbox'[id]) + Cardinality(InHands(id)') + Len(delivered'[id])
    <3>1. Len(written[id]) = Len(outbox[id]) + Cardinality(InHands(id)) + Len(delivered[id])
      BY <1>4 DEF Placed
    <3> QED
      BY <1>2, <2>1, <2>6, <2>8, <3>1
  <2> QED
    BY <2>1, <2>6, <2>7, <2>9, <2>10 DEF Placed
<1> QED
  BY <1>1, <1>5, <1>6, AllStayPlaced

\* A message goes from a consumer's hands to the subscriber.
LEMMA CallPlaces ==
  ASSUME PlaceInv, NEW id \in Ids, NEW k \in 1..Len(consumer[id]), Call(id, k)
  PROVE  SendsDiffer' /\ OnePlace' /\ EachMessageOnce'
<1> SUFFICES ASSUME NEW m, m = consumer[id][k].message
             PROVE  SendsDiffer' /\ OnePlace' /\ EachMessageOnce'
  OBVIOUS
<1>1. SendsDiffer'
  BY SendsStay DEF PlaceInv, Call, Sending
<1>2. /\ delivered \in [Ids -> Seq(Messages)] /\ delivered[id] \in Seq(Messages)
      /\ delivered'[id] = Append(delivered[id], m)
      /\ \A i \in Ids \ {id} : delivered'[i] = delivered[i]
      /\ outbox[id] \in Seq(Messages) /\ m \in Messages
      /\ UNCHANGED <<outbox, written>>
  BY DEF PlaceInv, MapInv, TypeOK, CallsPending, Call
<1>3. /\ \A i \in Ids : Len(consumer'[i]) = Len(consumer[i])
      /\ \A i \in Ids : \A l \in 1..Len(consumer[i]) :
            /\ i # id \/ l # k => consumer'[i][l] = consumer[i][l]
            /\ i = id /\ l = k => consumer'[i][l].pc = "calling"
  BY CallStates DEF PlaceInv
<1>4. \A i \in Ids : Placed(i)
  BY AllPlaced DEF PlaceInv
<1>5. ASSUME NEW i \in Ids \ {id}
      PROVE  Placed(i)'
  <2>1. \A l \in 1..Len(consumer[i]) : consumer'[i][l] = consumer[i][l]
    BY <1>3
  <2>2. Holding(i)' = Holding(i)
    BY <1>3, <2>1 DEF Holding
  <2>3. \A l \in Holding(i) : consumer'[i][l].message = consumer[i][l].message
    BY <2>1 DEF Holding
  <2> QED
    BY <1>2, <1>4, <2>2, <2>3, StaysPlaced
<1>6. Placed(id)'
  <2>1. k \in Holding(id) /\ Holding(id)' = Holding(id) \ {k}
    <3>1. consumer[id][k].pc = "holding"
      BY DEF Call
    <3>2. \A l \in 1..Len(consumer[id]) : l # k => consumer'[id][l] = consumer[id][l]
      BY <1>3
    <3>3. Len(consumer'[id]) = Len(consumer[id]) /\ consumer'[id][k].pc = "calling"
      BY <1>3
    <3> QED
      BY <3>1, <3>2, <3>3 DEF Holding
  <2>2. \A l \in Holding(id)' : consumer'[id][l].message = consumer[id][l].message
    <3>1. \A l \in Holding(id)' : l \in 1..Len(consumer[id]) /\ l # k
      BY <2>1 DEF Holding
    <3> QED
      BY <1>3, <3>1
  <2>3. m \in InHands(id) /\ InHands(id)' = InHands(id) \ {m}
    <3>1. InHands(id)' = {consumer'[id][l].message : l \in Holding(id)'}
      BY DEF InHands
    <3>2. \A l \in Holding(id) \ {k} : consumer[id][l].message # m
      BY <1>4, <2>1 DEF Placed
    <3> QED
      BY <2>1, <2>2, <3>1, <3>2 DEF InHands
  <2>4. /\ IsFiniteSet(InHands(id)')
        /\ Cardinality(InHands(id)') = Cardinality(InHands(id)) - 1
        /\ Cardinality(InHands(id)) \in Nat
    <3>1. IsFiniteSet(InHands(id))
      BY <1>4 DEF Placed
    <3>2. /\ IsFiniteSet(InHands(id) \ {m})
          /\ Cardinality(InHands(id) \ {m}) =
                IF m \in InHands(id) THEN Cardinality(InHands(id)) - 1
                                   ELSE Cardinality(InHands(id))
      <4> HIDE DEF InHands
      <4> QED
        BY <3>1, FS_RemoveElement
    <3>3. Cardinality(InHands(id)) \in Nat
      BY <3>1, FS_CardinalityType
    <3> QED
      BY <2>3, <3>2, <3>3
  <2>5. ASSUME NEW j \in Holding(id)', NEW l \in Holding(id)', j # l
        PROVE  consumer'[id][j].message # consumer'[id][l].message
    <3>1. j \in Holding(id) /\ l \in Holding(id)
      BY <2>1
    <3>2. consumer[id][j].message # consumer[id][l].message
      BY <1>4, <2>5, <3>1 DEF Placed
    <3> QED
      BY <2>2, <3>2
  <2>6. /\ In(written[id])' = In(written[id]) /\ In(outbox[id])' = In(outbox[id])
        /\ \A i, j \in DOMAIN outbox'[id] : i # j => outbox'[id][i] # outbox'[id][j]
    BY <1>2, <1>4 DEF In, Placed
  <2>7. /\ In(delivered[id])' = In(delivered[id]) \cup {m}
        /\ Len(delivered'[id]) = Len(delivered[id]) + 1 /\ Len(delivered[id]) \in Nat
    <3>1. In(delivered[id])' = In(Append(delivered[id], m))
      BY <1>2 DEF In
    <3> QED
      BY <1>2, <3>1, InAppend
  <2>8. /\ In(outbox[id])' \cap InHands(id)' = {}
        /\ In(written[id])' = In(outbox[id])' \cup InHands(id)' \cup In(delivered[id])'
    BY <1>4, <2>3, <2>6, <2>7 DEF Placed
  <2>9. Len(written'[id]) = Len(outbox'[id]) + Cardinality(InHands(id)') + Len(delivered'[id])
    <3>1. /\ Len(written[id]) = Len(outbox[id]) + Cardinality(InHands(id)) + Len(delivered[id])
          /\ Len(outbox[id]) \in Nat
      BY <1>2, <1>4 DEF Placed
    <3> QED
      BY <1>2, <2>4, <2>7, <3>1
  <2> QED
    BY <2>4, <2>5, <2>6, <2>8, <2>9 DEF Placed
<1> QED
  BY <1>1, <1>5, <1>6, AllStayPlaced

\* A consumer that starts, or comes back from its call, holds nothing.
LEMMA SubscribePlaces ==
  ASSUME PlaceInv, NEW t \in Callers, Subscribe(t)
  PROVE  SendsDiffer' /\ OnePlace' /\ EachMessageOnce'
<1> SUFFICES ASSUME NEW id, id = connection[t]
             PROVE  SendsDiffer' /\ OnePlace' /\ EachMessageOnce'
  OBVIOUS
<1>1. SendsDiffer'
  BY SendsStay DEF PlaceInv, Subscribe, Sending
<1>2. id \in Ids /\ Idle \in Consumers
  BY ExchangeAssumption DEF PlaceInv, MapInv, TypeOK, Subscribe, Idle, Consumers
<1>3. /\ \A i \in Ids \ {id} : consumer'[i] = consumer[i]
      /\ Len(consumer'[id]) = Len(consumer[id]) + 1 /\ Len(consumer[id]) \in Nat
      /\ \A l \in 1..Len(consumer[id]) : consumer'[id][l] = consumer[id][l]
      /\ consumer'[id][Len(consumer[id]) + 1] = Idle
  BY <1>2, AddConsumer DEF PlaceInv, MapInv, TypeOK, Subscribe
<1>4. ASSUME NEW i \in Ids
      PROVE  Holding(i)' = Holding(i)
             /\ \A l \in Holding(i) : consumer'[i][l].message = consumer[i][l].message
  <2>1. CASE i # id
    BY <1>3, <2>1 DEF Holding
  <2>2. CASE i = id
    <3>1. consumer'[id][Len(consumer[id]) + 1].pc = "waiting"
      BY <1>3 DEF Idle
    <3>2. 1..Len(consumer'[id]) = 1..Len(consumer[id]) \cup {Len(consumer[id]) + 1}
      BY <1>3
    <3> QED
      BY <1>3, <2>2, <3>1, <3>2 DEF Holding
  <2> QED
    BY <2>1, <2>2
<1>5. ASSUME NEW i \in Ids
      PROVE  Placed(i)'
  <2>1. Placed(i)
    BY AllPlaced DEF PlaceInv
  <2>2. /\ outbox'[i] = outbox[i] /\ written'[i] = written[i] /\ delivered'[i] = delivered[i]
    BY DEF Subscribe
  <2> QED
    BY <1>4, <2>1, <2>2, StaysPlaced
<1> QED
  BY <1>1, <1>5, AllStayPlaced

LEMMA ReturnPlaces ==
  ASSUME PlaceInv, NEW id \in Ids, NEW k \in 1..Len(consumer[id]), Return(id, k)
  PROVE  SendsDiffer' /\ OnePlace' /\ EachMessageOnce'
<1>1. SendsDiffer'
  BY SendsStay DEF PlaceInv, Return, Sending
<1>2. /\ \A i \in Ids : Len(consumer'[i]) = Len(consumer[i])
      /\ \A i \in Ids : \A l \in 1..Len(consumer[i]) :
            /\ i # id \/ l # k => consumer'[i][l] = consumer[i][l]
            /\ i = id /\ l = k => consumer'[i][l].pc = "waiting"
  BY ReturnStates DEF PlaceInv
<1>3. consumer[id][k].pc = "calling"
  BY DEF Return
<1>4. ASSUME NEW i \in Ids
      PROVE  /\ Holding(i)' = Holding(i)
             /\ \A l \in Holding(i) : consumer'[i][l].message = consumer[i][l].message
  <2>1. \A l \in Holding(i) : l \in 1..Len(consumer[i]) /\ (i # id \/ l # k)
    BY <1>3 DEF Holding
  <2>2. \A l \in Holding(i) : consumer'[i][l] = consumer[i][l]
    BY <1>2, <2>1
  <2>3. \A l \in Holding(i)' : l \in 1..Len(consumer[i]) /\ (i # id \/ l # k)
    BY <1>2 DEF Holding
  <2>4. \A l \in Holding(i)' : consumer'[i][l] = consumer[i][l]
    BY <1>2, <2>3
  <2> QED
    BY <1>2, <2>1, <2>2, <2>3, <2>4 DEF Holding
<1>5. ASSUME NEW i \in Ids
      PROVE  Placed(i)'
  <2>1. Placed(i)
    BY AllPlaced DEF PlaceInv
  <2>2. /\ outbox'[i] = outbox[i] /\ written'[i] = written[i] /\ delivered'[i] = delivered[i]
    BY DEF Return
  <2> QED
    BY <1>4, <2>1, <2>2, StaysPlaced
<1> QED
  BY <1>1, <1>5, AllStayPlaced

LEMMA StallPlaces ==
  ASSUME PlaceInv, NEW id \in Ids, NEW k \in 1..Len(consumer[id]), Stall(id, k)
  PROVE  SendsDiffer' /\ OnePlace' /\ EachMessageOnce'
<1>1. SendsDiffer'
  BY SendsStay DEF PlaceInv, Stall, Sending
<1>2. /\ \A i \in Ids : Len(consumer'[i]) = Len(consumer[i])
      /\ \A i \in Ids : \A l \in 1..Len(consumer[i]) :
            /\ i # id \/ l # k => consumer'[i][l] = consumer[i][l]
            /\ i = id /\ l = k => consumer'[i][l].pc = "stalled"
  BY StallStates DEF PlaceInv
<1>3. consumer[id][k].pc = "calling"
  BY DEF Stall
<1>4. ASSUME NEW i \in Ids
      PROVE  /\ Holding(i)' = Holding(i)
             /\ \A l \in Holding(i) : consumer'[i][l].message = consumer[i][l].message
  <2>1. \A l \in Holding(i) : l \in 1..Len(consumer[i]) /\ (i # id \/ l # k)
    BY <1>3 DEF Holding
  <2>2. \A l \in Holding(i) : consumer'[i][l] = consumer[i][l]
    BY <1>2, <2>1
  <2>3. \A l \in Holding(i)' : l \in 1..Len(consumer[i]) /\ (i # id \/ l # k)
    BY <1>2 DEF Holding
  <2>4. \A l \in Holding(i)' : consumer'[i][l] = consumer[i][l]
    BY <1>2, <2>3
  <2> QED
    BY <1>2, <2>1, <2>2, <2>3, <2>4 DEF Holding
<1>5. ASSUME NEW i \in Ids
      PROVE  Placed(i)'
  <2>1. Placed(i)
    BY AllPlaced DEF PlaceInv
  <2>2. /\ outbox'[i] = outbox[i] /\ written'[i] = written[i] /\ delivered'[i] = delivered[i]
    BY DEF Stall
  <2> QED
    BY <1>4, <2>1, <2>2, StaysPlaced
<1> QED
  BY <1>1, <1>5, AllStayPlaced

\* A Send gets a number of its own.
LEMMA LookUpPlaces ==
  ASSUME PlaceInv, NEW t \in Callers, NEW to \in Ids, LookUp(t, to)
  PROVE  SendsDiffer' /\ OnePlace' /\ EachMessageOnce'
<1>1. /\ job'[t].message.send = sends + 1 /\ sends' = sends + 1 /\ written' = written
      /\ \A u \in Callers \ {t} : job'[u] = job[u] /\ pc'[u] = pc[u]
      /\ UNCHANGED boxVars
  BY DEF PlaceInv, MapInv, TypeOK, LookUp, Goes, boxVars
<1>2. \A u \in Callers \ {t} : Sending(u)' => Sending(u)
  BY <1>1 DEF Sending
<1>3. /\ sends \in Nat
      /\ \A u \in Callers : Sending(u) => job[u].message.send \in Nat
      /\ \A id \in Ids : \A m \in In(written[id]) : m.send \in Nat
  <2>1. \A m \in Messages : m.send \in Nat
    BY ExchangeAssumption DEF Messages
  <2>2. \A id \in Ids : In(written[id]) \subseteq Messages
    BY DEF PlaceInv, MapInv, TypeOK, In
  <2>3. sends \in Nat
    BY ExchangeAssumption DEF PlaceInv, MapInv, TypeOK
  <2> QED
    BY <2>1, <2>2, <2>3 DEF PlaceInv, MapInv, CallsPending, Sending
<1>4. /\ \A u \in Callers : Sending(u) => job[u].message.send <= sends
      /\ \A id \in Ids : \A m \in In(written[id]) : m.send <= sends
  BY DEF PlaceInv, SendsDiffer
<1>5. /\ \A u \in Callers : Sending(u)' => job'[u].message.send <= sends'
      /\ \A u, v \in Callers :
            Sending(u)' /\ Sending(v)' /\ u # v => job'[u].message.send # job'[v].message.send
  <2>1. \A u \in Callers \ {t} :
          Sending(u)' => job'[u].message.send \in Nat /\ job'[u].message.send <= sends
    BY <1>1, <1>2, <1>3, <1>4
  <2>2. \A u \in Callers \ {t} : Sending(u)' => job'[u].message.send # sends + 1
    BY <1>3, <2>1
  <2>3. \A u \in Callers : Sending(u)' => job'[u].message.send <= sends'
    BY <1>1, <1>3, <2>1
  <2>4. \A u, v \in Callers \ {t} :
          Sending(u)' /\ Sending(v)' /\ u # v => job'[u].message.send # job'[v].message.send
    BY <1>1, <1>2 DEF PlaceInv, SendsDiffer
  <2> QED
    BY <1>1, <2>2, <2>3, <2>4
<1>6. ASSUME NEW id \in Ids, NEW m \in In(written[id])'
      PROVE  m.send <= sends' /\ \A u \in Callers : Sending(u)' => m.send # job'[u].message.send
  <2>1. m \in In(written[id])
    BY <1>1 DEF In
  <2>2. m.send \in Nat /\ m.send <= sends
    BY <1>3, <1>4, <2>1
  <2>3. m.send <= sends' /\ m.send # sends + 1
    BY <1>1, <1>3, <2>2
  <2>4. \A u \in Callers \ {t} : Sending(u)' => m.send # job'[u].message.send
    BY <1>1, <1>2, <2>1 DEF PlaceInv, SendsDiffer
  <2> QED
    BY <1>1, <2>3, <2>4
<1> QED
  BY <1>1, <1>5, <1>6, BoxesStay DEF PlaceInv, SendsDiffer

\* The other steps write nothing and take nothing.
LEMMA OthersPlace ==
  ASSUME PlaceInv, [Next]_vars,
         \A t \in Callers : ~Subscribe(t) /\ ~Write(t) /\ \A id \in Ids : ~LookUp(t, id),
         \A id \in Ids : ~Consume(id) /\ \A k \in 1..Len(consumer[id]) : ~Stall(id, k)
  PROVE  SendsDiffer' /\ OnePlace' /\ EachMessageOnce'
<1>1. ASSUME UNCHANGED boxVars, UNCHANGED <<sends>>,
             \A t \in Callers : Sending(t)' => /\ Sending(t)
                                              /\ job'[t].message.send = job[t].message.send
      PROVE  SendsDiffer' /\ OnePlace' /\ EachMessageOnce'
  BY <1>1, SendsStay, BoxesStay DEF PlaceInv, boxVars
<1>2. ASSUME NEW t \in Callers, LockToConnect(t) \/ \E id \in Ids : LockToReconnect(t, id)
      PROVE  SendsDiffer' /\ OnePlace' /\ EachMessageOnce'
  <2>1. UNCHANGED boxVars /\ UNCHANGED <<sends>>
    BY <1>2 DEF LockToConnect, LockToReconnect
  <2>2. /\ pc'[t] \in {"numbering", "rejoining"}
        /\ \A u \in Callers \ {t} : pc'[u] = pc[u] /\ job'[u] = job[u]
    BY <1>2 DEF PlaceInv, MapInv, TypeOK, LockToConnect, LockToReconnect, Goes
  <2> QED
    BY <1>1, <2>1, <2>2 DEF Sending
<1>3. ASSUME NEW t \in Callers, Insert(t) \/ Reconnect(t) \/ NoSender(t)
      PROVE  SendsDiffer' /\ OnePlace' /\ EachMessageOnce'
  <2>1. UNCHANGED boxVars /\ UNCHANGED <<sends>>
    BY <1>3 DEF Insert, Reconnect, NoSender
  <2>2. /\ pc'[t] = "idle"
        /\ \A u \in Callers \ {t} : pc'[u] = pc[u] /\ job'[u] = job[u]
    BY <1>3 DEF PlaceInv, MapInv, TypeOK, Insert, Reconnect, NoSender, Goes
  <2> QED
    BY <1>1, <2>1, <2>2 DEF Sending
<1>4. ASSUME NEW t \in Callers, SendToOther(t) \/ SendToSelf(t) \/ NoDestination(t)
      PROVE  SendsDiffer' /\ OnePlace' /\ EachMessageOnce'
  <2>1. UNCHANGED boxVars /\ UNCHANGED <<sends>>
    BY <1>4 DEF SendToOther, SendToSelf, NoDestination, WillWrite
  <2>2. /\ pc[t] = "looking"
        /\ \A u \in Callers \ {t} : pc'[u] = pc[u] /\ job'[u] = job[u]
    BY <1>4 DEF PlaceInv, MapInv, TypeOK, SendToOther, SendToSelf, NoDestination, WillWrite, Goes
  <2>3. job'[t].message \in {job[t].message, BySystem(t)}
    BY <1>4 DEF PlaceInv, MapInv, TypeOK, SendToOther, SendToSelf, NoDestination, WillWrite
  <2>4. BySystem(t).send = job[t].message.send
    <3>1. job[t].message \in Messages
      BY <2>2 DEF PlaceInv, MapInv, CallsPending
    <3> QED
      BY <3>1 DEF BySystem, Messages
  <2> QED
    BY <1>1, <2>1, <2>2, <2>3, <2>4 DEF Sending
<1>5. ASSUME NEW t \in Callers, NextId(t)
      PROVE  SendsDiffer' /\ OnePlace' /\ EachMessageOnce'
  <2>1. outbox' = outbox
    BY <1>5 DEF PlaceInv, MapInv, TypeOK, IdsInTurn, NextId, Goes
  <2>2. UNCHANGED boxVars /\ UNCHANGED <<sends, job>>
    BY <1>5, <2>1 DEF NextId, boxVars
  <2>3. pc'[t] = "inserting" /\ \A u \in Callers \ {t} : pc'[u] = pc[u]
    BY <1>5 DEF PlaceInv, MapInv, TypeOK, NextId, Goes
  <2> QED
    BY <1>1, <2>2, <2>3 DEF Sending
<1>6. CASE DetectRace \/ UNCHANGED vars
  BY <1>1, <1>6 DEF DetectRace, vars, boxVars, Sending
<1> QED
  BY <1>2, <1>3, <1>4, <1>5, <1>6 DEF Next, Proceed

LEMMA PlaceStep == PlaceInv /\ [Next]_vars => PlaceInv'
<1> SUFFICES ASSUME PlaceInv, [Next]_vars
             PROVE  PlaceInv'
  OBVIOUS
<1>1. MapInv'
  BY StepKeeps DEF PlaceInv
<1>2. ASSUME NEW id \in Ids, Consume(id)
      PROVE  SendsDiffer' /\ OnePlace' /\ EachMessageOnce'
  BY <1>2, TakePlaces, CallPlaces, ReturnPlaces DEF Consume
<1>3. SendsDiffer' /\ OnePlace' /\ EachMessageOnce'
  BY <1>2, StallPlaces, SubscribePlaces, WritePlaces, LookUpPlaces, OthersPlace
<1> QED
  BY <1>1, <1>3 DEF PlaceInv

LEMMA PlaceInit == Init => PlaceInv
<1> SUFFICES ASSUME Init
             PROVE  PlaceInv
  OBVIOUS
<1>1. MapInv
  BY InitHolds
<1>2. ASSUME NEW id \in Ids
      PROVE  /\ outbox[id] = <<>> /\ written[id] = <<>> /\ delivered[id] = <<>>
             /\ Holding(id) = {} /\ InHands(id) = {}
  <2>1. outbox[id] = <<>> /\ written[id] = <<>> /\ delivered[id] = <<>> /\ Len(consumer[id]) = 0
    BY DEF Init
  <2> QED
    BY <2>1 DEF Holding, InHands
<1>3. In(<<>>) = {} /\ Len(<<>>) = 0 /\ DOMAIN <<>> = {}
  BY DEF In
<1>4. SendsDiffer
  BY <1>2, <1>3 DEF Init, SendsDiffer, Sending
<1>5. ASSUME NEW id \in Ids
      PROVE  Placed(id)
  <2>1. IsFiniteSet({}) /\ Cardinality({}) = 0
    BY FS_EmptySet
  <2>2. In(outbox[id]) = {} /\ In(written[id]) = {} /\ In(delivered[id]) = {}
    BY <1>2, <1>3
  <2>3. \A i, j \in DOMAIN outbox[id] : i # j => outbox[id][i] # outbox[id][j]
    BY <1>2, <1>3
  <2>4. Len(written[id]) = Len(outbox[id]) + Cardinality(InHands(id)) + Len(delivered[id])
    <3>1. /\ Len(written[id]) = 0 /\ Len(outbox[id]) = 0 /\ Len(delivered[id]) = 0
          /\ Cardinality(InHands(id)) = 0
      BY <1>2, <1>3, <2>1
    <3> QED
      BY <3>1
  <2> QED
    BY <1>2, <2>1, <2>2, <2>3, <2>4 DEF Placed
<1> QED
  BY <1>1, <1>4, <1>5, AllPlaced DEF PlaceInv

(***************************************************************************)
(* However many Sends, consumers and Subscribes an outbox sees, races on   *)
(* the map included, a message written to it is in the channel, in one     *)
(* consumer's hands, or delivered, once.                                   *)
(***************************************************************************)
THEOREM MessagesOnce == Spec => []EachMessageOnce
<1>1. PlaceInv => EachMessageOnce
  BY DEF PlaceInv
<1> QED
  BY <1>1, PlaceInit, PlaceStep, PTL DEF Spec

-----------------------------------------------------------------------------
(* With one Subscribe per connection, messages are delivered in order. *)

\* What was delivered, and what is still in the mailbox, is what was written.
InOrder ==
    \A id \in Ids :
        written[id] \in Seq(Messages) /\ written[id] = delivered[id] \o (Held(id) \o outbox[id])

\* Moving an element from the one sequence to the other.
LEMMA HeadMoves ==
  ASSUME NEW S, NEW d \in Seq(S), NEW q \in Seq(S), q # <<>>
  PROVE  Append(d, Head(q)) \o Tail(q) = d \o q
<1>1. Head(q) \in S /\ Tail(q) \in Seq(S)
  BY HeadTailProperties
<1>2. <<Head(q)>> \in Seq(S)
  BY <1>1
<1>3. Append(d, Head(q)) = d \o <<Head(q)>>
  BY <1>1, AppendIsConcat
<1>4. (d \o <<Head(q)>>) \o Tail(q) = d \o (<<Head(q)>> \o Tail(q))
  BY <1>1, <1>2, ConcatAssociative
<1> QED
  BY <1>3, <1>4, HeadBeforeTail

\* A step that delivers nothing and writes nothing, or changes no mailbox.
LEMMA InOrderStays ==
  ASSUME InOrder, UNCHANGED written, UNCHANGED M!mailboxVars
  PROVE  InOrder'
<1>1. /\ delivered' = delivered
      /\ [id \in Ids |-> Held(id) \o outbox[id]]' = [id \in Ids |-> Held(id) \o outbox[id]]
  BY DEF M!mailboxVars
<1>2. ASSUME NEW id \in Ids
      PROVE  (Held(id) \o outbox[id])' = Held(id) \o outbox[id]
  <2>1. [i \in Ids |-> Held(i) \o outbox[i]]'[id] = (Held(id) \o outbox[id])'
    OBVIOUS
  <2> QED
    BY <1>1, <2>1
<1> QED
  BY <1>1, <1>2 DEF InOrder

\* A message that is written comes last.
LEMMA WriteInOrder ==
  ASSUME MapInv, MaxSubscribes <= 1, InOrder, NEW t \in Callers, Write(t)
  PROVE  InOrder'
<1> SUFFICES ASSUME NEW id, id = job[t].id, NEW m, m = job[t].message
             PROVE  InOrder'
  OBVIOUS
<1>1. id \in Ids /\ m \in Messages
  BY DEF MapInv, CallsPending, Write, Goes
<1>2. /\ outbox' = [outbox EXCEPT ![id] = Append(@, m)]
      /\ written' = [written EXCEPT ![id] = Append(@, m)]
      /\ delivered' = delivered
      /\ \A i \in Ids : Held(i)' = Held(i)
  BY DEF Write, Held
<1>3. \A i \in Ids : /\ outbox[i] \in Seq(Messages) /\ delivered[i] \in Seq(Messages)
                     /\ Held(i) \in Seq(Messages) /\ written[i] \in Seq(Messages)
  BY OneConsumer DEF InOrder
<1>4. outbox \in [Ids -> Seq(Messages)] /\ written \in [Ids -> Seq(Messages)]
  BY DEF MapInv, TypeOK
<1>5. ASSUME NEW i \in Ids \ {id}
      PROVE  /\ written'[i] \in Seq(Messages)
             /\ written'[i] = delivered'[i] \o (Held(i)' \o outbox'[i])
  BY <1>1, <1>2, <1>3, <1>4 DEF InOrder
<1>6. /\ written'[id] = Append(written[id], m) /\ written'[id] \in Seq(Messages)
      /\ outbox'[id] = Append(outbox[id], m)
  <2>1. written'[id] = Append(written[id], m) /\ outbox'[id] = Append(outbox[id], m)
    BY <1>1, <1>2, <1>4
  <2>2. written[id] \in Seq(Messages)
    BY <1>1, <1>3
  <2>3. Append(written[id], m) \in Seq(Messages)
    BY <1>1, <2>2, AppendProperties
  <2> QED
    BY <2>1, <2>3
<1>7. delivered[id] \o (Held(id) \o Append(outbox[id], m))
        = Append(delivered[id] \o (Held(id) \o outbox[id]), m)
  <2> DEFINE d == delivered[id]
             h == Held(id)
             o == outbox[id]
  <2>1. d \in Seq(Messages) /\ h \in Seq(Messages) /\ o \in Seq(Messages)
    BY <1>1, <1>3
  <2> HIDE DEF d, h, o
  <2>2. h \o Append(o, m) = Append(h \o o, m)
    BY <1>1, <2>1, ConcatAppend
  <2>3. h \o o \in Seq(Messages)
    BY <2>1, ConcatProperties
  <2>4. d \o Append(h \o o, m) = Append(d \o (h \o o), m)
    BY <1>1, <2>1, <2>3, ConcatAppend
  <2>5. d \o (h \o Append(o, m)) = Append(d \o (h \o o), m)
    BY <2>2, <2>4
  <2> QED
    BY <2>5, Zenon DEF d, h, o
<1>8. written'[id] = delivered'[id] \o (Held(id)' \o outbox'[id])
  <2>1. written[id] = delivered[id] \o (Held(id) \o outbox[id])
    BY <1>1 DEF InOrder
  <2>2. delivered'[id] = delivered[id] /\ Held(id)' = Held(id)
    BY <1>1, <1>2
  <2> HIDE DEF Held
  <2>3. delivered'[id] \o (Held(id)' \o outbox'[id]) = delivered[id] \o (Held(id) \o Append(outbox[id], m))
    BY <1>6, <2>2
  <2> QED
    BY <1>6, <1>7, <2>1, <2>3, Zenon
<1> HIDE DEF Held
<1> QED
  BY <1>5, <1>6, <1>8 DEF InOrder

\* The message that is delivered is the oldest one.
LEMMA CallInOrder ==
  ASSUME MapInv, MaxSubscribes <= 1, InOrder,
         NEW id \in Ids, NEW k \in 1..Len(consumer[id]), Call(id, k)
  PROVE  InOrder'
<1> DEFINE box(i) == Held(i) \o outbox[i]
           boxes == [i \in Ids |-> box(i)]
<1>1. M!Deliver(id)
  BY CallDelivers
<1>2. /\ boxes[id] # <<>>
      /\ boxes' = [boxes EXCEPT ![id] = Tail(@)]
      /\ delivered' = [delivered EXCEPT ![id] = Append(@, Head(boxes[id]))]
  BY <1>1 DEF M!Deliver
<1>3. written' = written
  BY DEF Call
<1>4. \A i \in Ids : /\ delivered[i] \in Seq(Messages) /\ box(i) \in Seq(Messages)
  BY OneConsumer, ConcatProperties
<1>5. delivered \in [Ids -> Seq(Messages)]
  BY DEF MapInv, TypeOK
<1>6. \A i \in Ids : boxes[i] = box(i) /\ boxes'[i] = box(i)'
  OBVIOUS
<1>7. \A i \in Ids : written[i] \in Seq(Messages) /\ written[i] = delivered[i] \o box(i)
  BY DEF InOrder
<1> HIDE DEF boxes
<1>8. DOMAIN boxes = Ids
  BY DEF boxes
<1> HIDE DEF box
<1>9. ASSUME NEW i \in Ids \ {id}
      PROVE  written'[i] = delivered'[i] \o box(i)'
  BY <1>2, <1>3, <1>5, <1>6, <1>7, <1>8
<1>10. written'[id] = delivered'[id] \o box(id)'
  <2>1. box(id)' = Tail(box(id)) /\ delivered'[id] = Append(delivered[id], Head(box(id)))
    BY <1>2, <1>5, <1>6, <1>8
  <2>2. Append(delivered[id], Head(box(id))) \o Tail(box(id)) = delivered[id] \o box(id)
    BY <1>2, <1>4, <1>6, HeadMoves
  <2> QED
    BY <1>3, <1>7, <2>1, <2>2
<1>11. \A i \in Ids : written'[i] \in Seq(Messages) /\ written'[i] = delivered'[i] \o box(i)'
  BY <1>3, <1>7, <1>9, <1>10
<1> QED
  BY <1>11 DEF InOrder, box

\* The other steps change neither what was written nor any mailbox.
LEMMA InOrderStep == MaxSubscribes <= 1 /\ MapInv /\ InOrder /\ [Next]_vars => InOrder'
<1> SUFFICES ASSUME MaxSubscribes <= 1, MapInv, InOrder, [Next]_vars
             PROVE  InOrder'
  OBVIOUS
<1>1. ASSUME NEW id \in Ids, Consume(id)
      PROVE  InOrder'
  <2>1. ASSUME NEW k \in 1..Len(consumer[id]), Take(id, k)
        PROVE  InOrder'
    BY <2>1, TakeStutters, InOrderStays DEF Take
  <2>2. ASSUME NEW k \in 1..Len(consumer[id]), Return(id, k)
        PROVE  InOrder'
    BY <2>2, ReturnStutters, InOrderStays DEF Return
  <2> QED
    BY <1>1, <2>1, <2>2, CallInOrder DEF Consume
<1>2. ASSUME NEW t \in Callers, Subscribe(t)
      PROVE  InOrder'
  <2>1. M!Open(connection[t])
    BY <1>2, SubscribeOpens
  <2>2. /\ delivered' = delivered /\ written' = written
        /\ [id \in Ids |-> Held(id) \o outbox[id]]' = [id \in Ids |-> Held(id) \o outbox[id]]
    BY <1>2, <2>1 DEF M!Open, Subscribe
  <2>3. ASSUME NEW i \in Ids
        PROVE  (Held(i) \o outbox[i])' = Held(i) \o outbox[i]
    <3>1. [j \in Ids |-> Held(j) \o outbox[j]]'[i] = (Held(i) \o outbox[i])'
      OBVIOUS
    <3> QED
      BY <2>2, <3>1
  <2> QED
    BY <2>2, <2>3 DEF InOrder
<1>3. ASSUME NEW t \in Callers, NextId(t)
      PROVE  InOrder'
  BY <1>3, NextIdStutters, InOrderStays DEF NextId
<1>4. ASSUME UNCHANGED <<boxVars, crashed>>
      PROVE  InOrder'
  <2>1. UNCHANGED written
    BY <1>4 DEF boxVars
  <2> QED
    BY <1>4, <2>1, MailboxesStutter, InOrderStays
<1>5. ASSUME NEW t \in Callers,
             \/ LockToConnect(t) \/ Insert(t) \/ Reconnect(t)
             \/ SendToOther(t) \/ SendToSelf(t) \/ NoDestination(t) \/ NoSender(t)
             \/ \E id \in Ids : LockToReconnect(t, id) \/ LookUp(t, id)
      PROVE  UNCHANGED <<boxVars, crashed>>
  BY <1>5 DEF LockToConnect, Insert, Reconnect, SendToOther, SendToSelf, NoDestination, NoSender,
              WillWrite, LockToReconnect, LookUp, Goes
<1>6. ASSUME DetectRace
      PROVE  InOrder'
  BY <1>6 DEF DetectRace, boxVars, InOrder, Held
<1>7. ASSUME UNCHANGED vars
      PROVE  UNCHANGED <<boxVars, crashed>>
  BY <1>7 DEF vars, boxVars
<1>8. ASSUME NEW t \in Callers, Proceed(t)
      PROVE  InOrder'
  BY <1>3, <1>4, <1>5, <1>8, WriteInOrder DEF Proceed
<1>9. ASSUME NEW id \in Ids, NEW k \in 1..Len(consumer[id]), Stall(id, k)
      PROVE  InOrder'
  <2>1. /\ UNCHANGED <<delivered, written>>
        /\ \A i \in Ids : (Held(i) \o outbox[i])' = Held(i) \o outbox[i]
    BY <1>9, StallStalls
  <2> HIDE DEF Held
  <2> QED
    BY <2>1 DEF InOrder
<1> QED
  BY <1>1, <1>2, <1>4, <1>5, <1>6, <1>7, <1>8, <1>9 DEF Next

(***************************************************************************)
(* "expected message to subscriber two" (impl_test.go:201), for the        *)
(* program as it is: only a second Subscribe for one outbox, which         *)
(* cmd/server/main.go never makes, lets messages change places.            *)
(***************************************************************************)
THEOREM OneSubscriberReadsInOrder ==
  ASSUME MaxSubscribes <= 1
  PROVE  Spec => []DeliveredInOrder
<1>1. Init => InOrder
  <2> SUFFICES ASSUME Init, NEW id \in Ids
               PROVE  written[id] \in Seq(Messages) /\ written[id] = delivered[id] \o (Held(id) \o outbox[id])
    BY DEF InOrder
  <2>1. /\ written[id] = <<>> /\ delivered[id] = <<>> /\ outbox[id] = <<>> /\ Held(id) = <<>>
    BY DEF Init, Held
  <2>2. <<>> \in Seq(Messages) /\ <<>> \o <<>> = <<>>
    BY EmptySeq, ConcatEmptySeq
  <2> QED
    BY <2>1, <2>2
<1>2. MapInv /\ InOrder => DeliveredInOrder
  <2> SUFFICES ASSUME MapInv, InOrder, NEW id \in Ids
               PROVE  delivered[id] = SubSeq(written[id], 1, Len(delivered[id]))
    BY DEF DeliveredInOrder
  <2>1. /\ delivered[id] \in Seq(Messages) /\ Held(id) \o outbox[id] \in Seq(Messages)
    BY OneConsumer, ConcatProperties
  <2>2. \A d, q \in Seq(Messages) : d = SubSeq(d \o q, 1, Len(d))
    BY ConcatProperties, SubSeqProperties, SeqEqual
  <2> QED
    BY <2>1, <2>2 DEF InOrder
<1> QED
  BY <1>1, <1>2, InOrderStep, MapInvHolds, PTL DEF Spec

-----------------------------------------------------------------------------
(* The exchange blocks only at an outbox that nobody consumes any more. *)

\* Whoever holds connectionMutex is inside Connect or Reconnect, and goes on.
LockReleased ==
    /\ \A t \in Callers : lock = t => pc[t] \in {"numbering", "inserting"}
    /\ \A t \in readers : pc[t] = "rejoining"

LEMMA LockReleasedStep == MapInv /\ LockReleased /\ [Next]_vars => LockReleased'
<1> SUFFICES ASSUME MapInv, LockReleased, [Next]_vars
             PROVE  LockReleased'
  OBVIOUS
<1>1. pc \in [Callers -> {"idle", "numbering", "inserting", "rejoining", "looking", "writing"}]
  BY DEF MapInv, TypeOK
<1>2. ASSUME NEW t \in Callers, LockToConnect(t)
      PROVE  LockReleased'
  BY <1>1, <1>2 DEF LockReleased, LockToConnect, Goes
<1>3. ASSUME NEW t \in Callers, NEW id \in Ids, LockToReconnect(t, id)
      PROVE  LockReleased'
  BY <1>1, <1>3, ExchangeAssumption DEF LockReleased, LockToReconnect, Goes
<1>4. ASSUME NEW t \in Callers, NextId(t)
      PROVE  LockReleased'
  BY <1>1, <1>4 DEF LockReleased, NextId, Goes
<1>5. ASSUME NEW t \in Callers, Insert(t)
      PROVE  LockReleased'
  BY <1>1, <1>5, ExchangeAssumption DEF LockReleased, Insert, Goes
<1>6. ASSUME NEW t \in Callers, Reconnect(t)
      PROVE  LockReleased'
  BY <1>1, <1>6 DEF LockReleased, Reconnect, Goes
<1>7. ASSUME NEW t \in Callers,
             \/ SendToOther(t) \/ SendToSelf(t) \/ NoDestination(t) \/ NoSender(t) \/ Write(t)
             \/ \E id \in Ids : LookUp(t, id)
      PROVE  LockReleased'
  <2>1. UNCHANGED mapVars /\ pc[t] \in {"idle", "looking", "writing"}
    BY <1>7 DEF SendToOther, SendToSelf, NoDestination, NoSender, Write, WillWrite, LookUp, Goes
  <2>2. \A u \in Callers \ {t} : pc'[u] = pc[u]
    BY <1>1, <1>7 DEF SendToOther, SendToSelf, NoDestination, NoSender, Write, WillWrite, LookUp, Goes
  <2> QED
    BY <2>1, <2>2 DEF LockReleased, mapVars, MapInv, TypeOK
<1>8. ASSUME UNCHANGED <<mapVars, pc>>
      PROVE  LockReleased'
  BY <1>8 DEF LockReleased, mapVars
<1>9. ASSUME NEW id \in Ids, Consume(id) \/ \E k \in 1..Len(consumer[id]) : Stall(id, k)
      PROVE  UNCHANGED <<mapVars, pc>>
  BY <1>9 DEF Consume, Take, Call, Return, Stall
<1>10. ASSUME NEW t \in Callers, Subscribe(t)
       PROVE  UNCHANGED <<mapVars, pc>>
  BY <1>10 DEF Subscribe
<1>11. DetectRace \/ UNCHANGED vars => UNCHANGED <<mapVars, pc>>
  BY DEF DetectRace, vars
<1> QED
  BY <1>2, <1>3, <1>4, <1>5, <1>6, <1>7, <1>8, <1>9, <1>10, <1>11 DEF Next, Proceed

\* Consumers that cannot go on wait for an empty outbox, or for the call of
\* one that stalled.
LEMMA ConsumersDrain ==
  ASSUME MapInv, NEW id \in Ids, consumer[id] # <<>>, ~CanConsume(id), ~Stalled(id)
  PROVE  outbox[id] = <<>>
<1>1. consumer[id] \in Seq(Consumers) /\ 1 \in 1..Len(consumer[id])
  <2>1. consumer[id] \in Seq(Consumers)
    BY DEF MapInv, TypeOK
  <2>2. Len(consumer[id]) \in Nat \ {0}
    BY <2>1, EmptySeq
  <2> QED
    BY <2>1, <2>2
<1>2. \A k \in 1..Len(consumer[id]) : consumer[id][k].pc \in {"waiting", "holding", "calling", "stalled"}
  <2>1. \A k \in 1..Len(consumer[id]) : consumer[id][k] \in Consumers
    BY <1>1
  <2> QED
    BY <2>1 DEF Consumers
<1>3. Calling(id) = {}
  BY DEF CanConsume, Calling, Stalled
<1>4. consumer[id][1].pc = "waiting"
  BY <1>1, <1>2, <1>3 DEF CanConsume, Stalled
<1> QED
  BY <1>1, <1>4 DEF CanConsume

(***************************************************************************)
(* Whatever the callers do at the same time, only an outbox that is full   *)
(* and has no subscriber, or one that stalled, stops them for good, and    *)
(* connectionMutex is free.                                                *)
(***************************************************************************)
THEOREM NothingElseBlocks == Spec => []OnlyUnreadBlocks
<1>1. Init => LockReleased
  BY ExchangeAssumption DEF Init, LockReleased
<1>2. MapInv /\ LockReleased => OnlyUnreadBlocks
  <2> SUFFICES ASSUME MapInv, LockReleased, \A t \in Callers : ~CanProceed(t),
                      \A id \in Ids : ~CanConsume(id)
               PROVE  /\ lock = Nobody /\ readers = {}
                      /\ \A t \in Callers :
                            pc[t] # "idle" =>
                              /\ pc[t] = "writing"
                              /\ consumer[job[t].id] = <<>> \/ Stalled(job[t].id)
    BY DEF OnlyUnreadBlocks
  <2>1. \A t \in Callers : pc[t] \in {"idle", "writing"}
    BY DEF MapInv, TypeOK, CanProceed
  <2>2. lock = Nobody /\ readers = {}
    BY <2>1 DEF MapInv, TypeOK, LockReleased
  <2>3. ASSUME NEW t \in Callers, pc[t] # "idle", consumer[job[t].id] # <<>>, ~Stalled(job[t].id)
        PROVE  FALSE
    <3>1. job[t].id \in Ids /\ ~(Len(outbox[job[t].id]) < Capacity)
      BY <2>1, <2>3 DEF MapInv, CallsPending, CanProceed
    <3>2. outbox[job[t].id] = <<>>
      BY <2>3, <3>1, ConsumersDrain
    <3> QED
      BY <3>1, <3>2, ExchangeAssumption
  <2> QED
    BY <2>1, <2>2, <2>3
<1> QED
  BY <1>1, <1>2, LockReleasedStep, MapInvHolds, PTL DEF Spec
=============================================================================
