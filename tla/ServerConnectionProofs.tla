------------------------ MODULE ServerConnectionProofs ------------------------
(***************************************************************************)
(* ConnectionInv is inductive, so that what ServerConnection.cfg checks of *)
(* a few messages holds of any number.  The steps of the environment, of   *)
(* the dispatcher and of the other goroutines are taken in turn; each      *)
(* lemma preserves one part of the invariant.                              *)
(***************************************************************************)
EXTENDS ServerConnection, SequenceTheorems, FiniteSetTheorems, TLAPS

-----------------------------------------------------------------------------
(***************************************************************************)
(* The inductive invariant.  The dispatcher is one message                 *)
(* behind the reader, or none; a subscription that it still owes the       *)
(* current message is registered and has seen all the earlier ones; and    *)
(* the goroutines take turns: nothing starts for registerConnection before *)
(* the key exchange has taken its last message, a verify.                  *)
(***************************************************************************)
Dispatching == dispatcher \in {"select", "dispatching"}
Owed(s) == dispatcher = "dispatching" /\ s \in {serving} \cup unserved
Reached(s) == IF Owed(s) THEN item - 1 ELSE item
ExchangeOver == keyExchange \in {"closing", "unsubscribing", "ended"}
LastHandled == handled[Len(handled)]
VerifiedLast == handled # <<>> /\ kinds[LastHandled] = "verify"

DispatcherInv ==
    /\ reader = "ended" <=> ~Dispatching
    /\ reader = "reading" => item = read
    /\ reader = "sending" => item + 1 = read
    /\ item <= read
    /\ dispatcher = "dispatching" => item > 0
    /\ dispatcher \in {"select", "ended"} <=> serving = None
    /\ serving = None => unserved = {}
    /\ serving \notin unserved
    /\ {serving} \cup unserved \subseteq subscriptions \cup {None}

TurnsInv ==
    /\ keyExchange \in {"subscribing", "ended"} <=> "keyExchange" \notin subscriptions
    /\ keyExchange = "verifying" => VerifiedLast
    /\ \/ registration \in {"subscribing", "announcing", "select", "failed"}
       \/ "registration" \in subscriptions
       => ExchangeOver /\ VerifiedLast
    /\ member # None => registration \in {"range", "ended"} /\ "registration" \in subscriptions
    /\ member = None <=> joinedAt = 0
    /\ consumer # None => member \in {"welcoming", "select", "sending", "ended"}

HandledInv ==
    /\ keyExchange = "subscribing" => handled = <<>>
    /\ Dispatching /\ handled # <<>> =>
          /\ LastHandled <= item
          /\ ~ExchangeOver => LastHandled = Reached("keyExchange")
          /\ Owed("registration") => LastHandled < item

ForwardedInv ==
    /\ member = None => forwarded = <<>>
    /\ member # None /\ Dispatching =>
          /\ joinedAt <= Reached("registration")
          /\ \A i \in DOMAIN forwarded : forwarded[i] <= Reached("registration")
          /\ AllForwardedUpTo(Reached("registration"))

\* What was said to the client: only a message sent before Ready can have been
\* dispatched before the key exchange subscribed, and only one sent before
\* AvailableActions before registerConnection did.
HeardUpTo(last) == \A n \in 1..last : told[n] # "nothing" => Taken(n)
JoinedUpTo(last) ==
    \A n \in 1..last : told[n] = "actions" /\ kinds[n] = "connect" => joinedAt \in 1..n

HeardInv ==
    /\ \A n \in 1..Len(kinds) : told[n] # "nothing" => keyExchange \notin {"subscribing", "setup"}
    /\ \A n \in 1..Len(kinds) :
          told[n] = "actions" /\ Dispatching => "registration" \in subscriptions
    /\ \A i \in DOMAIN handled : handled[i] <= LastHandled
    /\ handled # <<>> => HeardUpTo(LastHandled)
    /\ Dispatching /\ ~ExchangeOver => HeardUpTo(Reached("keyExchange"))
    /\ Dispatching => JoinedUpTo(Reached("registration"))
    /\ ~Dispatching => item = 0

\* What the reader passes on was read.  A goroutine that receives from the
\* dispatcher receives its disconnect before the dispatcher ends, and leaves no
\* subscription behind unless it failed.
Listening == registration \in {"announcing", "select", "failed"} \/ member \notin {None, "ended"}

RestInv ==
    /\ reader = "sending" => kinds[read] # "garbage"
    /\ dispatcher = "dispatching" => kinds[item] # "garbage"
    /\ registration = "ended" => keyExchange \in {"unsubscribing", "ended"}
    /\ Dispatching => ("registration" \in subscriptions <=> Listening)
    /\ ~Dispatching =>
          /\ "registration" \in {serving} \cup unserved <=> Listening
          /\ keyExchange \notin {"subscribing", "closing", "unsubscribing", "ended"} =>
                "keyExchange" \in {serving} \cup unserved

ConnectionInv ==
    /\ TypeOK
    /\ DispatcherInv /\ TurnsInv /\ HandledInv /\ ForwardedInv /\ RestInv /\ HeardInv
    /\ HandledWithoutGap /\ MemberWasVerified /\ ForwardedInOrder /\ WritersTakeTurns

\* The history of what a subscriber took, after one more message.
LEMMA Appended ==
    ASSUME NEW n \in Nat, NEW seq \in Seq(1..n), NEW m \in 1..n
    PROVE  /\ Append(seq, m) \in Seq(1..n)
           /\ Len(seq) \in Nat /\ DOMAIN seq = 1..Len(seq)
           /\ Len(Append(seq, m)) = Len(seq) + 1
           /\ DOMAIN Append(seq, m) = 1..(Len(seq) + 1)
           /\ Append(seq, m)[Len(seq) + 1] = m
           /\ \A i \in 1..Len(seq) : Append(seq, m)[i] = seq[i] /\ seq[i] \in 1..n
           /\ Append(seq, m) # <<>>
<1>1. Append(seq, m) \in Seq(1..n) /\ Len(seq) \in Nat /\ DOMAIN seq = 1..Len(seq)
  OBVIOUS
<1>2. Len(Append(seq, m)) = Len(seq) + 1
  OBVIOUS
<1>3. DOMAIN Append(seq, m) = 1..(Len(seq) + 1) /\ Append(seq, m)[Len(seq) + 1] = m
  BY <1>1, <1>2
<1>4. \A i \in 1..Len(seq) : Append(seq, m)[i] = seq[i] /\ seq[i] \in 1..n
  BY <1>1, ElementOfSeq
<1>5. Append(seq, m) # <<>>
  BY <1>1, <1>2
<1> QED
  BY <1>1, <1>2, <1>3, <1>4, <1>5

\* What the histories hold has been read.
LEMMA Elements ==
    ASSUME TypeOK
    PROVE  /\ Len(kinds) \in Nat /\ read \in Nat /\ item \in Nat /\ joinedAt \in Nat
           /\ Len(handled) \in Nat /\ DOMAIN handled = 1..Len(handled)
           /\ Len(forwarded) \in Nat /\ DOMAIN forwarded = 1..Len(forwarded)
           /\ \A i \in 1..Len(handled) : handled[i] \in 1..read
           /\ \A i \in 1..Len(forwarded) : forwarded[i] \in 1..read
           /\ handled # <<>> => LastHandled \in 1..read
<1>1. /\ kinds \in Seq(Kinds) /\ read \in 0..Len(kinds) /\ item \in 0..MaxMessages
      /\ handled \in Seq(1..read) /\ forwarded \in Seq(1..read) /\ joinedAt \in 0..read
  BY DEF TypeOK
<1>2. Len(kinds) \in Nat /\ read \in Nat /\ item \in Nat /\ joinedAt \in Nat
  BY <1>1, LenProperties, ConnectionAssumption
<1>3. /\ Len(handled) \in Nat /\ DOMAIN handled = 1..Len(handled)
      /\ Len(forwarded) \in Nat /\ DOMAIN forwarded = 1..Len(forwarded)
  BY <1>1, LenProperties
<1>4. /\ \A i \in 1..Len(handled) : handled[i] \in 1..read
      /\ \A i \in 1..Len(forwarded) : forwarded[i] \in 1..read
  BY <1>1, ElementOfSeq
<1>5. handled # <<>> => Len(handled) \in 1..Len(handled)
  BY <1>1, <1>3, EmptySeq
<1> QED
  BY <1>2, <1>3, <1>4, <1>5 DEF LastHandled

-----------------------------------------------------------------------------
(* The client's steps. *)

LEMMA Prefix ==
    ASSUME NEW S, NEW seq \in Seq(S), NEW k \in 0..Len(seq)
    PROVE  /\ SubSeq(seq, 1, k) \in Seq(S) /\ Len(SubSeq(seq, 1, k)) = k
           /\ \A n \in 1..k : SubSeq(seq, 1, k)[n] = seq[n]
<1>1. k \in Nat /\ k <= Len(seq) /\ Len(seq) \in Nat
  BY LenProperties
<1>2. \A i \in 1..k : seq[i] \in S
  BY <1>1, ElementOfSeq
<1>3. /\ SubSeq(seq, 1, k) \in Seq(S)
      /\ Len(SubSeq(seq, 1, k)) = IF 1 <= k THEN k - 1 + 1 ELSE 0
      /\ \A i \in 1..(k - 1 + 1) : SubSeq(seq, 1, k)[i] = seq[1 + i - 1]
  BY <1>1, <1>2, SubSeqProperties
<1> QED
  BY <1>1, <1>3

\* Neither changes what has been read.
LEMMA ClientStep ==
    ASSUME TypeOK, Leave \/ \E kind \in Kinds : Send(kind)
    PROVE  /\ kinds' \in Seq(Kinds) /\ Len(kinds') <= MaxMessages
           /\ read \in 0..Len(kinds') /\ gone' \in BOOLEAN
           /\ told' \in Seq(Tellings) /\ Len(told') = Len(kinds')
           /\ \A n \in 1..read : kinds'[n] = kinds[n] /\ told'[n] = told[n]
           /\ \A n \in 1..Len(kinds') :
                 \/ n \in 1..Len(kinds) /\ told'[n] = told[n]
                 \/ told'[n] = Told
           /\ UNCHANGED <<read, goroutines, subscriptions, histories, mail, crashed>>
<1> USE DEF TypeOK
<1>1. CASE Leave
  <2>1. PICK k \in read..Len(kinds) : kinds' = SubSeq(kinds, 1, k) /\ told' = SubSeq(told, 1, k)
    BY <1>1 DEF Leave
  <2>2. k \in Nat /\ k <= Len(kinds) /\ read \in 0..k /\ Len(kinds) \in Nat
    BY <2>1, LenProperties
  <2>3. /\ kinds' \in Seq(Kinds) /\ Len(kinds') = k
        /\ \A n \in 1..k : kinds'[n] = kinds[n]
    BY <2>1, <2>2, Prefix
  <2>4. /\ told' \in Seq(Tellings) /\ Len(told') = k
        /\ \A n \in 1..k : told'[n] = told[n]
    BY <2>1, <2>2, Prefix
  <2>5. Len(kinds') <= MaxMessages /\ gone' \in BOOLEAN
    BY <1>1, <2>2, <2>3, ConnectionAssumption DEF Leave
  <2>6. UNCHANGED <<read, goroutines, subscriptions, histories, mail, crashed>>
    BY <1>1 DEF Leave
  <2>7. 1..read \subseteq 1..k /\ 1..k \subseteq 1..Len(kinds)
    BY <2>2
  <2> QED
    BY <2>2, <2>3, <2>4, <2>5, <2>6, <2>7
<1>2. ASSUME NEW kind \in Kinds, Send(kind)
      PROVE  /\ kinds' \in Seq(Kinds) /\ Len(kinds') <= MaxMessages
             /\ read \in 0..Len(kinds') /\ gone' \in BOOLEAN
             /\ told' \in Seq(Tellings) /\ Len(told') = Len(kinds')
             /\ \A n \in 1..read : kinds'[n] = kinds[n] /\ told'[n] = told[n]
             /\ \A n \in 1..Len(kinds') :
                   \/ n \in 1..Len(kinds) /\ told'[n] = told[n]
                   \/ told'[n] = Told
  <2>1. /\ kinds' = Append(kinds, kind) /\ told' = Append(told, Told)
        /\ gone' = gone /\ Len(kinds) < MaxMessages
    BY <1>2 DEF Send
  <2>2. /\ kinds' \in Seq(Kinds) /\ Len(kinds') = Len(kinds) + 1 /\ Len(kinds) \in Nat
        /\ \A n \in 1..Len(kinds) : kinds'[n] = kinds[n]
    BY <2>1
  <2>3. Told \in Tellings
    BY DEF Told, Tellings
  <2>4. /\ told' \in Seq(Tellings) /\ Len(told') = Len(kinds) + 1
        /\ \A n \in 1..Len(kinds) : told'[n] = told[n]
        /\ told'[Len(kinds) + 1] = Told
    <3> DEFINE t == Told
    <3>1. told' = Append(told, t) /\ t \in Tellings
      BY <2>1, <2>3
    <3> HIDE DEF t
    <3>2. /\ told' \in Seq(Tellings) /\ Len(told') = Len(kinds) + 1
          /\ \A n \in 1..Len(kinds) : told'[n] = told[n]
          /\ told'[Len(kinds) + 1] = t
      BY <2>2, <3>1
    <3> QED
      BY <3>2 DEF t
  <2>5. Len(kinds') <= MaxMessages /\ read \in 0..Len(kinds') /\ gone' \in BOOLEAN
    BY <2>1, <2>2, ConnectionAssumption
  <2>6. ASSUME NEW n \in 1..Len(kinds')
        PROVE  \/ n \in 1..Len(kinds) /\ told'[n] = told[n]
               \/ told'[n] = Told
    <3>1. n \in 1..Len(kinds) \/ n = Len(kinds) + 1
      BY <2>2
    <3> QED
      BY <2>4, <3>1
  <2>7. \A n \in 1..read : kinds'[n] = kinds[n] /\ told'[n] = told[n]
    BY <2>2, <2>4
  <2> QED
    BY <2>2, <2>4, <2>5, <2>6, <2>7
<1>3. (\E kind \in Kinds : Send(kind)) =>
          UNCHANGED <<read, goroutines, subscriptions, histories, mail, crashed>>
  BY DEF Send
<1> QED
  BY <1>1, <1>2, <1>3

LEMMA ClientKeepsInv ==
    ASSUME ConnectionInv, Leave \/ \E kind \in Kinds : Send(kind)
    PROVE  ConnectionInv'
<1> USE DEF ConnectionInv
<1>1. /\ kinds' \in Seq(Kinds) /\ Len(kinds') <= MaxMessages
      /\ read \in 0..Len(kinds') /\ gone' \in BOOLEAN
      /\ told' \in Seq(Tellings) /\ Len(told') = Len(kinds')
      /\ \A n \in 1..read : kinds'[n] = kinds[n] /\ told'[n] = told[n]
      /\ \A n \in 1..Len(kinds') :
            \/ n \in 1..Len(kinds) /\ told'[n] = told[n]
            \/ told'[n] = Told
      /\ UNCHANGED <<read, goroutines, subscriptions, histories, mail, crashed>>
  BY ClientStep
<1>2. /\ UNCHANGED <<read, reader, dispatcher, item, serving, unserved>>
      /\ UNCHANGED <<keyExchange, registration, member, consumer, subscriptions>>
      /\ UNCHANGED <<handled, joinedAt, forwarded, mail, crashed>>
  BY <1>1 DEF goroutines, dispatchVars, histories
<1> HIDE DEF ConnectionInv
<1>3. /\ Len(handled) \in Nat /\ DOMAIN handled = 1..Len(handled)
      /\ DOMAIN forwarded = 1..Len(forwarded)
      /\ \A i \in 1..Len(forwarded) : forwarded[i] \in 1..read
      /\ handled # <<>> => LastHandled \in 1..read
      /\ read \in Nat /\ item \in Nat /\ joinedAt \in 0..read
  BY Elements DEF ConnectionInv, TypeOK
<1>4. handled # <<>> => kinds'[LastHandled] = kinds[LastHandled] /\ LastHandled' = LastHandled
  BY <1>1, <1>2, <1>3 DEF LastHandled
<1>5. VerifiedLast' <=> VerifiedLast
  BY <1>2, <1>4 DEF VerifiedLast
<1>6. TypeOK'
  BY <1>1, <1>2 DEF ConnectionInv, TypeOK
<1>7. DispatcherInv'
  BY <1>2 DEF ConnectionInv, DispatcherInv, Dispatching
<1>8. TurnsInv'
  BY <1>2, <1>5 DEF ConnectionInv, TurnsInv, ExchangeOver
<1>9. HandledInv' /\ HandledWithoutGap'
  BY <1>2 DEF ConnectionInv, HandledInv, HandledWithoutGap, Dispatching, Owed, Reached,
              ExchangeOver, LastHandled
<1>10. /\ Dispatching' <=> Dispatching
       /\ Reached("registration")' = Reached("registration")
  BY <1>2 DEF Dispatching, Reached, Owed
<1>11. ASSUME NEW last \in 0..read
       PROVE  AllForwardedUpTo(last)' <=> AllForwardedUpTo(last)
  <2>1. \A n \in (joinedAt + 1)..last : kinds'[n] = kinds[n]
    BY <1>1, <1>3
  <2> QED
    BY <1>2, <2>1 DEF AllForwardedUpTo
<1>12. Reached("registration") \in 0..read
  BY <1>3 DEF ConnectionInv, DispatcherInv, Reached, Owed
<1>13. ForwardedInv'
  BY <1>2, <1>10, <1>11, <1>12 DEF ConnectionInv, ForwardedInv
<1>14. ForwardedInOrder'
  <2>1. OnlyAfterJoin' /\ InSendingOrder'
    BY <1>1, <1>2, <1>3 DEF ConnectionInv, ForwardedInOrder, OnlyAfterJoin, InSendingOrder
  <2>2. ASSUME NEW i \in DOMAIN forwarded
        PROVE  AllForwardedUpTo(forwarded[i])'
    <3>1. forwarded[i] \in 0..read /\ AllForwardedUpTo(forwarded[i])
      BY <1>3 DEF ConnectionInv, ForwardedInOrder
    <3> QED
      BY <1>2, <1>11, <3>1 DEF AllForwardedUpTo
  <2> QED
    BY <1>2, <2>1, <2>2 DEF ForwardedInOrder
<1>15. MemberWasVerified'
  BY <1>1, <1>2, <1>3, <1>4 DEF ConnectionInv, MemberWasVerified, LastHandled
<1>16. WritersTakeTurns'
  BY <1>2 DEF ConnectionInv, WritersTakeTurns, Writers
<1>17. RestInv'
  <2>1. /\ reader = "sending" => read > 0
        /\ dispatcher = "dispatching" => item \in 1..read
    BY <1>3 DEF ConnectionInv, DispatcherInv
  <2>2. /\ reader = "sending" => kinds'[read] = kinds[read]
        /\ dispatcher = "dispatching" => kinds'[item] = kinds[item]
    BY <1>1, <1>3, <2>1
  <2> QED
    BY <1>2, <2>2 DEF ConnectionInv, RestInv, Listening, Dispatching
<1>18. HeardInv'
  <2>1. Told = "actions" /\ Dispatching => "registration" \in subscriptions
    BY DEF ConnectionInv, TurnsInv, RestInv, Listening, Told
  <2>2. Told # "nothing" => keyExchange \notin {"subscribing", "setup"}
    BY DEF Told
  <2>3. /\ \A n \in 1..Len(kinds') :
              told'[n] # "nothing" => keyExchange' \notin {"subscribing", "setup"}
        /\ \A n \in 1..Len(kinds') :
              told'[n] = "actions" /\ Dispatching' => "registration" \in subscriptions'
    BY <1>1, <1>2, <1>10, <2>1, <2>2 DEF ConnectionInv, HeardInv
  <2>4. ASSUME NEW last \in 0..read
        PROVE  (HeardUpTo(last)' <=> HeardUpTo(last)) /\ (JoinedUpTo(last)' <=> JoinedUpTo(last))
    <3>1. \A n \in 1..last : kinds'[n] = kinds[n] /\ told'[n] = told[n]
      BY <1>1, <1>3
    <3>2. joinedAt' = joinedAt /\ \A n \in 1..last : Taken(n)' <=> Taken(n)
      BY <1>2 DEF Taken
    <3> QED
      BY <3>1, <3>2 DEF HeardUpTo, JoinedUpTo
  <2>5. Reached("keyExchange") \in 0..read
    BY <1>3 DEF ConnectionInv, DispatcherInv, Reached, Owed
  <2>6. /\ Reached("keyExchange")' = Reached("keyExchange")
        /\ ExchangeOver' <=> ExchangeOver /\ item' = item
    BY <1>2 DEF Reached, Owed, ExchangeOver
  <2>7. \A i \in DOMAIN handled' : handled'[i] <= LastHandled'
    BY <1>2 DEF ConnectionInv, HeardInv, LastHandled
  <2>8. handled' # <<>> => HeardUpTo(LastHandled)'
    <3>1. handled # <<>> => HeardUpTo(LastHandled) /\ LastHandled \in 0..read
      BY <1>3 DEF ConnectionInv, HeardInv
    <3>2. LastHandled' = LastHandled
      BY <1>2 DEF LastHandled
    <3> QED
      BY <1>2, <2>4, <3>1, <3>2 DEF HeardUpTo
  <2>9. Dispatching' /\ ~ExchangeOver' => HeardUpTo(Reached("keyExchange"))'
    <3>1. Dispatching' /\ ~ExchangeOver' => HeardUpTo(Reached("keyExchange"))
      BY <1>2 DEF ConnectionInv, HeardInv, Dispatching, ExchangeOver
    <3>2. PICK last \in 0..read : last = Reached("keyExchange")
      BY <2>5
    <3>3. HeardUpTo(Reached("keyExchange")) => HeardUpTo(last)'
      BY <2>4, <3>2
    <3> QED
      BY <2>6, <3>1, <3>2, <3>3 DEF HeardUpTo
  <2>10. Dispatching' => JoinedUpTo(Reached("registration"))'
    BY <1>10, <1>12, <2>4 DEF ConnectionInv, HeardInv, JoinedUpTo
  <2>11. ~Dispatching' => item' = 0
    <3>1. ~Dispatching => item = 0
      BY DEF ConnectionInv, HeardInv
    <3> QED
      BY <1>2, <3>1 DEF Dispatching
  <2> QED
    BY <2>3, <2>7, <2>8, <2>9, <2>10, <2>11 DEF HeardInv
<1> QED
  BY <1>6, <1>7, <1>8, <1>9, <1>13, <1>14, <1>15, <1>16, <1>17, <1>18 DEF ConnectionInv

-----------------------------------------------------------------------------
(* The server's steps. *)

\* The dispatcher goes on to one of the pending subscriptions, or to the next
\* message.
LEMMA Served ==
    ASSUME NEW doing \in {"dispatching", "dropping"}, NEW pending \in SUBSET Subscribers,
           ServeNext(doing, pending)
    PROVE  /\ dispatcher' \in {"select", "dispatching", "dropping", "ended"}
           /\ serving' \in Subscribers \cup {None}
           /\ unserved' \subseteq Subscribers
BY DEF ServeNext, Subscribers, None

\* What is dispatched has been read, and is what the histories take.
LEMMA TypeKept ==
    ASSUME TypeOK, DispatcherInv, ServerNext
    PROVE  TypeOK'
<1> USE DEF TypeOK, None, Subscribers, netVars, dispatchVars, histories
<1>a. /\ Len(kinds) \in Nat /\ read \in Nat /\ read <= MaxMessages /\ MaxMessages \in Nat
      /\ MaxMail \in Nat
  BY Elements, ConnectionAssumption
<1>b. dispatcher = "dispatching" => item \in 1..read
  BY <1>a DEF DispatcherInv
<1>c. ASSUME item \in 1..read
      PROVE  Append(handled, item) \in Seq(1..read) /\ Append(forwarded, item) \in Seq(1..read)
  BY <1>a, <1>c
<1>d. handled \in Seq(1..(read + 1)) /\ forwarded \in Seq(1..(read + 1))
  <2>1. 1..read \subseteq 1..(read + 1)
    BY <1>a
  <2> QED
    BY <2>1, SeqMonotonic
<1>1. CASE ReadMessage
  BY <1>1, <1>a, <1>d DEF ReadMessage
<1>2. CASE ReadFails
  BY <1>2 DEF ReadFails
<1>3. CASE TakeMessage
  BY <1>3, <1>a, Served DEF TakeMessage
<1>4. CASE TakeDisconnect
  BY <1>4, <1>a, Served DEF TakeDisconnect
<1>5. CASE SkipUndecryptable
  BY <1>5, <1>a, Served DEF SkipUndecryptable
<1>6. CASE ExchangeSubscribes
  BY <1>6 DEF ExchangeSubscribes, Subscribed
<1>7. CASE ExchangeSetUp
  BY <1>7 DEF ExchangeSetUp, OnlyKeyExchange
<1>8. CASE ExchangeWrote
  BY <1>8 DEF ExchangeWrote, OnlyKeyExchange
<1>9. CASE ExchangeTakes
  BY <1>9, <1>a, <1>b, <1>c, Served DEF ExchangeTakes, Delivered
<1>10. CASE ExchangeDropped
  BY <1>10, <1>a, Served DEF ExchangeDropped, Dropped
<1>11. CASE HandOver
  BY <1>11 DEF HandOver
<1>12. CASE CloseSuccess
  BY <1>12 DEF CloseSuccess, OnlyKeyExchange
<1>13. CASE ExchangeUnSubscribes
  BY <1>13 DEF ExchangeUnSubscribes, UnSubscribed
<1>14. CASE RegistrationSubscribes
  BY <1>14 DEF RegistrationSubscribes, Subscribed
<1>15. CASE Announce
  BY <1>15 DEF Announce, OnlyRegistration
<1>16. CASE RegistrationTakes
  BY <1>16, <1>a, <1>b, Served DEF RegistrationTakes, Delivered
<1>17. CASE RegistrationDropped
  BY <1>17, <1>a, Served DEF RegistrationDropped, Dropped
<1>18. CASE RangeEnds
  BY <1>18 DEF RangeEnds, OnlyRegistration
<1>19. CASE Join
  BY <1>19 DEF Join
<1>20. CASE SubscribeMailbox
  BY <1>20 DEF SubscribeMailbox
<1>21. CASE MemberReturns
  BY <1>21 DEF MemberReturns
<1>22. CASE MemberTakes
  BY <1>22, <1>a, <1>b, <1>c, Served DEF MemberTakes, Delivered
<1>23. CASE MemberDropped
  BY <1>23, <1>a, Served DEF MemberDropped, Dropped
<1>24. CASE MailArrives
  BY <1>24, <1>a DEF MailArrives
<1>25. CASE MailWritten
  BY <1>25 DEF MailWritten
<1>26. CASE ConcurrentWrite
  BY <1>26 DEF ConcurrentWrite, goroutines
<1> QED
  BY <1>1, <1>2, <1>3, <1>4, <1>5, <1>6, <1>7, <1>8, <1>9, <1>10, <1>11, <1>12,
     <1>13, <1>14, <1>15, <1>16, <1>17, <1>18, <1>19, <1>20, <1>21, <1>22,
     <1>23, <1>24, <1>25, <1>26
     DEF ServerNext, ReaderStep, DispatcherStep, KeyExchangeStep, RegistrationStep, MemberStep

\* The reader hands the dispatcher one message at a time, and the set that it
\* ranges over changes only between messages.
LEMMA DispatcherKept ==
    ASSUME TypeOK, DispatcherInv, ServerNext
    PROVE  DispatcherInv'
<1> USE DEF TypeOK, DispatcherInv, Dispatching, None, Subscribers, netVars, dispatchVars
<1>1. CASE ReadMessage
  BY <1>1 DEF ReadMessage
<1>2. CASE ReadFails
  BY <1>2 DEF ReadFails
<1>3. CASE TakeMessage
  BY <1>3 DEF TakeMessage, ServeNext
<1>4. CASE TakeDisconnect
  BY <1>4 DEF TakeDisconnect, ServeNext
<1>5. CASE SkipUndecryptable
  BY <1>5 DEF SkipUndecryptable, ServeNext
<1>6. CASE ExchangeSubscribes
  BY <1>6 DEF ExchangeSubscribes, Subscribed
<1>7. CASE ExchangeSetUp
  BY <1>7 DEF ExchangeSetUp, OnlyKeyExchange
<1>8. CASE ExchangeWrote
  BY <1>8 DEF ExchangeWrote, OnlyKeyExchange
<1>9. CASE ExchangeTakes
  BY <1>9 DEF ExchangeTakes, Delivered, ServeNext
<1>10. CASE ExchangeDropped
  BY <1>10 DEF ExchangeDropped, Dropped, ServeNext
<1>11. CASE HandOver
  BY <1>11 DEF HandOver
<1>12. CASE CloseSuccess
  BY <1>12 DEF CloseSuccess, OnlyKeyExchange
<1>13. CASE ExchangeUnSubscribes
  BY <1>13 DEF ExchangeUnSubscribes, UnSubscribed
<1>14. CASE RegistrationSubscribes
  BY <1>14 DEF RegistrationSubscribes, Subscribed
<1>15. CASE Announce
  BY <1>15 DEF Announce, OnlyRegistration
<1>16. CASE RegistrationTakes
  BY <1>16 DEF RegistrationTakes, Delivered, ServeNext
<1>17. CASE RegistrationDropped
  BY <1>17 DEF RegistrationDropped, Dropped, ServeNext
<1>18. CASE RangeEnds
  BY <1>18 DEF RangeEnds, OnlyRegistration
<1>19. CASE Join
  BY <1>19 DEF Join
<1>20. CASE SubscribeMailbox
  BY <1>20 DEF SubscribeMailbox
<1>21. CASE MemberReturns
  BY <1>21 DEF MemberReturns
<1>22. CASE MemberTakes
  BY <1>22 DEF MemberTakes, Delivered, ServeNext
<1>23. CASE MemberDropped
  BY <1>23 DEF MemberDropped, Dropped, ServeNext
<1>24. CASE MailArrives
  BY <1>24 DEF MailArrives
<1>25. CASE MailWritten
  BY <1>25 DEF MailWritten
<1>26. CASE ConcurrentWrite
  BY <1>26 DEF ConcurrentWrite, goroutines
<1> QED
  BY <1>1, <1>2, <1>3, <1>4, <1>5, <1>6, <1>7, <1>8, <1>9, <1>10, <1>11, <1>12,
     <1>13, <1>14, <1>15, <1>16, <1>17, <1>18, <1>19, <1>20, <1>21, <1>22,
     <1>23, <1>24, <1>25, <1>26
     DEF ServerNext, ReaderStep, DispatcherStep, KeyExchangeStep, RegistrationStep, MemberStep

\* Who may run when.
LEMMA TurnsKept ==
    ASSUME TypeOK, DispatcherInv, TurnsInv, ServerNext
    PROVE  TurnsInv'
<1> USE DEF TypeOK, TurnsInv, VerifiedLast, LastHandled, ExchangeOver, None, netVars, histories
<1>1. CASE ReadMessage
  BY <1>1 DEF ReadMessage
<1>2. CASE ReadFails
  BY <1>2 DEF ReadFails
<1>3. CASE TakeMessage
  BY <1>3 DEF TakeMessage, ServeNext
<1>4. CASE TakeDisconnect
  BY <1>4 DEF TakeDisconnect, ServeNext
<1>5. CASE SkipUndecryptable
  BY <1>5 DEF SkipUndecryptable, ServeNext
<1>6. CASE ExchangeSubscribes
  BY <1>6 DEF ExchangeSubscribes, Subscribed
<1>7. CASE ExchangeSetUp
  BY <1>7 DEF ExchangeSetUp, OnlyKeyExchange
<1>8. CASE ExchangeWrote
  BY <1>8 DEF ExchangeWrote, OnlyKeyExchange
<1>9. CASE ExchangeTakes
  <2> HIDE DEF TypeOK, TurnsInv
  <2>1. item \in 1..read /\ handled \in Seq(1..read) /\ read \in Nat
    BY <1>9, Elements DEF ExchangeTakes, Delivered, DispatcherInv, TypeOK
  <2>2. handled' # <<>> /\ LastHandled' = item
    <3>1. handled' = Append(handled, item)
      BY <1>9 DEF ExchangeTakes
    <3> QED
      BY <2>1, <3>1, Appended
  <2>3. VerifiedLast' <=> kinds[item] = "verify"
    BY <1>9, <2>2 DEF ExchangeTakes, Delivered
  <2>4. keyExchange # "verifying" /\ ~ExchangeOver
    BY <1>9 DEF ExchangeTakes
  <2> HIDE DEF VerifiedLast, LastHandled
  <2> QED
    BY <1>9, <2>3, <2>4 DEF ExchangeTakes, Delivered, TypeOK, TurnsInv
<1>10. CASE ExchangeDropped
  BY <1>10 DEF ExchangeDropped, Dropped, ServeNext
<1>11. CASE HandOver
  BY <1>11 DEF HandOver
<1>12. CASE CloseSuccess
  BY <1>12 DEF CloseSuccess, OnlyKeyExchange
<1>13. CASE ExchangeUnSubscribes
  BY <1>13 DEF ExchangeUnSubscribes, UnSubscribed
<1>14. CASE RegistrationSubscribes
  BY <1>14 DEF RegistrationSubscribes, Subscribed
<1>15. CASE Announce
  BY <1>15 DEF Announce, OnlyRegistration
<1>16. CASE RegistrationTakes
  BY <1>16 DEF RegistrationTakes, Delivered, ServeNext, DispatcherInv
<1>17. CASE RegistrationDropped
  BY <1>17 DEF RegistrationDropped, Dropped, ServeNext
<1>18. CASE RangeEnds
  BY <1>18 DEF RangeEnds, OnlyRegistration
<1>19. CASE Join
  BY <1>19 DEF Join
<1>20. CASE SubscribeMailbox
  BY <1>20 DEF SubscribeMailbox
<1>21. CASE MemberReturns
  BY <1>21 DEF MemberReturns
<1>22. CASE MemberTakes
  BY <1>22 DEF MemberTakes, Delivered, ServeNext
<1>23. CASE MemberDropped
  BY <1>23 DEF MemberDropped, Dropped, ServeNext
<1>24. CASE MailArrives
  BY <1>24 DEF MailArrives
<1>25. CASE MailWritten
  BY <1>25 DEF MailWritten
<1>26. CASE ConcurrentWrite
  BY <1>26 DEF ConcurrentWrite, goroutines
<1> QED
  BY <1>1, <1>2, <1>3, <1>4, <1>5, <1>6, <1>7, <1>8, <1>9, <1>10, <1>11, <1>12,
     <1>13, <1>14, <1>15, <1>16, <1>17, <1>18, <1>19, <1>20, <1>21, <1>22,
     <1>23, <1>24, <1>25, <1>26
     DEF ServerNext, ReaderStep, DispatcherStep, KeyExchangeStep, RegistrationStep, MemberStep

\* The key exchange has taken everything dispatched, up to the message before
\* the one the dispatcher may still owe it.
LEMMA HandledKept ==
    ASSUME TypeOK, DispatcherInv, TurnsInv, HandledInv, ServerNext
    PROVE  HandledInv'
<1> USE DEF TypeOK, DispatcherInv, TurnsInv, HandledInv, LastHandled, ExchangeOver,
        Dispatching, Owed, Reached, None, Subscribers, netVars, dispatchVars, histories
<1>1. CASE ReadMessage
  BY <1>1 DEF ReadMessage
<1>2. CASE ReadFails
  BY <1>2 DEF ReadFails
<1>3. CASE TakeMessage
  BY <1>3 DEF TakeMessage, ServeNext
<1>4. CASE TakeDisconnect
  BY <1>4 DEF TakeDisconnect, ServeNext
<1>5. CASE SkipUndecryptable
  BY <1>5 DEF SkipUndecryptable, ServeNext
<1>6. CASE ExchangeSubscribes
  BY <1>6 DEF ExchangeSubscribes, Subscribed
<1>7. CASE ExchangeSetUp
  BY <1>7 DEF ExchangeSetUp, OnlyKeyExchange
<1>8. CASE ExchangeWrote
  BY <1>8 DEF ExchangeWrote, OnlyKeyExchange
<1>9. CASE ExchangeTakes
  BY <1>9 DEF ExchangeTakes, Delivered, ServeNext
<1>10. CASE ExchangeDropped
  BY <1>10 DEF ExchangeDropped, Dropped, ServeNext
<1>11. CASE HandOver
  BY <1>11 DEF HandOver
<1>12. CASE CloseSuccess
  BY <1>12 DEF CloseSuccess, OnlyKeyExchange
<1>13. CASE ExchangeUnSubscribes
  BY <1>13 DEF ExchangeUnSubscribes, UnSubscribed
<1>14. CASE RegistrationSubscribes
  BY <1>14 DEF RegistrationSubscribes, Subscribed
<1>15. CASE Announce
  BY <1>15 DEF Announce, OnlyRegistration
<1>16. CASE RegistrationTakes
  BY <1>16 DEF RegistrationTakes, Delivered, ServeNext
<1>17. CASE RegistrationDropped
  BY <1>17 DEF RegistrationDropped, Dropped, ServeNext
<1>18. CASE RangeEnds
  BY <1>18 DEF RangeEnds, OnlyRegistration
<1>19. CASE Join
  BY <1>19 DEF Join
<1>20. CASE SubscribeMailbox
  BY <1>20 DEF SubscribeMailbox
<1>21. CASE MemberReturns
  BY <1>21 DEF MemberReturns
<1>22. CASE MemberTakes
  BY <1>22 DEF MemberTakes, Delivered, ServeNext
<1>23. CASE MemberDropped
  BY <1>23 DEF MemberDropped, Dropped, ServeNext
<1>24. CASE MailArrives
  BY <1>24 DEF MailArrives
<1>25. CASE MailWritten
  BY <1>25 DEF MailWritten
<1>26. CASE ConcurrentWrite
  BY <1>26 DEF ConcurrentWrite, goroutines
<1> QED
  BY <1>1, <1>2, <1>3, <1>4, <1>5, <1>6, <1>7, <1>8, <1>9, <1>10, <1>11, <1>12,
     <1>13, <1>14, <1>15, <1>16, <1>17, <1>18, <1>19, <1>20, <1>21, <1>22,
     <1>23, <1>24, <1>25, <1>26
     DEF ServerNext, ReaderStep, DispatcherStep, KeyExchangeStep, RegistrationStep, MemberStep

\* So the message it takes is the next one.
LEMMA GaplessKept ==
    ASSUME TypeOK, DispatcherInv, HandledInv, HandledWithoutGap, ServerNext
    PROVE  HandledWithoutGap'
<1> USE DEF TypeOK, DispatcherInv, HandledInv, HandledWithoutGap, LastHandled,
        ExchangeOver, Dispatching, Owed, Reached, histories
<1>1. CASE ReadMessage
  BY <1>1 DEF ReadMessage
<1>2. CASE ReadFails
  BY <1>2 DEF ReadFails
<1>3. CASE TakeMessage
  BY <1>3 DEF TakeMessage, ServeNext
<1>4. CASE TakeDisconnect
  BY <1>4 DEF TakeDisconnect, ServeNext
<1>5. CASE SkipUndecryptable
  BY <1>5 DEF SkipUndecryptable, ServeNext
<1>6. CASE ExchangeSubscribes
  BY <1>6 DEF ExchangeSubscribes, Subscribed
<1>7. CASE ExchangeSetUp
  BY <1>7 DEF ExchangeSetUp, OnlyKeyExchange
<1>8. CASE ExchangeWrote
  BY <1>8 DEF ExchangeWrote, OnlyKeyExchange
<1>9. CASE ExchangeTakes
  <2> HIDE DEF TypeOK, DispatcherInv, HandledInv, HandledWithoutGap
  <2>1. /\ item \in 1..read /\ handled \in Seq(1..read) /\ read \in Nat
        /\ Len(handled) \in Nat
    BY <1>9, Elements DEF ExchangeTakes, Delivered, DispatcherInv, TypeOK
  <2>2. /\ Len(handled') = Len(handled) + 1 /\ handled'[Len(handled) + 1] = item
        /\ \A i \in 1..Len(handled) : handled'[i] = handled[i] /\ handled[i] \in 1..read
    <3>1. handled' = Append(handled, item)
      BY <1>9 DEF ExchangeTakes
    <3> QED
      BY <2>1, <3>1, Appended
  <2>3. handled # <<>> => handled[Len(handled)] = item - 1
    BY <1>9 DEF ExchangeTakes, Delivered, HandledInv
  <2>4. Len(handled) > 0 => handled # <<>>
    BY <2>1
  <2> SUFFICES ASSUME NEW i \in 1..Len(handled)
               PROVE  handled'[i + 1] = handled'[i] + 1
      BY <2>1, <2>2 DEF HandledWithoutGap
  <2>5. CASE i = Len(handled)
    BY <2>1, <2>2, <2>3, <2>4, <2>5
  <2>6. CASE i < Len(handled)
    BY <2>1, <2>2, <2>6 DEF HandledWithoutGap
  <2> QED
    BY <2>1, <2>5, <2>6
<1>10. CASE ExchangeDropped
  BY <1>10 DEF ExchangeDropped, Dropped, ServeNext
<1>11. CASE HandOver
  BY <1>11 DEF HandOver
<1>12. CASE CloseSuccess
  BY <1>12 DEF CloseSuccess, OnlyKeyExchange
<1>13. CASE ExchangeUnSubscribes
  BY <1>13 DEF ExchangeUnSubscribes, UnSubscribed
<1>14. CASE RegistrationSubscribes
  BY <1>14 DEF RegistrationSubscribes, Subscribed
<1>15. CASE Announce
  BY <1>15 DEF Announce, OnlyRegistration
<1>16. CASE RegistrationTakes
  BY <1>16 DEF RegistrationTakes, Delivered, ServeNext
<1>17. CASE RegistrationDropped
  BY <1>17 DEF RegistrationDropped, Dropped, ServeNext
<1>18. CASE RangeEnds
  BY <1>18 DEF RangeEnds, OnlyRegistration
<1>19. CASE Join
  BY <1>19 DEF Join
<1>20. CASE SubscribeMailbox
  BY <1>20 DEF SubscribeMailbox
<1>21. CASE MemberReturns
  BY <1>21 DEF MemberReturns
<1>22. CASE MemberTakes
  BY <1>22 DEF MemberTakes, Delivered, ServeNext
<1>23. CASE MemberDropped
  BY <1>23 DEF MemberDropped, Dropped, ServeNext
<1>24. CASE MailArrives
  BY <1>24 DEF MailArrives
<1>25. CASE MailWritten
  BY <1>25 DEF MailWritten
<1>26. CASE ConcurrentWrite
  BY <1>26 DEF ConcurrentWrite, goroutines
<1> QED
  BY <1>1, <1>2, <1>3, <1>4, <1>5, <1>6, <1>7, <1>8, <1>9, <1>10, <1>11, <1>12,
     <1>13, <1>14, <1>15, <1>16, <1>17, <1>18, <1>19, <1>20, <1>21, <1>22,
     <1>23, <1>24, <1>25, <1>26
     DEF ServerNext, ReaderStep, DispatcherStep, KeyExchangeStep, RegistrationStep, MemberStep

\* When a connect is taken the exchange is over, and its last message a verify
\* before it.
LEMMA VerifiedKept ==
    ASSUME TypeOK, DispatcherInv, TurnsInv, HandledInv, MemberWasVerified, ServerNext
    PROVE  MemberWasVerified'
<1> USE DEF TypeOK, DispatcherInv, TurnsInv, HandledInv, MemberWasVerified, VerifiedLast,
        LastHandled, ExchangeOver, Dispatching, Owed, None, netVars, histories
<1>1. CASE ReadMessage
  BY <1>1 DEF ReadMessage
<1>2. CASE ReadFails
  BY <1>2 DEF ReadFails
<1>3. CASE TakeMessage
  BY <1>3 DEF TakeMessage, ServeNext
<1>4. CASE TakeDisconnect
  BY <1>4 DEF TakeDisconnect, ServeNext
<1>5. CASE SkipUndecryptable
  BY <1>5 DEF SkipUndecryptable, ServeNext
<1>6. CASE ExchangeSubscribes
  BY <1>6 DEF ExchangeSubscribes, Subscribed
<1>7. CASE ExchangeSetUp
  BY <1>7 DEF ExchangeSetUp, OnlyKeyExchange
<1>8. CASE ExchangeWrote
  BY <1>8 DEF ExchangeWrote, OnlyKeyExchange
<1>9. CASE ExchangeTakes
  BY <1>9 DEF ExchangeTakes, Delivered, ServeNext
<1>10. CASE ExchangeDropped
  BY <1>10 DEF ExchangeDropped, Dropped, ServeNext
<1>11. CASE HandOver
  BY <1>11 DEF HandOver
<1>12. CASE CloseSuccess
  BY <1>12 DEF CloseSuccess, OnlyKeyExchange
<1>13. CASE ExchangeUnSubscribes
  BY <1>13 DEF ExchangeUnSubscribes, UnSubscribed
<1>14. CASE RegistrationSubscribes
  BY <1>14 DEF RegistrationSubscribes, Subscribed
<1>15. CASE Announce
  BY <1>15 DEF Announce, OnlyRegistration
<1>16. CASE RegistrationTakes
  BY <1>16 DEF RegistrationTakes, Delivered, ServeNext
<1>17. CASE RegistrationDropped
  BY <1>17 DEF RegistrationDropped, Dropped, ServeNext
<1>18. CASE RangeEnds
  BY <1>18 DEF RangeEnds, OnlyRegistration
<1>19. CASE Join
  BY <1>19 DEF Join
<1>20. CASE SubscribeMailbox
  BY <1>20 DEF SubscribeMailbox
<1>21. CASE MemberReturns
  BY <1>21 DEF MemberReturns
<1>22. CASE MemberTakes
  BY <1>22 DEF MemberTakes, Delivered, ServeNext
<1>23. CASE MemberDropped
  BY <1>23 DEF MemberDropped, Dropped, ServeNext
<1>24. CASE MailArrives
  BY <1>24 DEF MailArrives
<1>25. CASE MailWritten
  BY <1>25 DEF MailWritten
<1>26. CASE ConcurrentWrite
  BY <1>26 DEF ConcurrentWrite, goroutines
<1> QED
  BY <1>1, <1>2, <1>3, <1>4, <1>5, <1>6, <1>7, <1>8, <1>9, <1>10, <1>11, <1>12,
     <1>13, <1>14, <1>15, <1>16, <1>17, <1>18, <1>19, <1>20, <1>21, <1>22,
     <1>23, <1>24, <1>25, <1>26
     DEF ServerNext, ReaderStep, DispatcherStep, KeyExchangeStep, RegistrationStep, MemberStep

\* The message that the member takes is the next of the encrypted ones.
LEMMA MemberTakesNext ==
    ASSUME TypeOK, DispatcherInv, ForwardedInv, MemberTakes
    PROVE  /\ item \in 1..read /\ joinedAt < item /\ kinds[item] \in Encrypted
           /\ DOMAIN forwarded' = 1..(Len(forwarded) + 1)
           /\ forwarded'[Len(forwarded) + 1] = item
           /\ \A i \in 1..Len(forwarded) : forwarded'[i] = forwarded[i] /\ forwarded[i] < item
           /\ \A last : AllForwardedUpTo(last) => AllForwardedUpTo(last)'
           /\ AllForwardedUpTo(item)'
<1>1. /\ item \in 1..read /\ forwarded \in Seq(1..read) /\ read \in Nat
      /\ Len(forwarded) \in Nat /\ DOMAIN forwarded = 1..Len(forwarded)
      /\ \A i \in 1..Len(forwarded) : forwarded[i] \in Nat
  BY Elements DEF MemberTakes, Delivered, DispatcherInv, TypeOK
<1>2. /\ DOMAIN forwarded' = 1..(Len(forwarded) + 1) /\ forwarded'[Len(forwarded) + 1] = item
      /\ \A i \in 1..Len(forwarded) : forwarded'[i] = forwarded[i]
  <2>1. forwarded' = Append(forwarded, item)
    BY DEF MemberTakes
  <2> QED
    BY <1>1, <2>1, Appended
<1>3. /\ Reached("registration") = item - 1
      /\ Dispatching /\ member # None /\ kinds[item] \in Encrypted
  BY DEF MemberTakes, Delivered, Dispatching, Reached, Owed, None
<1>4. UNCHANGED <<kinds, joinedAt>> /\ joinedAt \in Nat
  BY Elements DEF MemberTakes, Delivered, netVars
<1>5. /\ joinedAt <= item - 1 /\ AllForwardedUpTo(item - 1)
      /\ \A i \in 1..Len(forwarded) : forwarded[i] <= item - 1
  BY <1>1, <1>3 DEF ForwardedInv
<1>6. ASSUME NEW last, AllForwardedUpTo(last)
      PROVE  AllForwardedUpTo(last)'
  BY <1>1, <1>2, <1>4, <1>6 DEF AllForwardedUpTo
<1>7. AllForwardedUpTo(item)'
  <2>1. ASSUME NEW n \in (joinedAt + 1)..item, kinds[n] \in Encrypted
        PROVE  \E i \in DOMAIN forwarded' : forwarded'[i] = n
    <3>1. CASE n = item
      <4>1. Len(forwarded) + 1 \in DOMAIN forwarded'
        BY <1>1, <1>2
      <4> QED
        BY <1>2, <3>1, <4>1
    <3>2. CASE n # item
      BY <1>1, <1>2, <1>4, <1>5, <2>1, <3>2 DEF AllForwardedUpTo
    <3> QED
      BY <3>1, <3>2
  <2> QED
    BY <1>4, <2>1 DEF AllForwardedUpTo, MemberTakes, Delivered
<1> QED
  BY <1>1, <1>2, <1>3, <1>4, <1>5, <1>6, <1>7

\* The member has taken every encrypted message that its subscription was given.
LEMMA ForwardedKept ==
    ASSUME TypeOK, DispatcherInv, TurnsInv, ForwardedInv, ServerNext
    PROVE  ForwardedInv'
<1> USE DEF TypeOK, DispatcherInv, TurnsInv, ForwardedInv, AllForwardedUpTo,
        Dispatching, Owed, Reached, Plain, Encrypted, None, Subscribers, netVars, dispatchVars, histories
<1>1. CASE ReadMessage
  BY <1>1 DEF ReadMessage
<1>2. CASE ReadFails
  BY <1>2 DEF ReadFails
<1>3. CASE TakeMessage
  BY <1>3 DEF TakeMessage, ServeNext
<1>4. CASE TakeDisconnect
  BY <1>4 DEF TakeDisconnect, ServeNext
<1>5. CASE SkipUndecryptable
  <2> HIDE DEF TypeOK, DispatcherInv, TurnsInv, ForwardedInv, AllForwardedUpTo, Reached
  <2>1. /\ UNCHANGED <<kinds, joinedAt, forwarded, member, item>> /\ Dispatching
        /\ Reached("registration") = item - 1 /\ Reached("registration")' = item
        /\ kinds[item] \notin Encrypted
    BY <1>5 DEF SkipUndecryptable, ServeNext, DispatcherInv, Reached
  <2>2. /\ item \in Nat /\ joinedAt \in Nat
        /\ \A i \in DOMAIN forwarded : forwarded[i] \in Nat
    BY Elements
  <2>3. AllForwardedUpTo(item - 1) => AllForwardedUpTo(item)
    BY <2>1, <2>2 DEF AllForwardedUpTo
  <2> QED
    BY <2>1, <2>2, <2>3 DEF ForwardedInv, AllForwardedUpTo
<1>6. CASE ExchangeSubscribes
  BY <1>6 DEF ExchangeSubscribes, Subscribed
<1>7. CASE ExchangeSetUp
  BY <1>7 DEF ExchangeSetUp, OnlyKeyExchange
<1>8. CASE ExchangeWrote
  BY <1>8 DEF ExchangeWrote, OnlyKeyExchange
<1>9. CASE ExchangeTakes
  BY <1>9 DEF ExchangeTakes, Delivered, ServeNext
<1>10. CASE ExchangeDropped
  BY <1>10 DEF ExchangeDropped, Dropped, ServeNext
<1>11. CASE HandOver
  BY <1>11 DEF HandOver
<1>12. CASE CloseSuccess
  BY <1>12 DEF CloseSuccess, OnlyKeyExchange
<1>13. CASE ExchangeUnSubscribes
  BY <1>13 DEF ExchangeUnSubscribes, UnSubscribed
<1>14. CASE RegistrationSubscribes
  BY <1>14 DEF RegistrationSubscribes, Subscribed
<1>15. CASE Announce
  BY <1>15 DEF Announce, OnlyRegistration
<1>16. CASE RegistrationTakes
  BY <1>16 DEF RegistrationTakes, Delivered, ServeNext
<1>17. CASE RegistrationDropped
  BY <1>17 DEF RegistrationDropped, Dropped, ServeNext
<1>18. CASE RangeEnds
  BY <1>18 DEF RangeEnds, OnlyRegistration
<1>19. CASE Join
  BY <1>19 DEF Join
<1>20. CASE SubscribeMailbox
  BY <1>20 DEF SubscribeMailbox
<1>21. CASE MemberReturns
  BY <1>21 DEF MemberReturns
<1>22. CASE MemberTakes
  <2>1. UNCHANGED <<joinedAt, item>> /\ member' # None /\ Reached("registration")' = item
    BY <1>22 DEF MemberTakes, Delivered, ServeNext
  <2> HIDE DEF TypeOK, DispatcherInv, TurnsInv, ForwardedInv, AllForwardedUpTo, Reached
  <2>2. /\ joinedAt \in Nat /\ item \in Nat /\ Len(forwarded) \in Nat /\ joinedAt < item
        /\ DOMAIN forwarded' = 1..(Len(forwarded) + 1) /\ forwarded'[Len(forwarded) + 1] = item
        /\ \A i \in 1..Len(forwarded) :
              /\ forwarded[i] \in 1..read /\ read \in Nat
              /\ forwarded'[i] = forwarded[i] /\ forwarded[i] < item
    BY <1>22, MemberTakesNext, Elements
  <2>3. \A i \in DOMAIN forwarded' : forwarded'[i] <= item
    BY <2>2
  <2>4. AllForwardedUpTo(Reached("registration"))'
    <3>1. AllForwardedUpTo(item)'
      BY <1>22, MemberTakesNext
    <3> QED
      BY <2>1, <3>1 DEF AllForwardedUpTo
  <2> QED
    BY <2>1, <2>2, <2>3, <2>4 DEF ForwardedInv
<1>23. CASE MemberDropped
  BY <1>23 DEF MemberDropped, Dropped, ServeNext
<1>24. CASE MailArrives
  BY <1>24 DEF MailArrives
<1>25. CASE MailWritten
  BY <1>25 DEF MailWritten
<1>26. CASE ConcurrentWrite
  BY <1>26 DEF ConcurrentWrite, goroutines
<1> QED
  BY <1>1, <1>2, <1>3, <1>4, <1>5, <1>6, <1>7, <1>8, <1>9, <1>10, <1>11, <1>12,
     <1>13, <1>14, <1>15, <1>16, <1>17, <1>18, <1>19, <1>20, <1>21, <1>22,
     <1>23, <1>24, <1>25, <1>26
     DEF ServerNext, ReaderStep, DispatcherStep, KeyExchangeStep, RegistrationStep, MemberStep

\* So the one it takes is the next one.
LEMMA OrderKept ==
    ASSUME TypeOK, DispatcherInv, TurnsInv, ForwardedInv, ForwardedInOrder, ServerNext
    PROVE  ForwardedInOrder'
<1> USE DEF TypeOK, DispatcherInv, TurnsInv, ForwardedInOrder, OnlyAfterJoin, InSendingOrder,
        AllForwardedUpTo, None, netVars, histories
<1>1. CASE ReadMessage
  BY <1>1 DEF ReadMessage
<1>2. CASE ReadFails
  BY <1>2 DEF ReadFails
<1>3. CASE TakeMessage
  BY <1>3 DEF TakeMessage, ServeNext
<1>4. CASE TakeDisconnect
  BY <1>4 DEF TakeDisconnect, ServeNext
<1>5. CASE SkipUndecryptable
  BY <1>5 DEF SkipUndecryptable, ServeNext
<1>6. CASE ExchangeSubscribes
  BY <1>6 DEF ExchangeSubscribes, Subscribed
<1>7. CASE ExchangeSetUp
  BY <1>7 DEF ExchangeSetUp, OnlyKeyExchange
<1>8. CASE ExchangeWrote
  BY <1>8 DEF ExchangeWrote, OnlyKeyExchange
<1>9. CASE ExchangeTakes
  BY <1>9 DEF ExchangeTakes, Delivered, ServeNext
<1>10. CASE ExchangeDropped
  BY <1>10 DEF ExchangeDropped, Dropped, ServeNext
<1>11. CASE HandOver
  BY <1>11 DEF HandOver
<1>12. CASE CloseSuccess
  BY <1>12 DEF CloseSuccess, OnlyKeyExchange
<1>13. CASE ExchangeUnSubscribes
  BY <1>13 DEF ExchangeUnSubscribes, UnSubscribed
<1>14. CASE RegistrationSubscribes
  BY <1>14 DEF RegistrationSubscribes, Subscribed
<1>15. CASE Announce
  BY <1>15 DEF Announce, OnlyRegistration
<1>16. CASE RegistrationTakes
  BY <1>16 DEF RegistrationTakes, Delivered, ServeNext, ForwardedInv
<1>17. CASE RegistrationDropped
  BY <1>17 DEF RegistrationDropped, Dropped, ServeNext
<1>18. CASE RangeEnds
  BY <1>18 DEF RangeEnds, OnlyRegistration
<1>19. CASE Join
  BY <1>19 DEF Join
<1>20. CASE SubscribeMailbox
  BY <1>20 DEF SubscribeMailbox
<1>21. CASE MemberReturns
  BY <1>21 DEF MemberReturns
<1>22. CASE MemberTakes
  <2> HIDE DEF TypeOK, DispatcherInv, TurnsInv, ForwardedInOrder, OnlyAfterJoin, InSendingOrder,
              AllForwardedUpTo
  <2>1. /\ item \in 1..read /\ joinedAt < item /\ kinds[item] \in Encrypted
        /\ DOMAIN forwarded' = 1..(Len(forwarded) + 1)
        /\ forwarded'[Len(forwarded) + 1] = item
        /\ \A i \in 1..Len(forwarded) : forwarded'[i] = forwarded[i] /\ forwarded[i] < item
        /\ \A last : AllForwardedUpTo(last) => AllForwardedUpTo(last)'
        /\ AllForwardedUpTo(item)'
    BY <1>22, MemberTakesNext
  <2>2. /\ DOMAIN forwarded = 1..Len(forwarded) /\ Len(forwarded) \in Nat
        /\ \A i \in DOMAIN forwarded : forwarded[i] \in Nat
        /\ UNCHANGED <<kinds, joinedAt>>
    BY <1>22, Elements DEF MemberTakes, Delivered
  <2>3. OnlyAfterJoin'
    BY <2>1, <2>2 DEF ForwardedInOrder, OnlyAfterJoin
  <2>4. InSendingOrder'
    BY <2>1, <2>2 DEF ForwardedInOrder, InSendingOrder
  <2>5. ASSUME NEW i \in DOMAIN forwarded'
        PROVE  AllForwardedUpTo(forwarded[i])'
    <3>1. CASE i = Len(forwarded) + 1
      <4>1. forwarded'[i] = item
        BY <2>1, <3>1
      <4>2. AllForwardedUpTo(item)' /\ UNCHANGED item
        BY <1>22, <2>1 DEF MemberTakes, Delivered
      <4> QED
        BY <4>1, <4>2 DEF AllForwardedUpTo
    <3>2. CASE i \in DOMAIN forwarded
      <4>1. forwarded'[i] = forwarded[i] /\ AllForwardedUpTo(forwarded[i])
        BY <2>1, <2>2, <3>2 DEF ForwardedInOrder
      <4> QED
        BY <2>1, <4>1
    <3> QED
      BY <2>1, <2>2, <3>1, <3>2
  <2> QED
    BY <2>3, <2>4, <2>5 DEF ForwardedInOrder
<1>23. CASE MemberDropped
  BY <1>23 DEF MemberDropped, Dropped, ServeNext
<1>24. CASE MailArrives
  BY <1>24 DEF MailArrives
<1>25. CASE MailWritten
  BY <1>25 DEF MailWritten
<1>26. CASE ConcurrentWrite
  BY <1>26 DEF ConcurrentWrite, goroutines
<1> QED
  BY <1>1, <1>2, <1>3, <1>4, <1>5, <1>6, <1>7, <1>8, <1>9, <1>10, <1>11, <1>12,
     <1>13, <1>14, <1>15, <1>16, <1>17, <1>18, <1>19, <1>20, <1>21, <1>22,
     <1>23, <1>24, <1>25, <1>26
     DEF ServerNext, ReaderStep, DispatcherStep, KeyExchangeStep, RegistrationStep, MemberStep

\* At most one goroutine writes, but for the consumer during Welcome.
LEMMA WritersAtOnce ==
    TypeOK /\ TurnsInv /\ Cardinality(Writers) > 1
        => member = "welcoming" /\ Writers = {"member", "consumer"}
<1> SUFFICES ASSUME TypeOK, TurnsInv, Cardinality(Writers) > 1
             PROVE  member = "welcoming" /\ Writers = {"member", "consumer"}
    OBVIOUS
<1>1. /\ "keyExchange" \in Writers => keyExchange \in {"signalling", "replying", "failing"}
      /\ "registration" \in Writers => registration = "announcing"
      /\ "member" \in Writers => member = "welcoming"
      /\ "consumer" \in Writers => consumer = "writing"
      /\ Writers \subseteq {"keyExchange", "registration", "member", "consumer"}
  BY DEF Writers
<1>2. Writers # {} /\ \A g : Writers # {g}
  <2>1. Writers # {}
    BY FS_EmptySet
  <2>2. ASSUME NEW g, Writers = {g}
        PROVE  FALSE
    <3>1. Cardinality(Writers) = 1
      BY <2>2, FS_Singleton, Zenon
    <3> QED
      BY <3>1
  <2> QED
    BY <2>1, <2>2
<1>3. "keyExchange" \in Writers => Writers = {"keyExchange"}
  BY <1>1 DEF TurnsInv, ExchangeOver, None
<1>4. "registration" \in Writers => Writers = {"registration"}
  BY <1>1 DEF TurnsInv, ExchangeOver, None
<1>5. Writers \subseteq {"member", "consumer"}
  BY <1>1, <1>2, <1>3, <1>4
<1>6. Writers = {"member", "consumer"}
  <2>1. Writers # {} /\ Writers # {"member"} /\ Writers # {"consumer"}
    BY <1>2
  <2> QED
    BY <1>5, <2>1
<1> QED
  BY <1>1, <1>6

LEMMA WritersKept ==
    ASSUME TypeOK, TurnsInv, TypeOK', TurnsInv', WritersTakeTurns, ServerNext
    PROVE  WritersTakeTurns'
<1>1. ~crashed
  BY DEF ServerNext, ReaderStep, DispatcherStep, KeyExchangeStep, RegistrationStep, MemberStep
<1>2. (TypeOK /\ TurnsInv /\ Cardinality(Writers) > 1
         => member = "welcoming" /\ Writers = {"member", "consumer"})'
  BY WritersAtOnce, PTL
<1>3. crashed' => ConcurrentWrite
  BY <1>1 DEF ServerNext, ReaderStep, DispatcherStep, KeyExchangeStep, RegistrationStep,
              MemberStep, ReadMessage, ReadFails, TakeMessage, TakeDisconnect,
              SkipUndecryptable, ExchangeSubscribes, ExchangeSetUp, ExchangeWrote, ExchangeTakes,
              ExchangeDropped, HandOver, CloseSuccess, ExchangeUnSubscribes,
              RegistrationSubscribes, Announce, RegistrationTakes, RegistrationDropped,
              RangeEnds, Join, SubscribeMailbox, MemberReturns, MemberTakes, MemberDropped,
              MailArrives, MailWritten, Delivered, Dropped, Subscribed, UnSubscribed,
              OnlyKeyExchange, OnlyRegistration
<1>4. ConcurrentWrite => Writers' = Writers
  BY DEF ConcurrentWrite, goroutines, Writers
<1> QED
  BY <1>2, <1>3, <1>4, WritersAtOnce DEF WritersTakeTurns, ConcurrentWrite

\* Who receives from the dispatcher goes on doing so until it is told of the
\* disconnect; the key exchange is not the dispatcher's before it subscribed.
LEMMA RestKept ==
    ASSUME TypeOK, DispatcherInv, TurnsInv, RestInv, ServerNext
    PROVE  RestInv'
<1> USE DEF TypeOK, DispatcherInv, Dispatching, TurnsInv, ExchangeOver, RestInv, Listening,
            None, Subscribers, netVars, dispatchVars, histories
<1>1. CASE ReadMessage
  BY <1>1 DEF ReadMessage
<1>2. CASE ReadFails
  BY <1>2 DEF ReadFails
<1>3. CASE TakeMessage
  BY <1>3 DEF TakeMessage, ServeNext
<1>4. CASE TakeDisconnect
  BY <1>4 DEF TakeDisconnect, ServeNext
<1>5. CASE SkipUndecryptable
  BY <1>5 DEF SkipUndecryptable, ServeNext
<1>6. CASE ExchangeSubscribes
  BY <1>6 DEF ExchangeSubscribes, Subscribed
<1>7. CASE ExchangeSetUp
  BY <1>7 DEF ExchangeSetUp, OnlyKeyExchange
<1>8. CASE ExchangeWrote
  BY <1>8 DEF ExchangeWrote, OnlyKeyExchange
<1>9. CASE ExchangeTakes
  BY <1>9 DEF ExchangeTakes, Delivered, ServeNext
<1>10. CASE ExchangeDropped
  BY <1>10 DEF ExchangeDropped, Dropped, ServeNext
<1>11. CASE HandOver
  BY <1>11 DEF HandOver
<1>12. CASE CloseSuccess
  BY <1>12 DEF CloseSuccess, OnlyKeyExchange
<1>13. CASE ExchangeUnSubscribes
  BY <1>13 DEF ExchangeUnSubscribes, UnSubscribed
<1>14. CASE RegistrationSubscribes
  BY <1>14 DEF RegistrationSubscribes, Subscribed
<1>15. CASE Announce
  BY <1>15 DEF Announce, OnlyRegistration
<1>16. CASE RegistrationTakes
  BY <1>16 DEF RegistrationTakes, Delivered, ServeNext
<1>17. CASE RegistrationDropped
  BY <1>17 DEF RegistrationDropped, Dropped, ServeNext
<1>18. CASE RangeEnds
  BY <1>18 DEF RangeEnds, OnlyRegistration
<1>19. CASE Join
  BY <1>19 DEF Join
<1>20. CASE SubscribeMailbox
  BY <1>20 DEF SubscribeMailbox
<1>21. CASE MemberReturns
  BY <1>21 DEF MemberReturns
<1>22. CASE MemberTakes
  BY <1>22 DEF MemberTakes, Delivered, ServeNext
<1>23. CASE MemberDropped
  BY <1>23 DEF MemberDropped, Dropped, ServeNext
<1>24. CASE MailArrives
  BY <1>24 DEF MailArrives
<1>25. CASE MailWritten
  BY <1>25 DEF MailWritten
<1>26. CASE ConcurrentWrite
  BY <1>26 DEF ConcurrentWrite, goroutines
<1> QED
  BY <1>1, <1>2, <1>3, <1>4, <1>5, <1>6, <1>7, <1>8, <1>9, <1>10, <1>11, <1>12,
     <1>13, <1>14, <1>15, <1>16, <1>17, <1>18, <1>19, <1>20, <1>21, <1>22,
     <1>23, <1>24, <1>25, <1>26
     DEF ServerNext, ReaderStep, DispatcherStep, KeyExchangeStep, RegistrationStep, MemberStep

\* A message that is dispatched has been sent when at most as much was told as
\* at its dispatch; who was announced by then takes it.
LEMMA HeardKept ==
    ASSUME TypeOK, DispatcherInv, TurnsInv, HandledInv, ForwardedInv, HeardInv, ServerNext
    PROVE  HeardInv'
<1> USE DEF TypeOK, DispatcherInv, TurnsInv, HeardInv, HeardUpTo, JoinedUpTo, Taken, LastHandled,
        ExchangeOver, Dispatching, Owed, Reached, None, Subscribers, netVars, dispatchVars, histories
<1>1. CASE ReadMessage
  BY <1>1 DEF ReadMessage
<1>2. CASE ReadFails
  BY <1>2 DEF ReadFails
<1>3. CASE TakeMessage
  BY <1>3 DEF TakeMessage, ServeNext
<1>4. CASE TakeDisconnect
  BY <1>4 DEF TakeDisconnect, ServeNext
<1>5. CASE SkipUndecryptable
  <2> HIDE DEF TypeOK, DispatcherInv, TurnsInv, HeardInv, HeardUpTo, JoinedUpTo, Taken, Reached
  <2>1. /\ UNCHANGED <<kinds, told, handled, joinedAt, item, keyExchange, subscriptions>>
        /\ Dispatching /\ Dispatching' /\ LastHandled' = LastHandled
    BY <1>5 DEF SkipUndecryptable, ServeNext
  <2>2. /\ Reached("keyExchange")' = Reached("keyExchange")
        /\ Reached("registration") = item - 1 /\ Reached("registration")' = item
        /\ kinds[item] # "connect" /\ item \in Nat
    BY <1>5, Elements DEF SkipUndecryptable, ServeNext, DispatcherInv, Reached, Plain
  <2>3. JoinedUpTo(item)
    <3>1. JoinedUpTo(item - 1)
      BY <2>1, <2>2 DEF HeardInv
    <3> QED
      BY <2>2, <3>1 DEF JoinedUpTo
  <2>4. JoinedUpTo(Reached("registration"))'
    BY <2>1, <2>2, <2>3 DEF JoinedUpTo
  <2>5. /\ handled' # <<>> => HeardUpTo(LastHandled)'
        /\ ~ExchangeOver' => HeardUpTo(Reached("keyExchange"))'
    BY <2>1, <2>2 DEF HeardInv, HeardUpTo, Taken
  <2> QED
    BY <2>1, <2>4, <2>5 DEF HeardInv
<1>6. CASE ExchangeSubscribes
  BY <1>6 DEF ExchangeSubscribes, Subscribed
<1>7. CASE ExchangeSetUp
  BY <1>7 DEF ExchangeSetUp, OnlyKeyExchange
<1>8. CASE ExchangeWrote
  BY <1>8 DEF ExchangeWrote, OnlyKeyExchange
<1>9. CASE ExchangeTakes
  <2> HIDE DEF TypeOK, DispatcherInv, TurnsInv, HeardInv, HeardUpTo, JoinedUpTo, Taken, Reached,
               LastHandled
  <2>1. /\ UNCHANGED <<kinds, told, joinedAt, item, subscriptions>>
        /\ Dispatching /\ Dispatching' /\ ~ExchangeOver
        /\ keyExchange' \notin {"subscribing", "setup"}
    BY <1>9 DEF ExchangeTakes, Delivered, ServeNext
  <2>2. /\ Reached("registration")' = Reached("registration")
        /\ Reached("keyExchange") = item - 1 /\ Reached("keyExchange")' = item
    BY <1>9 DEF ExchangeTakes, Delivered, ServeNext, DispatcherInv, Reached
  <2>3. item \in 1..read /\ handled \in Seq(1..read) /\ read \in Nat
    BY <1>9, Elements DEF ExchangeTakes, Delivered, DispatcherInv, TypeOK
  <2>4. /\ Len(handled) \in Nat /\ DOMAIN handled = 1..Len(handled)
        /\ Len(handled') = Len(handled) + 1 /\ DOMAIN handled' = 1..(Len(handled) + 1)
        /\ handled'[Len(handled) + 1] = item
        /\ \A i \in 1..Len(handled) : handled'[i] = handled[i] /\ handled[i] \in 1..read
    <3>1. handled' = Append(handled, item)
      BY <1>9 DEF ExchangeTakes
    <3> QED
      BY <2>3, <3>1, Appended
  <2>5. LastHandled' = item
    BY <2>4 DEF LastHandled
  <2>6. \A i \in DOMAIN handled : handled[i] < item
    <3>1. handled # <<>> => LastHandled = item - 1
      BY <2>1, <2>2 DEF HandledInv
    <3>2. \A i \in DOMAIN handled : handled[i] <= LastHandled /\ handled # <<>>
      BY <2>4 DEF HeardInv
    <3> QED
      BY <2>3, <2>4, <3>1, <3>2
  <2>7. \A i \in DOMAIN handled' : handled'[i] <= LastHandled'
    BY <2>3, <2>4, <2>5, <2>6
  <2>8. Taken(item)' /\ \A n : Taken(n) => Taken(n)'
    BY <2>1, <2>4 DEF Taken
  <2>9. \A n \in 1..item : told[n] # "nothing" => Taken(n)'
    <3>1. \A n \in 1..(item - 1) : told[n] # "nothing" => Taken(n)
      BY <2>1, <2>2 DEF HeardInv, HeardUpTo
    <3>2. ASSUME NEW n \in 1..item
          PROVE  n \in 1..(item - 1) \/ n = item
      BY <2>3
    <3>3. ASSUME NEW n \in 1..item, told[n] # "nothing"
          PROVE  Taken(n)'
      <4>1. CASE n = item
        BY <2>1, <2>8, <4>1 DEF Taken
      <4>2. CASE n \in 1..(item - 1)
        BY <2>8, <3>1, <3>3, <4>2
      <4> QED
        BY <3>2, <4>1, <4>2
    <3> QED
      BY <3>3
  <2>10. HeardUpTo(LastHandled)' /\ HeardUpTo(Reached("keyExchange"))'
    BY <2>1, <2>2, <2>5, <2>9 DEF HeardUpTo
  <2>11. JoinedUpTo(Reached("registration"))'
    BY <2>1, <2>2 DEF HeardInv, JoinedUpTo
  <2> QED
    BY <2>1, <2>7, <2>10, <2>11 DEF HeardInv
<1>10. CASE ExchangeDropped
  BY <1>10 DEF ExchangeDropped, Dropped, ServeNext
<1>11. CASE HandOver
  BY <1>11 DEF HandOver
<1>12. CASE CloseSuccess
  BY <1>12 DEF CloseSuccess, OnlyKeyExchange
<1>13. CASE ExchangeUnSubscribes
  BY <1>13 DEF ExchangeUnSubscribes, UnSubscribed
<1>14. CASE RegistrationSubscribes
  BY <1>14 DEF RegistrationSubscribes, Subscribed
<1>15. CASE Announce
  BY <1>15 DEF Announce, OnlyRegistration
<1>16. CASE RegistrationTakes
  BY <1>16 DEF RegistrationTakes, Delivered, ServeNext
<1>17. CASE RegistrationDropped
  BY <1>17 DEF RegistrationDropped, Dropped, ServeNext
<1>18. CASE RangeEnds
  BY <1>18 DEF RangeEnds, OnlyRegistration
<1>19. CASE Join
  BY <1>19 DEF Join
<1>20. CASE SubscribeMailbox
  BY <1>20 DEF SubscribeMailbox
<1>21. CASE MemberReturns
  BY <1>21 DEF MemberReturns
<1>22. CASE MemberTakes
  <2> HIDE DEF TypeOK, DispatcherInv, TurnsInv, HeardInv, HeardUpTo, JoinedUpTo, Taken, Reached
  <2>1. /\ UNCHANGED <<kinds, told, handled, joinedAt, item, keyExchange, subscriptions>>
        /\ Dispatching /\ Dispatching' /\ LastHandled' = LastHandled /\ member # None
    BY <1>22 DEF MemberTakes, Delivered, ServeNext
  <2>2. /\ Reached("keyExchange")' = Reached("keyExchange")
        /\ Reached("registration") = item - 1 /\ Reached("registration")' = item
        /\ item \in Nat
    BY <1>22, Elements DEF MemberTakes, Delivered, ServeNext, DispatcherInv, Reached
  <2>3. JoinedUpTo(item)
    <3>1. JoinedUpTo(item - 1) /\ joinedAt <= item - 1
      BY <2>1, <2>2 DEF HeardInv, ForwardedInv
    <3>2. joinedAt \in 1..item
      BY <2>1, <2>2, <3>1, Elements DEF TurnsInv
    <3> QED
      BY <2>2, <3>1, <3>2 DEF JoinedUpTo
  <2>4. JoinedUpTo(Reached("registration"))'
    BY <2>1, <2>2, <2>3 DEF JoinedUpTo
  <2>5. /\ handled' # <<>> => HeardUpTo(LastHandled)'
        /\ ~ExchangeOver' => HeardUpTo(Reached("keyExchange"))'
    BY <2>1, <2>2 DEF HeardInv, HeardUpTo, Taken
  <2> QED
    BY <2>1, <2>4, <2>5 DEF HeardInv
<1>23. CASE MemberDropped
  BY <1>23 DEF MemberDropped, Dropped, ServeNext
<1>24. CASE MailArrives
  BY <1>24 DEF MailArrives
<1>25. CASE MailWritten
  BY <1>25 DEF MailWritten
<1>26. CASE ConcurrentWrite
  BY <1>26 DEF ConcurrentWrite, goroutines
<1> QED
  BY <1>1, <1>2, <1>3, <1>4, <1>5, <1>6, <1>7, <1>8, <1>9, <1>10, <1>11, <1>12,
     <1>13, <1>14, <1>15, <1>16, <1>17, <1>18, <1>19, <1>20, <1>21, <1>22,
     <1>23, <1>24, <1>25, <1>26
     DEF ServerNext, ReaderStep, DispatcherStep, KeyExchangeStep, RegistrationStep, MemberStep

-----------------------------------------------------------------------------
LEMMA ConnectionInitially == Init => ConnectionInv
<1> SUFFICES ASSUME Init
             PROVE  ConnectionInv
    OBVIOUS
<1> USE DEF Init
<1>1. kinds \in Seq(Kinds) /\ Len(kinds) = 0 /\ handled = <<>> /\ forwarded = <<>>
  BY EmptySeq
<1>2. handled \in Seq(1..read) /\ forwarded \in Seq(1..read)
  BY EmptySeq
<1>3. Len(handled) = 0 /\ DOMAIN forwarded = {}
  BY <1>1
<1>4. TypeOK
  <2>1. read \in 0..Len(kinds) /\ Len(kinds) <= MaxMessages /\ item \in 0..MaxMessages
        /\ joinedAt \in 0..read /\ mail \in 0..MaxMail
    BY <1>1, ConnectionAssumption
  <2>2. /\ subscriptions \subseteq Subscribers /\ unserved \subseteq Subscribers
        /\ serving \in Subscribers \cup {None}
    OBVIOUS
  <2> QED
    BY <1>1, <1>2, <2>1, <2>2, EmptySeq DEF TypeOK, None
<1>5. DispatcherInv
  BY DEF DispatcherInv, Dispatching, None
<1>6. TurnsInv
  BY DEF TurnsInv, None
<1>7. HandledInv /\ ForwardedInv
  BY <1>1 DEF HandledInv, ForwardedInv, None
<1>8. HandledWithoutGap /\ MemberWasVerified
  BY <1>3 DEF HandledWithoutGap, MemberWasVerified
<1>9. ForwardedInOrder
  BY <1>3 DEF ForwardedInOrder, OnlyAfterJoin, InSendingOrder
<1>10. WritersTakeTurns
  BY <1>4, <1>6, WritersAtOnce DEF WritersTakeTurns
<1>11. RestInv
  BY DEF RestInv, Listening, Dispatching, None
<1>12. HeardInv
  BY <1>1 DEF HeardInv, JoinedUpTo, HeardUpTo, Reached, Owed, Dispatching
<1> QED
  BY <1>4, <1>5, <1>6, <1>7, <1>8, <1>9, <1>10, <1>11, <1>12 DEF ConnectionInv

LEMMA ConnectionStep == ConnectionInv /\ [Next]_vars => ConnectionInv'
<1> SUFFICES ASSUME ConnectionInv, [Next]_vars
             PROVE  ConnectionInv'
    OBVIOUS
<1>1. CASE Leave \/ \E kind \in Kinds : Send(kind)
  BY <1>1, ClientKeepsInv
<1>2. CASE ServerNext
  <2> USE DEF ConnectionInv
  <2>1. TypeOK' /\ TurnsInv'
    BY <1>2, TypeKept, TurnsKept
  <2>2. DispatcherInv' /\ HandledInv' /\ HandledWithoutGap' /\ MemberWasVerified'
    BY <1>2, DispatcherKept, HandledKept, GaplessKept, VerifiedKept
  <2>3. ForwardedInv' /\ ForwardedInOrder'
    BY <1>2, ForwardedKept, OrderKept
  <2>4. WritersTakeTurns' /\ RestInv'
    BY <1>2, <2>1, WritersKept, RestKept
  <2>5. HeardInv'
    BY <1>2, HeardKept
  <2> QED
    BY <2>1, <2>2, <2>3, <2>4, <2>5
<1>3. CASE UNCHANGED vars
  <2> USE <1>3 DEF vars, netVars, goroutines, dispatchVars, histories, ConnectionInv
  <2>1. TypeOK'
    BY DEF TypeOK
  <2>2. DispatcherInv' /\ TurnsInv'
    BY DEF DispatcherInv, TurnsInv, Dispatching, ExchangeOver, VerifiedLast, LastHandled
  <2>3. HandledInv' /\ HandledWithoutGap' /\ MemberWasVerified'
    BY DEF HandledInv, HandledWithoutGap, MemberWasVerified, Dispatching, Owed, Reached,
           ExchangeOver, LastHandled
  <2>4. ForwardedInv' /\ ForwardedInOrder'
    BY DEF ForwardedInv, ForwardedInOrder, OnlyAfterJoin, InSendingOrder, AllForwardedUpTo,
           Dispatching, Owed, Reached
  <2>5. WritersTakeTurns' /\ RestInv'
    BY DEF WritersTakeTurns, Writers, RestInv, Listening, Dispatching
  <2>6. HeardInv'
    BY DEF HeardInv, HeardUpTo, JoinedUpTo, Taken, Dispatching, Owed, Reached, ExchangeOver,
           LastHandled
  <2> QED
    BY <2>1, <2>2, <2>3, <2>4, <2>5, <2>6
<1> QED
  BY <1>1, <1>2, <1>3 DEF Next

LEMMA ConnectionInvariant == Spec => []ConnectionInv
BY ConnectionInitially, ConnectionStep, PTL DEF Spec

(***************************************************************************)
(* The variables keep their types, for any number of messages and mails.   *)
(***************************************************************************)
THEOREM TypesAreKept == Spec => []TypeOK
<1>1. ConnectionInv => TypeOK
  BY DEF ConnectionInv
<1> QED
  BY <1>1, ConnectionInvariant, PTL

(***************************************************************************)
(* keyExchange loses no message between the first it takes and the last.   *)
(***************************************************************************)
THEOREM ExchangeSkipsNothing == Spec => []HandledWithoutGap
<1>1. ConnectionInv => HandledWithoutGap
  BY DEF ConnectionInv
<1> QED
  BY <1>1, ConnectionInvariant, PTL

(***************************************************************************)
(* A client that waits for Ready before its first request and for          *)
(* AvailableActions before its connect loses neither to a dispatcher that  *)
(* has nobody to hand it to, whatever else it sends.                       *)
(***************************************************************************)
THEOREM WaitingIsEnough == Spec => []HeardIfWaited
<1>1. ConnectionInv => HeardIfWaited
  <2> SUFFICES ASSUME ConnectionInv, NEW n \in Dispatched
               PROVE  /\ told[n] # "nothing" => Taken(n) \/ AfterKeyExchange(n)
                      /\ told[n] = "actions" /\ kinds[n] = "connect" => joinedAt \in 1..n
    BY DEF HeardIfWaited
  <2>1. /\ item \in Nat /\ read \in Nat /\ n \in Nat
        /\ DOMAIN handled = 1..Len(handled) /\ Len(handled) \in Nat
        /\ \A i \in 1..Len(handled) : handled[i] \in 1..read
        /\ handled # <<>> => LastHandled \in 1..read
    BY Elements DEF ConnectionInv, Dispatched
  <2>2. Dispatching /\ n \in 1..Reached("keyExchange") /\ n \in 1..Reached("registration")
    BY <2>1 DEF ConnectionInv, HeardInv, TypeOK, Dispatched, Dispatching, Reached, Owed
  <2>3. told[n] = "actions" /\ kinds[n] = "connect" => joinedAt \in 1..n
    BY <2>2 DEF ConnectionInv, HeardInv, JoinedUpTo
  <2>4. ~ExchangeOver /\ told[n] # "nothing" => Taken(n)
    BY <2>2 DEF ConnectionInv, HeardInv, HeardUpTo
  <2>5. ASSUME ExchangeOver, told[n] # "nothing", ~Taken(n)
        PROVE  AfterKeyExchange(n)
    <3>1. handled # <<>> => LastHandled < n
      BY <2>1, <2>2, <2>5 DEF ConnectionInv, HeardInv, HeardUpTo
    <3>2. \A i \in DOMAIN handled : handled # <<>> /\ handled[i] <= LastHandled
      BY <2>1 DEF ConnectionInv, HeardInv
    <3> QED
      BY <2>1, <2>5, <3>1, <3>2 DEF AfterKeyExchange, ExchangeOver
  <2> QED
    BY <2>3, <2>4, <2>5
<1> QED
  BY <1>1, ConnectionInvariant, PTL

(***************************************************************************)
(* From the connect on, connect's goroutine sends each encrypted message   *)
(* to the exchange, once and in the client's order, though it shares the   *)
(* subscription with registerConnection, which started it.                 *)
(***************************************************************************)
THEOREM ChangeOfHandsLosesNothing == Spec => []ForwardedInOrder
<1>1. ConnectionInv => ForwardedInOrder
  BY DEF ConnectionInv
<1> QED
  BY <1>1, ConnectionInvariant, PTL

(***************************************************************************)
(* No connection gets a mailbox without a verify that it sent before its   *)
(* connect, which was the last message of its key exchange.                *)
(***************************************************************************)
THEOREM MembersAreVerified == Spec => []MemberWasVerified
<1>1. ConnectionInv => MemberWasVerified
  BY DEF ConnectionInv
<1> QED
  BY <1>1, ConnectionInvariant, PTL

(***************************************************************************)
(* Two goroutines write to the socket at a time, and the process can die   *)
(* of it, only when connect writes Welcome while the mailbox's consumer    *)
(* writes as well.                                                         *)
(***************************************************************************)
THEOREM OnlyWelcomeCollides == Spec => []WritersTakeTurns
<1>1. ConnectionInv => WritersTakeTurns
  BY DEF ConnectionInv
<1> QED
  BY <1>1, ConnectionInvariant, PTL

-----------------------------------------------------------------------------
(* Where the server comes to rest. *)

\* The dispatcher would serve a reader that has something for it.
LEMMA DispatcherBusy ==
    ASSUME TypeOK, DispatcherInv, Resting, gone
    PROVE  dispatcher # "select"
BY DEF TypeOK, DispatcherInv, Dispatching, Resting

\* No message is dispatched that no receiver could take.
LEMMA NothingInHand ==
    ASSUME TypeOK, DispatcherInv, RestInv, dispatcher = "dispatching"
    PROVE  kinds[item] \in Plain \cup Encrypted
<1>1. item \in 1..Len(kinds) /\ kinds \in Seq(Kinds)
  BY Elements DEF TypeOK, DispatcherInv
<1>2. kinds[item] \in Kinds
  BY <1>1
<1> QED
  BY <1>2 DEF Kinds, RestInv

\* A dispatcher that waits for a receiver has none to wait for.
LEMMA HeldUp ==
    ASSUME TypeOK, DispatcherInv, TurnsInv, RestInv, Resting,
           dispatcher \in {"dispatching", "dropping"}
    PROVE  Wedged
<1>1. serving \in Subscribers /\ serving \in subscriptions
  BY DEF TypeOK, DispatcherInv, None, Subscribers
<1>2. CASE serving = "keyExchange"
  <2>1. keyExchange \in {"verifying", "select", "unsubscribing"}
    BY <1>1, <1>2 DEF TypeOK, TurnsInv, Resting
  <2>2. keyExchange # "select"
    BY <1>2, NothingInHand DEF Resting, Plain, Encrypted
  <2>3. keyExchange # "verifying"
    BY DEF TypeOK, TurnsInv, ExchangeOver, RestInv, Resting
  <2> QED
    BY <1>2, <2>1, <2>2, <2>3 DEF Wedged
<1>3. CASE serving = "registration"
  <2>1. Listening
    BY <1>1, <1>3 DEF RestInv, Dispatching
  <2>2. dispatcher = "dispatching" => kinds[item] \in Encrypted
    BY <1>3, NothingInHand DEF Resting
  <2>3. registration # "select" /\ member # "select"
    BY <1>3, <2>2 DEF Resting
  <2>4. registration = "failed"
    BY <2>1, <2>3 DEF TypeOK, Listening, Resting
  <2> QED
    BY <1>3, <2>4 DEF Wedged
<1> QED
  BY <1>1, <1>2, <1>3 DEF Subscribers

\* After the disconnect went round, only the dispatcher is waited for.
LEMMA LeftBehind ==
    ASSUME TypeOK, DispatcherInv, TurnsInv, RestInv, Resting, dispatcher = "ended"
    PROVE  Ended \/ Leaked
<1>1. reader = "ended" /\ serving = None /\ unserved = {}
  BY DEF DispatcherInv, Dispatching
<1>2. ~Listening
  BY <1>1 DEF RestInv, Dispatching, None
<1>3. keyExchange \in {"subscribing", "unsubscribing", "ended"}
  BY <1>1 DEF RestInv, Dispatching, None, Resting
<1>4. registration \in {"range", "subscribing", "ended"} /\ member \in {None, "ended"}
  BY <1>2 DEF Listening, TypeOK
<1>5. keyExchange = "ended" => registration # "range"
  BY DEF Resting
<1> QED
  BY <1>1, <1>3, <1>4, <1>5 DEF Ended, Leaked

(***************************************************************************)
(* For any number of messages: with the client gone and no guard of the    *)
(* server met, its goroutines all ended, or wait for a dispatcher that     *)
(* ended, or the dispatcher waits for a subscriber that left.              *)
(***************************************************************************)
THEOREM NoOtherWayToRest == Spec => []RestsOnlyThere
<1>1. ConnectionInv => RestsOnlyThere
  <2> SUFFICES ASSUME ConnectionInv, gone, Resting PROVE Ended \/ Leaked \/ Wedged
    BY DEF RestsOnlyThere
  <2>1. dispatcher # "select"
    BY DispatcherBusy DEF ConnectionInv
  <2>2. dispatcher \in {"dispatching", "dropping"} => Wedged
    BY HeldUp DEF ConnectionInv
  <2>3. dispatcher = "ended" => Ended \/ Leaked
    BY LeftBehind DEF ConnectionInv
  <2> QED
    BY <2>1, <2>2, <2>3 DEF ConnectionInv, TypeOK
<1> QED
  BY <1>1, ConnectionInvariant, PTL

(***************************************************************************)
(* For any number of messages and mails: a connection that had become a    *)
(* member, with its key exchange over and its client gone, can come to     *)
(* rest only with all its goroutines ended; none of them waits for the     *)
(* dispatcher, nor it for them.  It is the safety half of MemberCleanedUp. *)
(***************************************************************************)
THEOREM MembersLeaveNothingBehind ==
    Spec => [](gone /\ ~crashed /\ Resting /\ member # None /\ keyExchange = "ended" => Ended)
<1>1. ASSUME TurnsInv, RestsOnlyThere, gone, ~crashed, Resting, member # None,
             keyExchange = "ended"
      PROVE  Ended
  <2>1. ~Leaked /\ ~Wedged
    BY <1>1 DEF TurnsInv, Leaked, Wedged
  <2> QED
    BY <1>1, <2>1 DEF RestsOnlyThere
<1>2. ConnectionInv => TurnsInv
  BY DEF ConnectionInv
<1> QED
  BY <1>1, <1>2, ConnectionInvariant, NoOtherWayToRest, PTL

(***************************************************************************)
(* The same of the other two properties under fairness, with the client    *)
(* there or not.  No goroutine waits for good in the middle of a handover: *)
(* registerConnection is free when the key exchange hands a verified       *)
(* connection over, and can subscribe then unless the dispatcher is stuck  *)
(* or has ended (VerifiedIsAnnounced).                                     *)
(***************************************************************************)
THEOREM HandOverIsNotHeldUp ==
    Spec => [](Resting => /\ keyExchange # "verifying"
                          /\ registration \in {"subscribing", "announcing"} => Wedged \/ Leaked)
<1>1. ASSUME ConnectionInv, Resting PROVE keyExchange # "verifying"
  BY <1>1 DEF ConnectionInv, TypeOK, TurnsInv, ExchangeOver, RestInv, Resting
<1>2. ASSUME ConnectionInv, Resting, registration \in {"subscribing", "announcing"}
      PROVE  Wedged \/ Leaked
  <2>1. registration = "subscribing" /\ dispatcher # "select"
    BY <1>2 DEF Resting
  <2>2. dispatcher \in {"dispatching", "dropping"} => Wedged
    BY <1>2, HeldUp DEF ConnectionInv
  <2>3. dispatcher = "ended" => Leaked
    BY <1>2, <2>1 DEF ConnectionInv, DispatcherInv, Dispatching, Leaked
  <2> QED
    BY <1>2, <2>1, <2>2, <2>3 DEF ConnectionInv, TypeOK
<1> QED
  BY <1>1, <1>2, ConnectionInvariant, PTL

(***************************************************************************)
(* And once the key exchange is over, the reader waits for good with a     *)
(* message in its hand only if registerConnection failed while it was      *)
(* subscribed (MessagesFlow).                                              *)
(***************************************************************************)
THEOREM ReaderIsHeldUpOnlyByFailure ==
    Spec => [](Resting /\ reader \in {"sending", "disconnecting"} /\ keyExchange = "ended" =>
                 registration = "failed" /\ serving = "registration")
<1>1. ASSUME ConnectionInv, Resting, reader \in {"sending", "disconnecting"}, keyExchange = "ended"
      PROVE  registration = "failed" /\ serving = "registration"
  <2>1. dispatcher \in {"dispatching", "dropping"}
    BY <1>1 DEF ConnectionInv, TypeOK, DispatcherInv, Dispatching, Resting
  <2>2. Wedged
    BY <1>1, <2>1, HeldUp DEF ConnectionInv
  <2> QED
    BY <1>1, <2>2 DEF Wedged
<1> QED
  BY <1>1, ConnectionInvariant, PTL
=============================================================================
