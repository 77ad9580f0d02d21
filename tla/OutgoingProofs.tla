--------------------------- MODULE OutgoingProofs ---------------------------
(***************************************************************************)
(* Outgoing's promises follow from this invariant: what the connection     *)
(* still owes is no older than its replayed message, that one no older     *)
(* than anything sent on an earlier connection, and it owes nothing it has *)
(* already sent.                                                           *)
(***************************************************************************)
EXTENDS Outgoing, SequenceTheorems, TLAPS

OutgoingTypeOK ==
    /\ latest \in Nat /\ connection \in Nat /\ replayed \in Nat
    /\ up \in BOOLEAN
    /\ replayed <= latest /\ waiting \subseteq replayed..latest
    /\ sent \in Seq([connection: Nat, message: Nat])

NothingNewer ==
    \A i \in DOMAIN sent :
        /\ sent[i].connection <= connection
        /\ sent[i].message <= latest
        /\ sent[i].connection < connection => sent[i].message <= replayed
        /\ sent[i].connection = connection => sent[i].message \notin waiting
        /\ sent[i].connection = connection => replayed <= sent[i].message

OutgoingInv == OutgoingTypeOK /\ NothingNewer /\ SentOnce /\ NothingOlderLater

LEMMA OutgoingInitially == OutgoingInit => OutgoingInv
<1> SUFFICES ASSUME OutgoingInit
             PROVE  OutgoingInv
    OBVIOUS
<1>1. sent = <<>> /\ DOMAIN sent = {}
  BY DEF OutgoingInit
<1>2. OutgoingTypeOK
  <2>1. sent \in Seq([connection: Nat, message: Nat])
    BY <1>1
  <2>2. waiting \subseteq replayed..latest /\ up \in BOOLEAN
    BY DEF OutgoingInit
  <2> QED
    BY <2>1, <2>2 DEF OutgoingInit, OutgoingTypeOK
<1>3. NothingNewer /\ SentOnce /\ NothingOlderLater
  BY <1>1 DEF NothingNewer, SentOnce, NothingOlderLater
<1> QED
  BY <1>2, <1>3 DEF OutgoingInv

LEMMA OutgoingStep == OutgoingInv /\ [OutgoingNext]_outgoingVars => OutgoingInv'
<1> SUFFICES ASSUME OutgoingInv, [OutgoingNext]_outgoingVars
             PROVE  OutgoingInv'
    OBVIOUS
<1> USE DEF OutgoingInv
<1>a. ASSUME NEW i \in DOMAIN sent
      PROVE  sent[i].connection \in Nat /\ sent[i].message \in Nat
  <2>1. sent \in Seq([connection: Nat, message: Nat])
    BY DEF OutgoingTypeOK
  <2>2. sent[i] \in [connection: Nat, message: Nat]
    BY <2>1, LenProperties, ElementOfSeq
  <2> QED
    BY <2>2
<1>t. /\ latest \in Nat /\ connection \in Nat /\ replayed \in Nat
      /\ replayed <= latest /\ waiting \subseteq replayed..latest
  BY DEF OutgoingTypeOK
<1>b. UNCHANGED sent => SentOnce' /\ NothingOlderLater'
  BY DEF SentOnce, NothingOlderLater
<1>1. CASE Dispatch
  <2>1. OutgoingTypeOK'
    <3>1. latest' = latest + 1 /\ UNCHANGED <<connection, up, replayed, sent>>
      BY <1>1 DEF Dispatch
    <3>2. waiting' \subseteq waiting \cup {latest + 1}
      BY <1>1 DEF Dispatch
    <3>3. replayed <= latest' /\ waiting' \subseteq replayed..latest'
      BY <3>1, <3>2, <1>t
    <3> QED
      BY <3>1, <3>3, <1>t DEF OutgoingTypeOK
  <2>2. NothingNewer'
    BY <1>1, <1>a DEF Dispatch, OutgoingTypeOK, NothingNewer
  <2> QED
    BY <1>1, <1>b, <2>1, <2>2 DEF Dispatch
<1>2. CASE Establish
  <2>1. OutgoingTypeOK'
    BY <1>2 DEF Establish, OutgoingTypeOK
  <2>2. NothingNewer'
    BY <1>2, <1>a DEF Establish, OutgoingTypeOK, NothingNewer
  <2> QED
    BY <1>2, <1>b, <2>1, <2>2 DEF Establish
<1>3. CASE Disconnect
  <2>1. OutgoingTypeOK'
    BY <1>3 DEF Disconnect, OutgoingTypeOK
  <2>2. NothingNewer'
    BY <1>3, <1>a DEF Disconnect, OutgoingTypeOK, NothingNewer
  <2> QED
    BY <1>3, <1>b, <2>1, <2>2 DEF Disconnect
<1>4. ASSUME NEW m \in waiting, Transmit(m)
      PROVE  OutgoingInv'
  <2> DEFINE message == [connection |-> connection, message |-> m]
  <2>1. /\ m \in replayed..latest /\ message \in [connection: Nat, message: Nat]
        /\ message.connection = connection /\ message.message = m
    BY DEF OutgoingTypeOK
  <2>2. /\ sent' = Append(sent, message) /\ waiting' = waiting \ {m}
        /\ UNCHANGED <<latest, connection, up, replayed>>
    BY <1>4 DEF Transmit
  <2> HIDE DEF message
  <2>3. /\ sent' \in Seq([connection: Nat, message: Nat])
        /\ DOMAIN sent' = 1..(Len(sent) + 1)
        /\ \A i \in 1..Len(sent) : sent'[i] = sent[i]
        /\ sent'[Len(sent) + 1] = message /\ DOMAIN sent = 1..Len(sent) /\ Len(sent) \in Nat
    BY <2>1, <2>2 DEF OutgoingTypeOK
  <2>4. OutgoingTypeOK'
    BY <2>2, <2>3 DEF OutgoingTypeOK
  <2>5. NothingNewer'
    <3> SUFFICES ASSUME NEW i \in 1..(Len(sent) + 1)
                 PROVE  /\ sent'[i].connection <= connection
                        /\ sent'[i].message <= latest
                        /\ sent'[i].connection < connection => sent'[i].message <= replayed
                        /\ sent'[i].connection = connection =>
                             sent'[i].message \notin waiting' /\ replayed <= sent'[i].message
        BY <2>2, <2>3 DEF NothingNewer
    <3>1. CASE i = Len(sent) + 1
      BY <2>1, <2>2, <2>3, <3>1 DEF OutgoingTypeOK
    <3>2. CASE i \in 1..Len(sent)
      BY <2>2, <2>3, <3>2, <1>a, <1>t DEF NothingNewer
    <3> QED
      BY <3>1, <3>2
  <2>6. ASSUME NEW i \in 1..Len(sent)
        PROVE  /\ sent[i].message = m => sent[i].connection # connection
               /\ sent[i].connection <= connection
               /\ sent[i].connection < connection => sent[i].message <= m
    <3>1. i \in DOMAIN sent /\ sent[i].message \in Nat /\ m \in Nat /\ replayed <= m
      <4>1. i \in DOMAIN sent
        BY <2>3
      <4>2. sent[i].message \in Nat
        BY <4>1, <1>a
      <4>3. m \in Nat /\ replayed <= m
        BY <2>1, <1>t
      <4> QED
        BY <4>1, <4>2, <4>3
    <3>2. /\ sent[i].connection <= connection
          /\ sent[i].connection < connection => sent[i].message <= replayed
          /\ sent[i].connection = connection => sent[i].message \notin waiting
      BY <3>1 DEF NothingNewer
    <3>3. sent[i].message = m => sent[i].connection # connection
      BY <3>2
    <3>4. sent[i].connection < connection => sent[i].message <= m
      BY <3>1, <3>2, <1>t
    <3> QED
      BY <3>2, <3>3, <3>4
  <2>7. SentOnce'
    <3> SUFFICES ASSUME NEW i \in 1..(Len(sent) + 1), NEW j \in 1..(Len(sent) + 1), i # j,
                        sent'[i].message = sent'[j].message
                 PROVE  sent'[i].connection # sent'[j].connection
        BY <2>3 DEF SentOnce
    <3>1. CASE i \in 1..Len(sent) /\ j \in 1..Len(sent)
      BY <2>3, <3>1 DEF SentOnce
    <3>2. CASE i = Len(sent) + 1 /\ j \in 1..Len(sent)
      BY <2>1, <2>3, <2>6, <3>2
    <3>3. CASE i \in 1..Len(sent) /\ j = Len(sent) + 1
      BY <2>1, <2>3, <2>6, <3>3
    <3> QED
      BY <2>3, <3>1, <3>2, <3>3
  <2>8. NothingOlderLater'
    <3> SUFFICES ASSUME NEW i \in 1..(Len(sent) + 1), NEW j \in 1..(Len(sent) + 1),
                        sent'[i].connection < sent'[j].connection
                 PROVE  sent'[i].message <= sent'[j].message
        BY <2>3 DEF NothingOlderLater
    <3>1. CASE i \in 1..Len(sent) /\ j \in 1..Len(sent)
      BY <2>3, <3>1 DEF NothingOlderLater
    <3>2. CASE i = Len(sent) + 1
      <4>1. CASE j \in 1..Len(sent)
        <5>1. sent[j].connection \in Nat /\ sent[j].connection <= connection
          BY <2>3, <2>6, <1>a, <4>1
        <5>2. connection < sent[j].connection
          BY <2>1, <2>3, <3>2, <4>1
        <5> QED
          BY <5>1, <5>2, <1>t
      <4>2. CASE j = Len(sent) + 1
        BY <2>1, <2>3, <1>t, <3>2, <4>2
      <4> QED
        BY <2>3, <4>1, <4>2
    <3>3. CASE i \in 1..Len(sent) /\ j = Len(sent) + 1
      BY <2>1, <2>3, <2>6, <3>3
    <3> QED
      BY <2>3, <3>1, <3>2, <3>3
  <2> QED
    BY <2>4, <2>5, <2>7, <2>8
<1>5. ASSUME NEW m \in waiting, Lose(m)
      PROVE  OutgoingInv'
  <2>1. OutgoingTypeOK'
    BY <1>5 DEF Lose, OutgoingTypeOK
  <2>2. NothingNewer'
    BY <1>5, <1>a DEF Lose, OutgoingTypeOK, NothingNewer
  <2> QED
    BY <1>5, <1>b, <2>1, <2>2 DEF Lose
<1>6. CASE UNCHANGED outgoingVars
  BY <1>6, <1>b DEF outgoingVars, OutgoingTypeOK, NothingNewer
<1> QED
  BY <1>1, <1>2, <1>3, <1>4, <1>5, <1>6 DEF OutgoingNext

(***************************************************************************)
(* On no connection is a message sent twice.                               *)
(***************************************************************************)
THEOREM OutgoingSentOnce == OutgoingSpec => []SentOnce
<1>1. OutgoingInv => SentOnce
  BY DEF OutgoingInv
<1> QED
  BY OutgoingInitially, OutgoingStep, <1>1, PTL DEF OutgoingSpec

(***************************************************************************)
(* Later connections send nothing older than earlier ones did.             *)
(***************************************************************************)
THEOREM OutgoingNothingOlder == OutgoingSpec => []NothingOlderLater
<1>1. OutgoingInv => NothingOlderLater
  BY DEF OutgoingInv
<1> QED
  BY OutgoingInitially, OutgoingStep, <1>1, PTL DEF OutgoingSpec
=============================================================================
