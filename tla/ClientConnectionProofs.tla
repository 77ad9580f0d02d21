------------------------ MODULE ClientConnectionProofs ------------------------
(***************************************************************************)
(* ClientInv is inductive, so that what ClientConnection.cfg checks of two *)
(* sockets holds of any number of sockets, messages and mails; and with it *)
(* the browser implements Outgoing.  Each lemma preserves one part of the  *)
(* invariant, action by action.                                            *)
(***************************************************************************)
EXTENDS ClientConnection, CodecProofs, SequenceTheorems

-----------------------------------------------------------------------------
(***************************************************************************)
(* The inductive invariant.  Only the current socket encrypts              *)
(* and only if it is subscribed; on one socket a message is at one place;  *)
(* what a socket carries is no older than the message that it began with,  *)
(* and that one no older than what earlier sockets carry; and as long as   *)
(* registerConnection waits, what it is to ignore overtook connect.        *)
(***************************************************************************)
SocketInv ==
    /\ result = "success" <=> socket \in subscribed
    /\ subscribed \subseteq 1..socket
    /\ subscribed # {} => \E last \in subscribed : \A s \in subscribed : s <= last
    /\ connectionState = "disconnected" => ~open /\ result = "success"
    /\ \A p \in encrypting : p.connection = socket /\ socket \in subscribed
    /\ \A s \in Sockets \ subscribed :
          toServer[s] = <<>> /\ server[s] = "exchanging" /\ s \notin wedged
    /\ \A i \in DOMAIN forwarded : forwarded[i].connection \in subscribed

OncePerSocket ==
    /\ \A s \in Sockets : \A i, j \in DOMAIN toServer[s] :
          i # j => toServer[s][i] # toServer[s][j]
    /\ \A i, j \in DOMAIN forwarded : i # j => forwarded[i] # forwarded[j]
    /\ \A s \in Sockets, m \in Messages :
          /\ On(s, m) \in encrypting => ~UnderWay(s, m) /\ ~Forwarded(s, m)
          /\ UnderWay(s, m) => ~Forwarded(s, m)
    /\ \A s \in Sockets : server[s] = "joined" =>
          On(s, Connect) \notin encrypting /\ ~UnderWay(s, Connect)

Carries(s, m) == On(s, m) \in encrypting \/ UnderWay(s, m) \/ Forwarded(s, m)

NothingOlder ==
    /\ \A s \in Sockets : replay[s] <= Len(dispatched)
    /\ \A s \in Sockets, m \in Messages \ {Connect} :
          Carries(s, m) => replay[s] <= m /\ m <= Len(dispatched)
    /\ \A s, t \in subscribed, m \in Messages \ {Connect} :
          Carries(s, m) /\ s < t => m <= replay[t]

ConnectInv ==
    result = "success" /\ open /\ socket \notin wedged /\ server[socket] # "joined" =>
        /\ On(socket, Connect) \in encrypting \/ UnderWay(socket, Connect)
        /\ \A i \in DOMAIN toServer[socket] :
              \/ toServer[socket][i] = Connect
              \/ OvertookConnect(toServer[socket][i])
              \/ \E j \in 1..(i - 1) : toServer[socket][j] = Connect

ClientInv ==
    /\ TypeOK /\ SocketInv /\ OncePerSocket /\ NothingOlder /\ ConnectInv
    /\ OneTimeoutIfBroken /\ ForwardedAgainIfReplayed /\ GetsThrough /\ MailIsShown

-----------------------------------------------------------------------------
(* Sequences: the first element taken off, one put at the end, the end cut. *)

LEMMA TailOf ==
    ASSUME NEW S, NEW seq \in Seq(S), seq # <<>>
    PROVE  /\ Len(seq) \in Nat \ {0} /\ DOMAIN seq = 1..Len(seq)
           /\ Head(seq) = seq[1] /\ Head(seq) \in S
           /\ Tail(seq) \in Seq(S) /\ DOMAIN Tail(seq) = 1..(Len(seq) - 1)
           /\ \A i \in 1..(Len(seq) - 1) : Tail(seq)[i] = seq[i + 1]
<1>1. /\ Len(seq) \in Nat \ {0} /\ DOMAIN seq = 1..Len(seq)
      /\ Head(seq) \in S /\ Tail(seq) \in Seq(S) /\ Len(Tail(seq)) = Len(seq) - 1
      /\ \A i \in 1..Len(Tail(seq)) : Tail(seq)[i] = seq[i + 1]
  BY HeadTailProperties, EmptySeq, LenProperties
<1>2. Head(seq) = seq[1]
  OBVIOUS
<1>3. DOMAIN Tail(seq) = 1..Len(Tail(seq))
  BY <1>1, LenProperties
<1> QED
  BY <1>1, <1>2, <1>3

LEMMA AppendTo ==
    ASSUME NEW S, NEW seq \in Seq(S), NEW e \in S
    PROVE  /\ Append(seq, e) \in Seq(S)
           /\ Len(seq) \in Nat /\ DOMAIN seq = 1..Len(seq)
           /\ Len(Append(seq, e)) = Len(seq) + 1
           /\ DOMAIN Append(seq, e) = 1..(Len(seq) + 1)
           /\ Append(seq, e)[Len(seq) + 1] = e
           /\ \A i \in 1..Len(seq) : Append(seq, e)[i] = seq[i]
<1>1. Append(seq, e) \in Seq(S) /\ Len(seq) \in Nat /\ DOMAIN seq = 1..Len(seq)
  BY LenProperties
<1>2. Len(Append(seq, e)) = Len(seq) + 1
  OBVIOUS
<1> QED
  BY <1>1, <1>2

LEMMA PrefixOf ==
    ASSUME NEW S, NEW seq \in Seq(S), NEW k \in 0..Len(seq)
    PROVE  /\ Len(seq) \in Nat /\ DOMAIN seq = 1..Len(seq)
           /\ SubSeq(seq, 1, k) \in Seq(S) /\ DOMAIN SubSeq(seq, 1, k) = 1..k
           /\ \A i \in 1..k : SubSeq(seq, 1, k)[i] = seq[i]
<1>1. Len(seq) \in Nat /\ DOMAIN seq = 1..Len(seq) /\ k \in Nat /\ k <= Len(seq)
  BY LenProperties
<1>2. \A i \in 1..k : seq[i] \in S
  BY <1>1, ElementOfSeq
<1>3. /\ SubSeq(seq, 1, k) \in Seq(S)
      /\ Len(SubSeq(seq, 1, k)) = IF 1 <= k THEN k - 1 + 1 ELSE 0
      /\ \A i \in 1..(k - 1 + 1) : SubSeq(seq, 1, k)[i] = seq[1 + i - 1]
  BY <1>1, <1>2, SubSeqProperties
<1>4. DOMAIN SubSeq(seq, 1, k) = 1..Len(SubSeq(seq, 1, k))
  BY <1>3, LenProperties
<1> QED
  BY <1>1, <1>3, <1>4

-----------------------------------------------------------------------------
(* What the types say. *)

LEMMA Bounds ==
    ASSUME TypeOK
    PROVE  /\ MaxSockets \in Nat /\ MaxMessages \in Nat /\ MaxMail \in Nat /\ Connect \notin Nat
           /\ socket \in Sockets /\ socket \in Nat
           /\ Len(dispatched) \in 0..MaxMessages /\ Len(mailed) \in Nat
           /\ \A s \in Sockets : replay[s] \in 0..MaxMessages /\ toServer[s] \in Seq(Messages)
           /\ Connect \in Messages /\ 0..MaxMessages \subseteq Messages
           /\ \A s \in Sockets : \A i \in DOMAIN toServer[s] : toServer[s][i] \in Messages
           /\ \A i \in DOMAIN forwarded :
                 /\ forwarded[i].connection \in Sockets /\ forwarded[i].message \in 1..MaxMessages
                 /\ forwarded[i] = On(forwarded[i].connection, forwarded[i].message)
<1>1. MaxSockets \in Nat /\ MaxMessages \in Nat /\ MaxMail \in Nat /\ Connect \notin Nat
  BY ConnectionAssumption
<1>2. Len(dispatched) \in 0..MaxMessages /\ Len(mailed) \in Nat
  BY <1>1, LenProperties DEF TypeOK
<1>3. \A s \in Sockets : replay[s] \in 0..MaxMessages /\ toServer[s] \in Seq(Messages)
  BY DEF TypeOK
<1>4. \A s \in Sockets : \A i \in DOMAIN toServer[s] : toServer[s][i] \in Messages
  BY <1>3, LenProperties, ElementOfSeq
<1>5. \A i \in DOMAIN forwarded : forwarded[i] \in [connection: Sockets, message: 1..MaxMessages]
  <2>1. forwarded \in Seq([connection: Sockets, message: 1..MaxMessages])
    BY DEF TypeOK
  <2> QED
    BY <2>1, LenProperties, ElementOfSeq
<1>6. \A i \in DOMAIN forwarded :
         /\ forwarded[i].connection \in Sockets /\ forwarded[i].message \in 1..MaxMessages
         /\ forwarded[i] = On(forwarded[i].connection, forwarded[i].message)
  BY <1>5 DEF On
<1>7. socket \in Sockets /\ socket \in Nat
  BY <1>1 DEF TypeOK, Sockets
<1> QED
  BY <1>1, <1>2, <1>3, <1>4, <1>6, <1>7 DEF Messages

\* A promise names its socket and its message.
LEMMA Promises ==
    ASSUME TypeOK, NEW p \in encrypting
    PROVE  /\ p = On(p.connection, p.message)
           /\ p.connection \in Sockets /\ p.message \in Messages
BY DEF TypeOK, On

LEMMA SameMessage ==
    ASSUME NEW s, NEW m, NEW t, NEW n
    PROVE  /\ On(s, m) = On(t, n) <=> s = t /\ m = n
           /\ On(s, m).connection = s /\ On(s, m).message = m
BY DEF On

\* Ciphertexts arrive as they were sent (Codec).
LEMMA BytesArrive == BytesReachServer /\ BytesReachBrowser
BY BytesSurvive DEF BytesReachServer, BytesReachBrowser

-----------------------------------------------------------------------------
(* What the steps do to the sequences. *)

\* A message is sent at the end of what is under way to the current socket.
LEMMA SendEffect ==
    ASSUME TypeOK, NEW m \in Messages,
           toServer' = [toServer EXCEPT ![socket] = Append(@, m)]
    PROVE  /\ toServer' \in [Sockets -> Seq(Messages)]
           /\ Len(toServer[socket]) \in Nat /\ DOMAIN toServer[socket] = 1..Len(toServer[socket])
           /\ DOMAIN toServer'[socket] = 1..(Len(toServer[socket]) + 1)
           /\ toServer'[socket][Len(toServer[socket]) + 1] = m
           /\ \A i \in DOMAIN toServer[socket] : toServer'[socket][i] = toServer[socket][i]
           /\ \A s \in Sockets \ {socket} : toServer'[s] = toServer[s]
           /\ \A s \in Sockets : \A n : UnderWay(s, n)' <=> UnderWay(s, n) \/ (s = socket /\ n = m)
<1>1. socket \in Sockets /\ toServer \in [Sockets -> Seq(Messages)]
  BY DEF TypeOK
<1>2. toServer[socket] \in Seq(Messages) /\ toServer'[socket] = Append(toServer[socket], m)
  BY <1>1
<1>3. /\ Append(toServer[socket], m) \in Seq(Messages)
      /\ Len(toServer[socket]) \in Nat /\ DOMAIN toServer[socket] = 1..Len(toServer[socket])
      /\ DOMAIN toServer'[socket] = 1..(Len(toServer[socket]) + 1)
      /\ toServer'[socket][Len(toServer[socket]) + 1] = m
      /\ \A i \in 1..Len(toServer[socket]) : toServer'[socket][i] = toServer[socket][i]
  BY <1>2, AppendTo
<1>4. /\ toServer' \in [Sockets -> Seq(Messages)]
      /\ \A s \in Sockets \ {socket} : toServer'[s] = toServer[s]
  BY <1>1, <1>3
<1>5. \A n : UnderWay(socket, n) \/ n = m
                <=> \E i \in DOMAIN toServer'[socket] : toServer'[socket][i] = n
  <2>1. ASSUME NEW n, UnderWay(socket, n) \/ n = m
        PROVE  \E i \in DOMAIN toServer'[socket] : toServer'[socket][i] = n
    <3>1. Len(toServer[socket]) + 1 \in DOMAIN toServer'[socket]
      BY <1>3
    <3>2. DOMAIN toServer[socket] \subseteq DOMAIN toServer'[socket]
      BY <1>3
    <3> QED
      BY <1>3, <2>1, <3>1, <3>2 DEF UnderWay
  <2>2. ASSUME NEW i \in DOMAIN toServer'[socket]
        PROVE  UnderWay(socket, toServer'[socket][i]) \/ toServer'[socket][i] = m
    BY <1>3 DEF UnderWay
  <2> QED
    BY <2>1, <2>2
<1>6. \A s \in Sockets : \A n : UnderWay(s, n)' <=> UnderWay(s, n) \/ (s = socket /\ n = m)
  BY <1>4, <1>5 DEF UnderWay
<1> QED
  BY <1>3, <1>4, <1>6

\* The dispatcher takes the first message under way.
LEMMA TakeEffect ==
    ASSUME TypeOK, NEW s \in Sockets, toServer[s] # <<>>,
           NEW m, m = Head(toServer[s]),
           toServer' = [toServer EXCEPT ![s] = Tail(@)]
    PROVE  /\ toServer' \in [Sockets -> Seq(Messages)]
           /\ m = toServer[s][1] /\ m \in Messages
           /\ Len(toServer[s]) \in Nat \ {0} /\ DOMAIN toServer[s] = 1..Len(toServer[s])
           /\ DOMAIN toServer'[s] = 1..(Len(toServer[s]) - 1)
           /\ \A i \in 1..(Len(toServer[s]) - 1) : toServer'[s][i] = toServer[s][i + 1]
           /\ \A t \in Sockets \ {s} : toServer'[t] = toServer[t]
           /\ UnderWay(s, m)
           /\ \A t \in Sockets : \A n : UnderWay(t, n)' => UnderWay(t, n)
           /\ \A t \in Sockets : \A n : UnderWay(t, n) =>
                 UnderWay(t, n)' \/ (t = s /\ n = m)
           /\ OncePerSocket => ~UnderWay(s, m)'
<1>1. toServer \in [Sockets -> Seq(Messages)] /\ toServer[s] \in Seq(Messages)
  BY DEF TypeOK
<1>2. toServer'[s] = Tail(toServer[s])
  BY <1>1
<1>3. /\ Len(toServer[s]) \in Nat \ {0} /\ DOMAIN toServer[s] = 1..Len(toServer[s])
      /\ m = toServer[s][1] /\ m \in Messages
      /\ Tail(toServer[s]) \in Seq(Messages) /\ DOMAIN toServer'[s] = 1..(Len(toServer[s]) - 1)
      /\ \A i \in 1..(Len(toServer[s]) - 1) : toServer'[s][i] = toServer[s][i + 1]
  BY <1>1, <1>2, TailOf
<1>4. /\ toServer' \in [Sockets -> Seq(Messages)]
      /\ \A t \in Sockets \ {s} : toServer'[t] = toServer[t]
  BY <1>1, <1>3
<1>5. UnderWay(s, m)
  <2>1. 1 \in DOMAIN toServer[s]
    BY <1>3
  <2> QED
    BY <1>3, <2>1 DEF UnderWay
<1>6. ASSUME NEW t \in Sockets, NEW n, UnderWay(t, n)'
      PROVE  UnderWay(t, n)
  <2>1. CASE t = s
    <3>1. PICK i \in 1..(Len(toServer[s]) - 1) : toServer[s][i + 1] = n
      BY <1>3, <1>6, <2>1 DEF UnderWay
    <3>2. i + 1 \in DOMAIN toServer[s]
      BY <1>3
    <3> QED
      BY <2>1, <3>1, <3>2 DEF UnderWay
  <2>2. CASE t # s
    BY <1>4, <1>6, <2>2 DEF UnderWay
  <2> QED
    BY <2>1, <2>2
<1>7. ASSUME NEW t \in Sockets, NEW n, UnderWay(t, n), ~(t = s /\ n = m)
      PROVE  UnderWay(t, n)'
  <2>1. CASE t = s
    <3>1. PICK i \in 1..Len(toServer[s]) : toServer[s][i] = n
      BY <1>3, <1>7, <2>1 DEF UnderWay
    <3>2. i # 1
      BY <1>3, <1>7, <2>1, <3>1
    <3>3. i - 1 \in 1..(Len(toServer[s]) - 1) /\ (i - 1) + 1 = i
      BY <1>3, <3>2
    <3> QED
      BY <1>3, <2>1, <3>1, <3>3 DEF UnderWay
  <2>2. CASE t # s
    BY <1>4, <1>7, <2>2 DEF UnderWay
  <2> QED
    BY <2>1, <2>2
<1>8. ASSUME OncePerSocket, UnderWay(s, m)'
      PROVE  FALSE
  <2>1. PICK i \in 1..(Len(toServer[s]) - 1) : toServer[s][i + 1] = m
    BY <1>3, <1>8 DEF UnderWay
  <2>2. i + 1 \in DOMAIN toServer[s] /\ 1 \in DOMAIN toServer[s] /\ i + 1 # 1
    BY <1>3
  <2> QED
    BY <1>3, <1>8, <2>1, <2>2 DEF OncePerSocket
<1> QED
  BY <1>3, <1>4, <1>5, <1>6, <1>7, <1>8

\* What registerConnection or connect does with it.
LEMMA HandOverEffect ==
    ASSUME TypeOK, NEW s \in Sockets, NEW m \in Messages, HandOver(s, m),
           server[s] = "joined" => m # Connect
    PROVE  /\ server' \in [Sockets -> {"exchanging", "registered", "joined"}]
           /\ \A t \in Sockets \ {s} : server'[t] = server[t]
           /\ server'[s] = IF m = Connect \/ server[s] = "joined" THEN "joined" ELSE "registered"
           /\ forwarded' \in Seq([connection: Sockets, message: 1..MaxMessages])
           /\ \A t, n : Forwarded(t, n)' <=>
                 Forwarded(t, n) \/ (server[s] = "joined" /\ m # 0 /\ t = s /\ n = m)
           /\ \A i \in DOMAIN forwarded' :
                 \/ i \in DOMAIN forwarded /\ forwarded'[i] = forwarded[i]
                 \/ /\ i = Len(forwarded) + 1 /\ forwarded'[i] = On(s, m)
                    /\ server[s] = "joined" /\ m # 0
           /\ Len(forwarded) + 1 \notin DOMAIN forwarded
<1>1. /\ server' \in [Sockets -> {"exchanging", "registered", "joined"}]
      /\ \A t \in Sockets \ {s} : server'[t] = server[t]
      /\ server'[s] = IF m = Connect \/ server[s] = "joined" THEN "joined" ELSE "registered"
  BY DEF HandOver, TypeOK
<1>2. /\ forwarded \in Seq([connection: Sockets, message: 1..MaxMessages])
      /\ Len(forwarded) \in Nat /\ DOMAIN forwarded = 1..Len(forwarded)
  <2>1. forwarded \in Seq([connection: Sockets, message: 1..MaxMessages])
    BY DEF TypeOK
  <2> QED
    BY <2>1, LenProperties
<1>3. CASE server[s] = "joined" /\ m # 0
  <2>1. On(s, m) \in [connection: Sockets, message: 1..MaxMessages]
    BY <1>3, ConnectionAssumption DEF On, Messages
  <2>2. /\ forwarded' \in Seq([connection: Sockets, message: 1..MaxMessages])
        /\ DOMAIN forwarded' = 1..(Len(forwarded) + 1)
        /\ forwarded'[Len(forwarded) + 1] = On(s, m)
        /\ \A i \in 1..Len(forwarded) : forwarded'[i] = forwarded[i]
    <3>1. forwarded' = Append(forwarded, On(s, m))
      BY <1>3 DEF HandOver
    <3> QED
      BY <1>2, <2>1, <3>1, AppendTo
  <2>3. Len(forwarded) + 1 \in DOMAIN forwarded' /\ Len(forwarded) + 1 \notin DOMAIN forwarded
    BY <1>2, <2>2
  <2>4. \A i \in DOMAIN forwarded' : i \in DOMAIN forwarded \/ i = Len(forwarded) + 1
    BY <1>2, <2>2
  <2>5. ASSUME NEW t, NEW n
        PROVE  Forwarded(t, n)' <=> Forwarded(t, n) \/ (t = s /\ n = m)
    <3>1. Forwarded(t, n)' <=> \E i \in DOMAIN forwarded' : forwarded'[i] = On(t, n)
      BY DEF Forwarded, On
    <3>2. ASSUME NEW i \in DOMAIN forwarded', forwarded'[i] = On(t, n)
          PROVE  Forwarded(t, n) \/ (t = s /\ n = m)
      <4>1. CASE i \in DOMAIN forwarded
        BY <1>2, <2>2, <3>2, <4>1 DEF Forwarded
      <4>2. CASE i = Len(forwarded) + 1
        BY <2>2, <3>2, <4>2, SameMessage
      <4> QED
        BY <2>4, <4>1, <4>2
    <3>3. ASSUME NEW i \in DOMAIN forwarded, forwarded[i] = On(t, n)
          PROVE  i \in DOMAIN forwarded' /\ forwarded'[i] = On(t, n)
      BY <1>2, <2>2, <3>3
    <3>4. t = s /\ n = m => forwarded'[Len(forwarded) + 1] = On(t, n)
      BY <2>2
    <3> QED
      BY <2>3, <3>1, <3>2, <3>3, <3>4 DEF Forwarded
  <2> QED
    BY <1>1, <1>2, <1>3, <2>2, <2>3, <2>4, <2>5
<1>4. CASE ~(server[s] = "joined" /\ m # 0)
  <2>1. UNCHANGED forwarded
    BY <1>4 DEF HandOver
  <2>2. Len(forwarded) + 1 \notin DOMAIN forwarded
    BY <1>2
  <2> QED
    BY <1>1, <1>2, <1>4, <2>1, <2>2 DEF Forwarded, On
<1> QED
  BY <1>3, <1>4

\* What is left of the messages under way when the socket closes.
LEMMA CloseEffect ==
    ASSUME TypeOK, Close
    PROVE  /\ toServer' \in [Sockets -> Seq(Messages)] /\ toClient' \in Seq(1..MaxMail)
           /\ \A s \in Sockets \ {socket} : toServer'[s] = toServer[s]
           /\ \A s \in Sockets :
                 /\ DOMAIN toServer'[s] \subseteq DOMAIN toServer[s]
                 /\ \A i \in DOMAIN toServer'[s] : toServer'[s][i] = toServer[s][i]
           /\ \A s \in Sockets : toServer[s] = <<>> => toServer'[s] = <<>>
           /\ \A s \in Sockets : \A n : UnderWay(s, n)' => UnderWay(s, n)
<1>1. /\ socket \in Sockets /\ toServer \in [Sockets -> Seq(Messages)]
      /\ toClient \in Seq(1..MaxMail)
  BY DEF TypeOK
<1>2. PICK k \in 0..Len(toServer[socket]) :
          toServer' = [toServer EXCEPT ![socket] = SubSeq(@, 1, k)]
  BY DEF Close
<1>3. PICK k2 \in 0..Len(toClient) : toClient' = SubSeq(toClient, 1, k2)
  BY DEF Close
<1>4. toServer'[socket] = SubSeq(toServer[socket], 1, k) /\ toServer[socket] \in Seq(Messages)
  BY <1>1, <1>2
<1>5. /\ Len(toServer[socket]) \in Nat /\ DOMAIN toServer[socket] = 1..Len(toServer[socket])
      /\ toServer'[socket] \in Seq(Messages) /\ DOMAIN toServer'[socket] = 1..k
      /\ \A i \in 1..k : toServer'[socket][i] = toServer[socket][i]
  BY <1>4, PrefixOf
<1>6. /\ toServer' \in [Sockets -> Seq(Messages)]
      /\ \A s \in Sockets \ {socket} : toServer'[s] = toServer[s]
  BY <1>1, <1>2, <1>4, <1>5
<1>7. toClient' \in Seq(1..MaxMail)
  BY <1>1, <1>3, PrefixOf
<1>8. /\ DOMAIN toServer'[socket] \subseteq DOMAIN toServer[socket]
      /\ \A i \in DOMAIN toServer'[socket] : toServer'[socket][i] = toServer[socket][i]
  BY <1>5
<1>9. toServer[socket] = <<>> => toServer'[socket] = <<>>
  <2>1. toServer[socket] = <<>> => DOMAIN toServer'[socket] = {}
    BY <1>8
  <2> QED
    BY <1>5, <2>1, EmptySeq, LenProperties
<1>10. \A s \in Sockets : \A n : UnderWay(s, n)' => UnderWay(s, n)
  BY <1>6, <1>8 DEF UnderWay
<1> QED
  BY <1>6, <1>7, <1>8, <1>9, <1>10

\* The two ways in which a message is taken.
LEMMA TakeOutcome ==
    ASSUME TypeOK, OncePerSocket, NEW s \in Sockets, Take(s), NEW m, m = Head(toServer[s])
    PROVE  /\ m \in Messages /\ UnderWay(s, m) /\ s \notin wedged
           /\ server[s] = "joined" => m # Connect
           /\ wedged' \subseteq wedged \cup {s} /\ wedged \subseteq wedged'
           /\ \/ HandOver(s, m)
              \/ s \in wedged' /\ UNCHANGED <<server, forwarded>>
           /\ UNCHANGED <<machineVars, open, dispatchVars, mailVars>>
<1>1. toServer[s] # <<>> /\ toServer' = [toServer EXCEPT ![s] = Tail(@)]
  BY DEF Take
<1>2. m \in Messages /\ UnderWay(s, m)
  BY <1>1, TakeEffect
<1>3. server[s] = "joined" => m # Connect
  BY <1>2 DEF OncePerSocket
<1> QED
  BY <1>2, <1>3, BytesArrive DEF Take

-----------------------------------------------------------------------------
(* The parts of the invariant. *)

\* Everything on its way has been dispatched, sent and numbered.
LEMMA TypeKept ==
    ASSUME TypeOK, OncePerSocket, OneTimeoutIfBroken, [Next]_vars
    PROVE  TypeOK'
<1>a. /\ MaxSockets \in Nat /\ MaxMessages \in Nat /\ MaxMail \in Nat
      /\ socket \in Nat /\ 1 <= socket /\ socket <= MaxSockets
      /\ Len(dispatched) \in 0..MaxMessages /\ Len(mailed) \in Nat
      /\ Connect \in Messages /\ 0..MaxMessages \subseteq Messages
  <2>1. /\ MaxSockets \in Nat /\ MaxMessages \in Nat /\ MaxMail \in Nat
        /\ socket \in Sockets
        /\ Len(dispatched) \in 0..MaxMessages /\ Len(mailed) \in Nat
        /\ Connect \in Messages /\ 0..MaxMessages \subseteq Messages
    BY Bounds
  <2> QED
    BY <2>1 DEF Sockets
<1> USE DEF TypeOK, machineVars, workflowVars, dispatchVars, histories, serverVars, mailVars
<1>b. NewSocket /\ timers' \in 0..1 => TypeOK'
  <2> SUFFICES ASSUME NewSocket, timers' \in 0..1
               PROVE  TypeOK'
      OBVIOUS
  <2>1. socket' \in Sockets
    BY <1>a DEF NewSocket, Sockets
  <2>2. mailed' \in Seq(MailTexts) /\ toClient' \in Seq(1..MaxMail) /\ shown' \in Seq(1..MaxMail)
    BY EmptySeq DEF NewSocket
  <2> QED
    BY <2>1, <2>2 DEF NewSocket
<1>1. CASE OnOpen
  BY <1>1 DEF OnOpen, Open
<1>2. CASE OnSuccess
  <2>1. replay' \in [Sockets -> 0..MaxMessages]
    BY <1>2, <1>a DEF OnSuccess
  <2>2. encrypting' \subseteq [connection: Sockets, message: Messages]
    BY <1>2, <1>a DEF OnSuccess, On
  <2> QED
    BY <1>2, <2>1, <2>2 DEF OnSuccess, Succeed
<1>3. CASE OnFailure
  BY <1>3, <1>b DEF OnFailure
<1>4. CASE Close
  <2>1. toServer' \in [Sockets -> Seq(Messages)] /\ toClient' \in Seq(1..MaxMail)
    BY <1>4, CloseEffect
  <2> QED
    BY <1>4, <2>1 DEF Close
<1>5. CASE OnDisconnect
  BY <1>5 DEF OnDisconnect, Disconnect, OneTimeoutIfBroken
<1>6. CASE OnTimeout
  <2>1. timers' \in 0..1 /\ NewSocket
    BY <1>6 DEF OnTimeout
  <2> QED
    BY <1>b, <2>1
<1>7. CASE OnMessage
  <2>1. toClient \in Seq(1..MaxMail) /\ toClient # <<>>
    BY <1>7 DEF OnMessage
  <2>2. Tail(toClient) \in Seq(1..MaxMail) /\ Head(toClient) \in 1..MaxMail
    BY <2>1, TailOf
  <2> QED
    BY <1>7, <2>2 DEF OnMessage
<1>8. ASSUME NEW promise \in encrypting, Encrypted(promise)
      PROVE  TypeOK'
  <2>1. /\ promise.connection \in Sockets /\ promise.message \in Messages
        /\ promise = On(promise.connection, promise.message)
    BY Promises
  <2>2. toServer' \in [Sockets -> Seq(Messages)]
    <3>1. CASE toServer' = [toServer EXCEPT ![socket] = Append(@, promise.message)]
      BY <2>1, <3>1, SendEffect
    <3> QED
      BY <1>8, <3>1 DEF Encrypted
  <2>3. promise.message # Connect => promise \in [connection: Sockets, message: 0..MaxMessages]
    BY <2>1 DEF Messages, On
  <2>4. /\ sent' \in Seq([connection: Sockets, message: 0..MaxMessages])
        /\ early' \subseteq [connection: Sockets, message: 0..MaxMessages]
    <3>1. CASE UNCHANGED histories
      BY <3>1
    <3>2. CASE Record(promise) /\ promise.message # Connect
      <4>1. sent' = Append(sent, promise) /\ early' \subseteq early \cup {promise}
        BY <3>2 DEF Record
      <4> QED
        BY <2>3, <3>2, <4>1, AppendTo
    <3> QED
      BY <1>8, <3>1, <3>2 DEF Encrypted, Record
  <2> QED
    BY <1>8, <2>2, <2>4 DEF Encrypted
<1>9. ASSUME NEW mail \in decrypting, Decrypted(mail)
      PROVE  TypeOK'
  <2>1. Append(shown, mail) \in Seq(1..MaxMail)
    BY AppendTo
  <2> QED
    BY <1>9, <2>1 DEF Decrypted
<1>10. ASSUME NEW text \in PageTexts, Dispatch(text)
       PROVE  TypeOK'
  <2>1. /\ dispatched' \in Seq(PageTexts) /\ Len(dispatched') = Len(dispatched) + 1
    BY <1>10, AppendTo DEF Dispatch
  <2>2. Len(dispatched') \in 0..MaxMessages
    BY <1>10, <1>a, <2>1 DEF Dispatch
  <2>3. encrypting' \subseteq [connection: Sockets, message: Messages]
    BY <1>10, <1>a, <2>2 DEF Dispatch, On
  <2> QED
    BY <1>10, <2>1, <2>2, <2>3 DEF Dispatch
<1>11. ASSUME NEW text \in MailTexts, MailArrives(text)
       PROVE  TypeOK'
  <2>1. mailed' \in Seq(MailTexts) /\ Len(mailed') = Len(mailed) + 1
    BY <1>11, AppendTo DEF MailArrives
  <2>2. Len(mailed') \in 1..MaxMail
    BY <1>11, <1>a, <2>1 DEF MailArrives
  <2>3. Append(toClient, Len(mailed')) \in Seq(1..MaxMail)
    BY <2>2, AppendTo
  <2> QED
    BY <1>11, <2>1, <2>3 DEF MailArrives
<1>12. ASSUME NEW s \in Sockets, Take(s)
       PROVE  TypeOK'
  <2>1. PICK m : m = Head(toServer[s])
    OBVIOUS
  <2>2. toServer' \in [Sockets -> Seq(Messages)]
    BY <1>12, <2>1, TakeEffect DEF Take
  <2>3. /\ m \in Messages
        /\ server[s] = "joined" => m # Connect
        /\ wedged' \subseteq wedged \cup {s}
        /\ HandOver(s, m) \/ UNCHANGED <<server, forwarded>>
        /\ UNCHANGED <<machineVars, open, dispatchVars, mailVars>>
    BY <1>12, <2>1, TakeOutcome
  <2>4. /\ server' \in [Sockets -> {"exchanging", "registered", "joined"}]
        /\ forwarded' \in Seq([connection: Sockets, message: 1..MaxMessages])
    <3> HIDE DEF TypeOK
    <3>1. CASE HandOver(s, m)
      BY <2>3, <3>1, HandOverEffect
    <3> QED
      BY <2>3, <3>1 DEF TypeOK
  <2> QED
    BY <2>2, <2>3, <2>4
<1>13. CASE UNCHANGED vars
  BY <1>13 DEF vars
<1> QED
  BY <1>1, <1>2, <1>3, <1>4, <1>5, <1>6, <1>7, <1>8, <1>9, <1>10, <1>11, <1>12, <1>13
     DEF Next, Settles

\* Only the current socket encrypts, and sockets that never connected carry
\* nothing.
LEMMA SocketKept ==
    ASSUME TypeOK, SocketInv, OncePerSocket, OneTimeoutIfBroken, [Next]_vars
    PROVE  SocketInv'
<1> USE DEF machineVars, workflowVars, dispatchVars, histories, serverVars, mailVars
<1>a. UNCHANGED <<machineVars, open, dispatchVars, toServer, serverVars>> => SocketInv'
  BY DEF SocketInv
<1>b. /\ socket \in Nat /\ socket \in Sockets /\ Sockets = 1..MaxSockets
      /\ MaxSockets \in Nat
  BY Bounds DEF Sockets
<1>c. NewSocket => SocketInv'
  <2>1. socket + 1 \notin subscribed /\ 1..socket \subseteq 1..(socket + 1)
    BY <1>b DEF SocketInv
  <2> QED
    BY <1>b, <2>1 DEF NewSocket, SocketInv
<1>1. CASE OnOpen
  BY <1>1 DEF OnOpen, Open, SocketInv
<1>2. CASE OnSuccess
  <2>1. \A s \in subscribed \cup {socket} : s <= socket
    BY <1>b DEF SocketInv
  <2>2. subscribed' = subscribed \cup {socket} /\ UNCHANGED socket
    BY <1>2 DEF OnSuccess, Succeed
  <2>3. \E last \in subscribed' : \A s \in subscribed' : s <= last
    BY <2>1, <2>2
  <2>4. subscribed' \subseteq 1..socket'
    BY <1>b, <2>2 DEF SocketInv
  <2>5. \A p \in encrypting' : p.connection = socket' /\ socket' \in subscribed'
    BY <1>2, <2>2, SameMessage DEF OnSuccess, SocketInv
  <2> QED
    BY <1>2, <2>2, <2>3, <2>4, <2>5 DEF OnSuccess, Succeed, SocketInv
<1>3. CASE OnFailure
  BY <1>3, <1>c DEF OnFailure
<1>4. CASE Close
  BY <1>4, CloseEffect DEF Close, SocketInv
<1>5. CASE OnDisconnect
  BY <1>5 DEF OnDisconnect, Disconnect, SocketInv
<1>6. CASE OnTimeout
  BY <1>6, <1>c DEF OnTimeout
<1>7. CASE OnMessage
  BY <1>7, <1>a DEF OnMessage
<1>8. ASSUME NEW promise \in encrypting, Encrypted(promise)
      PROVE  SocketInv'
  <2>1. socket \in subscribed
    BY DEF SocketInv
  <2>2. toServer' = [toServer EXCEPT ![socket] = toServer'[socket]]
    BY <1>8, <1>b DEF Encrypted, TypeOK
  <2>3. \A s \in Sockets \ subscribed : toServer'[s] = toServer[s]
    BY <1>b, <2>1, <2>2 DEF TypeOK
  <2> QED
    BY <1>8, <2>3 DEF Encrypted, SocketInv
<1>9. ASSUME NEW mail \in decrypting, Decrypted(mail)
      PROVE  SocketInv'
  BY <1>9, <1>a DEF Decrypted
<1>10. ASSUME NEW text \in PageTexts, Dispatch(text)
       PROVE  SocketInv'
  BY <1>10, SameMessage DEF Dispatch, SocketInv
<1>11. ASSUME NEW text \in MailTexts, MailArrives(text)
       PROVE  SocketInv'
  BY <1>11, <1>a DEF MailArrives
<1>12. ASSUME NEW s \in Sockets, Take(s)
       PROVE  SocketInv'
  <2>1. PICK m : m = Head(toServer[s])
    OBVIOUS
  <2>2. toServer[s] # <<>> /\ \A t \in Sockets \ {s} : toServer'[t] = toServer[t]
    BY <1>12, <2>1, TakeEffect DEF Take
  <2>3. s \in subscribed
    BY <2>2 DEF SocketInv
  <2>4. /\ m \in Messages
        /\ server[s] = "joined" => m # Connect
        /\ wedged' \subseteq wedged \cup {s}
        /\ HandOver(s, m) \/ UNCHANGED <<server, forwarded>>
        /\ UNCHANGED <<machineVars, open, dispatchVars, mailVars>>
    BY <1>12, <2>1, TakeOutcome
  <2>5. /\ \A t \in Sockets \ {s} : server'[t] = server[t]
        /\ \A i \in DOMAIN forwarded' : forwarded'[i].connection \in subscribed
    <3>1. CASE HandOver(s, m)
      <4>1. /\ \A t \in Sockets \ {s} : server'[t] = server[t]
            /\ \A i \in DOMAIN forwarded' :
                  \/ i \in DOMAIN forwarded /\ forwarded'[i] = forwarded[i]
                  \/ forwarded'[i] = On(s, m)
        BY <2>4, <3>1, HandOverEffect
      <4> QED
        BY <2>3, <4>1, SameMessage DEF SocketInv
    <3> QED
      BY <2>4, <3>1 DEF SocketInv
  <2> QED
    BY <2>2, <2>3, <2>4, <2>5 DEF SocketInv
<1>13. CASE UNCHANGED vars
  BY <1>13, <1>a DEF vars
<1> QED
  BY <1>1, <1>2, <1>3, <1>4, <1>5, <1>6, <1>7, <1>8, <1>9, <1>10, <1>11, <1>12, <1>13
     DEF Next, Settles

\* A message is at one place, once.
LEMMA OnceKept ==
    ASSUME TypeOK, SocketInv, OncePerSocket, NothingOlder, [Next]_vars
    PROVE  OncePerSocket'
<1> USE DEF machineVars, workflowVars, dispatchVars, histories, serverVars, mailVars
<1>a. ASSUME encrypting' \subseteq encrypting, UNCHANGED <<toServer, forwarded, server>>
      PROVE  OncePerSocket'
  BY <1>a DEF OncePerSocket, UnderWay, Forwarded, On
<1>b. ASSUME UNCHANGED <<toServer, forwarded, server>>,
             \A p \in encrypting' \ encrypting :
                /\ p = On(socket, p.message)
                /\ ~UnderWay(socket, p.message) /\ ~Forwarded(socket, p.message)
                /\ p.message = Connect => server[socket] # "joined"
      PROVE  OncePerSocket'
  <2>1. \A s, m : UnderWay(s, m)' = UnderWay(s, m) /\ Forwarded(s, m)' = Forwarded(s, m)
    BY <1>b DEF UnderWay, Forwarded, On
  <2>2. \A s, m : On(s, m) \in encrypting' \ encrypting =>
           s = socket /\ ~UnderWay(s, m) /\ ~Forwarded(s, m)
    BY <1>b, SameMessage
  <2>3. \A s : On(s, Connect) \in encrypting' \ encrypting => server[s] # "joined"
    BY <1>b, SameMessage
  <2> QED
    BY <1>b, <2>1, <2>2, <2>3 DEF OncePerSocket, On
<1>1. CASE OnOpen
  BY <1>1, <1>a DEF OnOpen
<1>2. CASE OnSuccess
  <2>1. socket \in Sockets \ subscribed
    BY <1>2, Bounds DEF OnSuccess, Succeed, SocketInv
  <2>2. toServer[socket] = <<>> /\ server[socket] = "exchanging"
    BY <2>1 DEF SocketInv
  <2>3. \A m : ~UnderWay(socket, m) /\ ~Forwarded(socket, m)
    <3>1. \A m : ~UnderWay(socket, m)
      BY <2>2 DEF UnderWay
    <3>2. \A m : ~Forwarded(socket, m)
      BY <2>1, SameMessage DEF Forwarded, SocketInv
    <3> QED
      BY <3>1, <3>2
  <2>4. \A p \in encrypting' \ encrypting : p = On(socket, p.message)
    BY <1>2, SameMessage DEF OnSuccess
  <2> QED
    BY <1>2, <1>b, <2>2, <2>3, <2>4 DEF OnSuccess
<1>3. CASE OnFailure
  BY <1>3, <1>a DEF OnFailure, NewSocket
<1>4. CASE Close
  <2>1. /\ \A s \in Sockets : /\ DOMAIN toServer'[s] \subseteq DOMAIN toServer[s]
                              /\ \A i \in DOMAIN toServer'[s] : toServer'[s][i] = toServer[s][i]
        /\ \A s \in Sockets : \A n : UnderWay(s, n)' => UnderWay(s, n)
    BY <1>4, CloseEffect
  <2>2. UNCHANGED <<encrypting, forwarded, server>>
    BY <1>4 DEF Close
  <2>3. \A s, n : Forwarded(s, n)' = Forwarded(s, n)
    BY <2>2 DEF Forwarded, On
  <2> QED
    BY <2>1, <2>2, <2>3 DEF OncePerSocket, On
<1>5. CASE OnDisconnect
  BY <1>5, <1>a DEF OnDisconnect
<1>6. CASE OnTimeout
  BY <1>6, <1>a DEF OnTimeout, NewSocket
<1>7. CASE OnMessage
  BY <1>7, <1>a DEF OnMessage
<1>8. ASSUME NEW promise \in encrypting, Encrypted(promise)
      PROVE  OncePerSocket'
  <2>1. /\ promise = On(socket, promise.message) /\ promise.message \in Messages
        /\ promise.connection = socket /\ socket \in Sockets
    BY Promises, Bounds DEF SocketInv
  <2>2. CASE UNCHANGED toServer
    BY <1>8, <1>a, <2>2 DEF Encrypted
  <2>3. CASE toServer' = [toServer EXCEPT ![socket] = Append(@, promise.message)]
    <3> DEFINE m == promise.message
               len == Len(toServer[socket])
    <3>1. /\ len \in Nat /\ DOMAIN toServer[socket] = 1..len
          /\ DOMAIN toServer'[socket] = 1..(len + 1) /\ toServer'[socket][len + 1] = m
          /\ \A i \in DOMAIN toServer[socket] : toServer'[socket][i] = toServer[socket][i]
          /\ \A s \in Sockets \ {socket} : toServer'[s] = toServer[s]
          /\ \A s \in Sockets : \A n : UnderWay(s, n)' <=> UnderWay(s, n) \/ (s = socket /\ n = m)
      BY <2>1, <2>3, SendEffect
    <3> HIDE DEF m, len
    <3>2. ~UnderWay(socket, m) /\ ~Forwarded(socket, m)
      BY <2>1 DEF OncePerSocket, m
    <3>3. UNCHANGED <<forwarded, server>> /\ encrypting' = encrypting \ {On(socket, m)}
      BY <1>8, <2>1 DEF Encrypted, m
    <3>4. \A s, n : Forwarded(s, n)' = Forwarded(s, n)
      BY <3>3 DEF Forwarded, On
    <3>5. ASSUME NEW s \in Sockets, NEW i \in DOMAIN toServer'[s], NEW j \in DOMAIN toServer'[s],
                 i # j
          PROVE  toServer'[s][i] # toServer'[s][j]
      <4>1. CASE s # socket
        BY <3>1, <3>5, <4>1 DEF OncePerSocket
      <4>2. CASE s = socket
        <5>1. \A k \in 1..len : toServer'[s][k] # m
          BY <3>1, <3>2, <4>2 DEF UnderWay
        <5>2. i \in 1..len \/ i = len + 1
          BY <3>1, <4>2
        <5>3. j \in 1..len \/ j = len + 1
          BY <3>1, <4>2
        <5>4. CASE i \in 1..len /\ j \in 1..len
          BY <2>1, <3>1, <3>5, <4>2, <5>4 DEF OncePerSocket
        <5> QED
          BY <3>1, <3>5, <4>2, <5>1, <5>2, <5>3, <5>4
      <4> QED
        BY <4>1, <4>2
    <3>6. \A s \in Sockets, n \in Messages :
             /\ On(s, n) \in encrypting' => ~UnderWay(s, n)' /\ ~Forwarded(s, n)'
             /\ UnderWay(s, n)' => ~Forwarded(s, n)'
      BY <3>1, <3>2, <3>3, <3>4 DEF OncePerSocket
    <3>7. \A s \in Sockets : server'[s] = "joined" =>
             On(s, Connect) \notin encrypting' /\ ~UnderWay(s, Connect)'
      <4>1. server[socket] = "joined" => m # Connect
        BY <2>1 DEF OncePerSocket, m
      <4> QED
        BY <3>1, <3>3, <4>1 DEF OncePerSocket
    <3>8. \A i, j \in DOMAIN forwarded' : i # j => forwarded'[i] # forwarded'[j]
      BY <3>3 DEF OncePerSocket
    <3> QED
      BY <3>5, <3>6, <3>7, <3>8 DEF OncePerSocket, On
  <2> QED
    BY <1>8, <2>2, <2>3 DEF Encrypted
<1>9. ASSUME NEW mail \in decrypting, Decrypted(mail)
      PROVE  OncePerSocket'
  BY <1>9, <1>a DEF Decrypted
<1>10. ASSUME NEW text \in PageTexts, Dispatch(text)
       PROVE  OncePerSocket'
  <2>1. /\ Len(dispatched) \in 0..MaxMessages /\ MaxMessages \in Nat /\ Connect \notin Nat
        /\ Len(dispatched') = Len(dispatched) + 1 /\ Len(dispatched) < MaxMessages
    <3>1. /\ dispatched \in Seq(PageTexts) /\ dispatched' = Append(dispatched, text)
          /\ Len(dispatched) < MaxMessages
      BY <1>10 DEF Dispatch, TypeOK
    <3>2. Len(dispatched') = Len(dispatched) + 1
      BY <3>1, AppendTo
    <3> QED
      BY <3>1, <3>2, Bounds
  <2>2. Len(dispatched') \in Messages \ {Connect} /\ socket \in Sockets
    BY <2>1, Bounds DEF Messages
  <2>3. ~UnderWay(socket, Len(dispatched')) /\ ~Forwarded(socket, Len(dispatched'))
    BY <2>1, <2>2 DEF NothingOlder, Carries
  <2>4. \A p \in encrypting' \ encrypting :
           p = On(socket, p.message) /\ p.message = Len(dispatched')
    BY <1>10, SameMessage DEF Dispatch
  <2> QED
    BY <1>10, <1>b, <2>2, <2>3, <2>4 DEF Dispatch
<1>11. ASSUME NEW text \in MailTexts, MailArrives(text)
       PROVE  OncePerSocket'
  BY <1>11, <1>a DEF MailArrives
<1>12. ASSUME NEW s \in Sockets, Take(s)
       PROVE  OncePerSocket'
  <2>1. PICK m : m = Head(toServer[s])
    OBVIOUS
  <2>2. /\ Len(toServer[s]) \in Nat \ {0} /\ DOMAIN toServer[s] = 1..Len(toServer[s])
        /\ DOMAIN toServer'[s] = 1..(Len(toServer[s]) - 1)
        /\ \A i \in 1..(Len(toServer[s]) - 1) : toServer'[s][i] = toServer[s][i + 1]
        /\ \A t \in Sockets \ {s} : toServer'[t] = toServer[t]
        /\ \A t \in Sockets : \A n : UnderWay(t, n)' => UnderWay(t, n)
        /\ ~UnderWay(s, m)'
    BY <1>12, <2>1, TakeEffect DEF Take
  <2>3. /\ m \in Messages /\ UnderWay(s, m)
        /\ server[s] = "joined" => m # Connect
        /\ HandOver(s, m) \/ UNCHANGED <<server, forwarded>>
        /\ UNCHANGED encrypting
    BY <1>12, <2>1, TakeOutcome
  <2>4. ASSUME NEW t \in Sockets, NEW i \in DOMAIN toServer'[t], NEW j \in DOMAIN toServer'[t],
               i # j
        PROVE  toServer'[t][i] # toServer'[t][j]
    <3>1. CASE t = s
      <4>1. /\ i + 1 \in DOMAIN toServer[s] /\ j + 1 \in DOMAIN toServer[s] /\ i + 1 # j + 1
            /\ toServer'[s][i] = toServer[s][i + 1] /\ toServer'[s][j] = toServer[s][j + 1]
        BY <2>2, <2>4, <3>1
      <4> QED
        BY <3>1, <4>1 DEF OncePerSocket
    <3>2. CASE t # s
      BY <2>2, <2>4, <3>2 DEF OncePerSocket
    <3> QED
      BY <3>1, <3>2
  <2>5. On(s, m) \notin encrypting /\ ~Forwarded(s, m)
    BY <2>3 DEF OncePerSocket
  <2>6. CASE UNCHANGED <<server, forwarded>>
    <3>1. \A t, n : Forwarded(t, n)' = Forwarded(t, n)
      BY <2>6 DEF Forwarded, On
    <3> QED
      BY <2>2, <2>3, <2>4, <2>6, <3>1 DEF OncePerSocket, On
  <2>7. CASE HandOver(s, m)
    <3>1. /\ \A t \in Sockets \ {s} : server'[t] = server[t]
          /\ server'[s] = IF m = Connect \/ server[s] = "joined" THEN "joined" ELSE "registered"
          /\ \A t, n : Forwarded(t, n)' => Forwarded(t, n) \/ (t = s /\ n = m)
          /\ \A i \in DOMAIN forwarded' :
                \/ i \in DOMAIN forwarded /\ forwarded'[i] = forwarded[i]
                \/ i = Len(forwarded) + 1 /\ forwarded'[i] = On(s, m)
          /\ Len(forwarded) + 1 \notin DOMAIN forwarded
      BY <2>3, <2>7, HandOverEffect
    <3>2. \A i \in DOMAIN forwarded : forwarded[i] # On(s, m)
      BY <2>5 DEF Forwarded
    <3>3. \A i, j \in DOMAIN forwarded' : i # j => forwarded'[i] # forwarded'[j]
      BY <3>1, <3>2 DEF OncePerSocket
    <3>4. \A t \in Sockets, n \in Messages :
             /\ On(t, n) \in encrypting => ~UnderWay(t, n)' /\ ~Forwarded(t, n)'
             /\ UnderWay(t, n)' => ~Forwarded(t, n)'
      BY <2>2, <2>5, <3>1 DEF OncePerSocket
    <3>5. \A t \in Sockets : server'[t] = "joined" =>
             On(t, Connect) \notin encrypting /\ ~UnderWay(t, Connect)'
      BY <2>2, <2>5, <3>1 DEF OncePerSocket
    <3> QED
      BY <2>3, <2>4, <3>3, <3>4, <3>5 DEF OncePerSocket, On
  <2> QED
    BY <2>3, <2>6, <2>7
<1>13. CASE UNCHANGED vars
  BY <1>13, <1>a DEF vars
<1> QED
  BY <1>1, <1>2, <1>3, <1>4, <1>5, <1>6, <1>7, <1>8, <1>9, <1>10, <1>11, <1>12, <1>13
     DEF Next, Settles

\* Numbers only grow, from one socket to the next as well.
LEMMA OlderKept ==
    ASSUME TypeOK, SocketInv, OncePerSocket, NothingOlder, [Next]_vars
    PROVE  NothingOlder'
<1> USE DEF machineVars, workflowVars, dispatchVars, histories, serverVars, mailVars
<1>a. ASSUME UNCHANGED <<subscribed, replay, dispatched>>,
             \A s \in Sockets, m \in Messages \ {Connect} : Carries(s, m)' => Carries(s, m)
      PROVE  NothingOlder'
  <2>1. \A s \in Sockets, m \in Messages \ {Connect} :
           Carries(s, m)' => replay[s] <= m /\ m <= Len(dispatched)
    BY <1>a DEF NothingOlder
  <2>2. subscribed \subseteq Sockets
    BY DEF TypeOK
  <2>3. \A s, t \in subscribed, m \in Messages \ {Connect} :
           Carries(s, m)' /\ s < t => m <= replay[t]
    BY <1>a, <2>2 DEF NothingOlder
  <2> QED
    BY <1>a, <2>1, <2>3 DEF NothingOlder
<1>b. ASSUME UNCHANGED <<subscribed, replay, dispatched, toServer, forwarded>>,
             encrypting' \subseteq encrypting
      PROVE  NothingOlder'
  BY <1>a, <1>b DEF Carries, UnderWay, Forwarded, On
<1>c. /\ socket \in Nat /\ socket \in Sockets /\ subscribed \subseteq Sockets
      /\ \A s \in subscribed : s \in Nat /\ s <= socket
      /\ Len(dispatched) \in Nat /\ \A s \in Sockets : replay[s] \in Nat
      /\ Messages \ {Connect} \subseteq Nat
  <2>1. /\ socket \in Nat /\ socket \in Sockets /\ Len(dispatched) \in Nat
        /\ MaxMessages \in Nat /\ \A s \in Sockets : replay[s] \in Nat
    BY Bounds
  <2>2. subscribed \subseteq Sockets /\ \A s \in subscribed : s \in Nat /\ s <= socket
    BY <2>1 DEF SocketInv, TypeOK
  <2>3. Messages \ {Connect} \subseteq Nat
    BY <2>1 DEF Messages
  <2> QED
    BY <2>1, <2>2, <2>3
<1>1. CASE OnOpen
  BY <1>1, <1>b DEF OnOpen
<1>2. CASE OnSuccess
  <2>1. /\ subscribed' = subscribed \cup {socket} /\ socket \notin subscribed
        /\ replay'[socket] = Len(dispatched) /\ UNCHANGED dispatched
        /\ \A s \in Sockets \ {socket} : replay'[s] = replay[s]
    BY <1>2, <1>c DEF OnSuccess, Succeed, SocketInv, TypeOK
  <2>2. \A m : ~Carries(socket, m)
    BY <1>c, <2>1, SameMessage DEF Carries, UnderWay, Forwarded, SocketInv
  <2>3. ASSUME NEW s, NEW m, Carries(s, m)', m # Connect
        PROVE  \/ Carries(s, m) /\ s # socket
               \/ s = socket /\ m = Len(dispatched)
    <3>1. (UnderWay(s, m)' <=> UnderWay(s, m)) /\ (Forwarded(s, m)' <=> Forwarded(s, m))
      BY <1>2 DEF OnSuccess, UnderWay, Forwarded, On
    <3>2. On(s, m)' = On(s, m)
      BY DEF On
    <3>3. On(s, m) \in encrypting' =>
             On(s, m) \in encrypting \/ (s = socket /\ m = Len(dispatched))
      BY <1>2, <2>3, SameMessage DEF OnSuccess
    <3>4. Carries(s, m)' => On(s, m) \in encrypting' \/ UnderWay(s, m) \/ Forwarded(s, m)
      BY <3>1, <3>2 DEF Carries
    <3>5. UnderWay(s, m) \/ Forwarded(s, m) => Carries(s, m)
      BY DEF Carries
    <3>6. On(s, m) \in encrypting => Carries(s, m)
      BY DEF Carries
    <3>7. Carries(s, m) => s # socket
      BY <2>2
    <3> QED
      BY <2>3, <3>3, <3>4, <3>5, <3>6, <3>7
  <2>4. \A s \in Sockets : replay'[s] <= Len(dispatched)
    BY <1>c, <2>1 DEF NothingOlder
  <2>5. \A s \in Sockets, m \in Messages \ {Connect} :
           Carries(s, m)' => replay'[s] <= m /\ m <= Len(dispatched)
    BY <1>c, <2>1, <2>3 DEF NothingOlder
  <2>6. ASSUME NEW s \in subscribed', NEW t \in subscribed', NEW m \in Messages \ {Connect},
               Carries(s, m)', s < t
        PROVE  m <= replay'[t]
    <3>1. s # socket /\ Carries(s, m) /\ s \in subscribed
      BY <1>c, <2>1, <2>3, <2>6
    <3>2. CASE t = socket
      BY <1>c, <2>1, <3>1, <3>2 DEF NothingOlder
    <3>3. CASE t # socket
      BY <1>c, <2>1, <2>6, <3>1, <3>3 DEF NothingOlder
    <3> QED
      BY <3>2, <3>3
  <2> QED
    BY <2>1, <2>4, <2>5, <2>6 DEF NothingOlder
<1>3. CASE OnFailure
  BY <1>3, <1>b DEF OnFailure, NewSocket
<1>4. CASE Close
  <2>1. \A s \in Sockets : \A n : UnderWay(s, n)' => UnderWay(s, n)
    BY <1>4, CloseEffect
  <2>2. \A s \in Sockets : \A n : Carries(s, n)' => Carries(s, n)
    BY <1>4, <2>1 DEF Close, Carries, Forwarded, On
  <2> QED
    BY <1>4, <1>a, <2>2 DEF Close
<1>5. CASE OnDisconnect
  BY <1>5, <1>b DEF OnDisconnect
<1>6. CASE OnTimeout
  BY <1>6, <1>b DEF OnTimeout, NewSocket
<1>7. CASE OnMessage
  BY <1>7, <1>b DEF OnMessage
<1>8. ASSUME NEW promise \in encrypting, Encrypted(promise)
      PROVE  NothingOlder'
  <2>1. /\ promise = On(socket, promise.message) /\ promise.message \in Messages
    BY Promises DEF SocketInv
  <2>2. \A s \in Sockets : \A n : UnderWay(s, n)' => UnderWay(s, n) \/ On(s, n) = promise
    <3>1. CASE UNCHANGED toServer
      BY <3>1 DEF UnderWay
    <3>2. CASE toServer' = [toServer EXCEPT ![socket] = Append(@, promise.message)]
      BY <2>1, <3>2, SendEffect
    <3> QED
      BY <1>8, <3>1, <3>2 DEF Encrypted
  <2>3. \A s \in Sockets : \A n : Carries(s, n)' => Carries(s, n)
    BY <1>8, <2>2 DEF Encrypted, Carries, Forwarded, On
  <2> QED
    BY <1>8, <1>a, <2>3 DEF Encrypted
<1>9. ASSUME NEW mail \in decrypting, Decrypted(mail)
      PROVE  NothingOlder'
  BY <1>9, <1>b DEF Decrypted
<1>10. ASSUME NEW text \in PageTexts, Dispatch(text)
       PROVE  NothingOlder'
  <2>1. Len(dispatched') = Len(dispatched) + 1 /\ UNCHANGED <<subscribed, replay>>
    BY <1>10, AppendTo DEF Dispatch, TypeOK
  <2>2. \A s \in Sockets : replay[s] <= Len(dispatched)
    BY DEF NothingOlder
  <2>3. ASSUME NEW s, NEW m, Carries(s, m)'
        PROVE  \/ Carries(s, m)
               \/ s = socket /\ m = Len(dispatched')
    <3>1. (UnderWay(s, m)' <=> UnderWay(s, m)) /\ (Forwarded(s, m)' <=> Forwarded(s, m))
      BY <1>10 DEF Dispatch, UnderWay, Forwarded, On
    <3>2. On(s, m)' = On(s, m)
      BY DEF On
    <3>3. On(s, m) \in encrypting' =>
             On(s, m) \in encrypting \/ (s = socket /\ m = Len(dispatched'))
      BY <1>10, SameMessage DEF Dispatch
    <3>4. Carries(s, m)' => On(s, m) \in encrypting' \/ UnderWay(s, m) \/ Forwarded(s, m)
      BY <3>1, <3>2 DEF Carries
    <3>5. UnderWay(s, m) \/ Forwarded(s, m) => Carries(s, m)
      BY DEF Carries
    <3>6. On(s, m) \in encrypting => Carries(s, m)
      BY DEF Carries
    <3> QED
      BY <2>3, <3>3, <3>4, <3>5, <3>6
  <2>4. \A s \in Sockets, m \in Messages \ {Connect} :
           Carries(s, m)' => replay[s] <= m /\ m <= Len(dispatched')
    BY <1>c, <2>1, <2>2, <2>3 DEF NothingOlder
  <2>5. \A s, t \in subscribed, m \in Messages \ {Connect} :
           Carries(s, m)' /\ s < t => m <= replay[t]
    BY <1>c, <2>3 DEF NothingOlder
  <2>6. \A s \in Sockets : replay[s] <= Len(dispatched')
    BY <1>c, <2>1, <2>2
  <2> QED
    BY <2>1, <2>4, <2>5, <2>6 DEF NothingOlder
<1>11. ASSUME NEW text \in MailTexts, MailArrives(text)
       PROVE  NothingOlder'
  BY <1>11, <1>b DEF MailArrives
<1>12. ASSUME NEW s \in Sockets, Take(s)
       PROVE  NothingOlder'
  <2>1. PICK m : m = Head(toServer[s])
    OBVIOUS
  <2>2. \A t \in Sockets : \A n : UnderWay(t, n)' => UnderWay(t, n)
    BY <1>12, <2>1, TakeEffect DEF Take
  <2>3. /\ m \in Messages /\ UnderWay(s, m)
        /\ server[s] = "joined" => m # Connect
        /\ HandOver(s, m) \/ UNCHANGED <<server, forwarded>>
        /\ UNCHANGED <<encrypting, subscribed, replay, dispatched>>
    BY <1>12, <2>1, TakeOutcome
  <2>4. \A t, n : Forwarded(t, n)' => Forwarded(t, n) \/ (t = s /\ n = m)
    <3>1. CASE HandOver(s, m)
      BY <2>3, <3>1, HandOverEffect
    <3>2. CASE UNCHANGED forwarded
      BY <3>2 DEF Forwarded, On
    <3> QED
      BY <2>3, <3>1, <3>2
  <2>5. \A t \in Sockets : \A n : Carries(t, n)' => Carries(t, n)
    BY <2>2, <2>3, <2>4 DEF Carries, On
  <2> QED
    BY <1>a, <2>3, <2>5
<1>13. CASE UNCHANGED vars
  BY <1>13, <1>b DEF vars
<1> QED
  BY <1>1, <1>2, <1>3, <1>4, <1>5, <1>6, <1>7, <1>8, <1>9, <1>10, <1>11, <1>12, <1>13
     DEF Next, Settles

\* Two forwardings of one message are of two sockets, the later of which began
\* with it.
LEMMA OnlyTheReplayedTwice ==
    TypeOK /\ SocketInv /\ OncePerSocket /\ NothingOlder => ForwardedAgainIfReplayed
<1> SUFFICES ASSUME TypeOK, SocketInv, OncePerSocket, NothingOlder,
                    NEW i \in DOMAIN forwarded, NEW j \in DOMAIN forwarded, i # j,
                    forwarded[i].message = forwarded[j].message
             PROVE  /\ forwarded[i].connection # forwarded[j].connection
                    /\ replay[Max({forwarded[i].connection, forwarded[j].connection})]
                         = forwarded[i].message
    BY DEF ForwardedAgainIfReplayed
<1> DEFINE s == forwarded[i].connection
           t == forwarded[j].connection
           m == forwarded[i].message
<1>1. /\ s \in subscribed /\ s \in Nat /\ s \in Sockets
      /\ t \in subscribed /\ t \in Nat /\ t \in Sockets
      /\ m \in Messages \ {Connect} /\ m \in Nat /\ replay[s] \in Nat /\ replay[t] \in Nat
      /\ forwarded[i] = On(s, m) /\ forwarded[j] = On(t, m)
  BY Bounds DEF SocketInv, Sockets, Messages
<1>2. forwarded[i] # forwarded[j]
  BY DEF OncePerSocket
<1>3. Carries(s, m) /\ Carries(t, m)
  BY <1>1 DEF Carries, Forwarded
<1> HIDE DEF s, t, m
<1>4. s # t
  BY <1>1, <1>2
<1>5. replay[s] <= m /\ replay[t] <= m
  BY <1>1, <1>3 DEF NothingOlder
<1>6. (s < t => m = replay[t]) /\ (t < s => m = replay[s])
  BY <1>1, <1>3, <1>5 DEF NothingOlder
<1>7. Max({s, t}) = IF s < t THEN t ELSE s
  BY <1>1 DEF Max
<1> QED
  BY <1>1, <1>4, <1>6, <1>7 DEF s, t, m

\* Until connect is taken it is on its way, and what precedes it overtook it.
LEMMA ConnectKept ==
    ASSUME TypeOK, SocketInv, OncePerSocket, ConnectInv, [Next]_vars
    PROVE  ConnectInv'
<1> USE DEF machineVars, workflowVars, dispatchVars, histories, serverVars, mailVars
<1>a. ASSUME UNCHANGED <<result, open, socket, wedged, server, toServer, early>>,
             On(socket, Connect) \in encrypting => On(socket, Connect) \in encrypting'
      PROVE  ConnectInv'
  BY <1>a DEF ConnectInv, UnderWay, OvertookConnect, On
<1>b. result' # "success" \/ ~open' => ConnectInv'
  BY DEF ConnectInv
<1>1. CASE OnOpen
  BY <1>1, <1>a DEF OnOpen, Open
<1>2. CASE OnSuccess
  <2>1. toServer'[socket'] = <<>> /\ On(socket', Connect) \in encrypting'
    BY <1>2, Bounds DEF OnSuccess, Succeed, SocketInv
  <2> QED
    BY <2>1 DEF ConnectInv, On
<1>3. CASE OnFailure
  BY <1>3, <1>b DEF OnFailure, NewSocket
<1>4. CASE Close
  BY <1>4, <1>b DEF Close
<1>5. CASE OnDisconnect
  BY <1>5, <1>b DEF OnDisconnect
<1>6. CASE OnTimeout
  BY <1>6, <1>b DEF OnTimeout, NewSocket
<1>7. CASE OnMessage
  BY <1>7, <1>a DEF OnMessage
<1>8. ASSUME NEW promise \in encrypting, Encrypted(promise)
      PROVE  ConnectInv'
  <2>1. /\ promise = On(socket, promise.message) /\ promise.message \in Messages
        /\ socket \in Sockets
    BY Promises, Bounds DEF SocketInv
  <2>2. CASE ~open
    BY <1>8, <1>b, <2>2 DEF Encrypted
  <2>3. CASE open /\ ~Encryptable(promise.message)
    <3>1. promise.message # Connect
      BY <2>3 DEF Encryptable
    <3>2. On(socket, Connect) # promise
      BY <3>1, SameMessage
    <3> QED
      BY <1>8, <1>a, <2>3, <3>2 DEF Encrypted
  <2>4. CASE open /\ Encryptable(promise.message)
    <3> DEFINE m == promise.message
               len == Len(toServer[socket])
    <3>1. toServer' = [toServer EXCEPT ![socket] = Append(@, m)] /\ Record(promise)
      BY <1>8, <2>4 DEF Encrypted
    <3>2. /\ len \in Nat /\ DOMAIN toServer[socket] = 1..len
          /\ DOMAIN toServer'[socket] = 1..(len + 1) /\ toServer'[socket][len + 1] = m
          /\ \A i \in 1..len : toServer'[socket][i] = toServer[socket][i]
          /\ \A n : (\E i \in DOMAIN toServer'[socket] : toServer'[socket][i] = n)
                      <=> UnderWay(socket, n) \/ n = m
      <4>1. /\ len \in Nat /\ DOMAIN toServer[socket] = 1..len
            /\ DOMAIN toServer'[socket] = 1..(len + 1) /\ toServer'[socket][len + 1] = m
            /\ \A i \in DOMAIN toServer[socket] : toServer'[socket][i] = toServer[socket][i]
            /\ \A s \in Sockets : \A n : UnderWay(s, n)' <=> UnderWay(s, n) \/ (s = socket /\ n = m)
        BY <2>1, <3>1, SendEffect
      <4>2. \A n : (\E i \in DOMAIN toServer'[socket] : toServer'[socket][i] = n)
                      <=> UnderWay(socket, n) \/ n = m
        BY <2>1, <4>1 DEF UnderWay
      <4> QED
        BY <4>1, <4>2
    <3>3. /\ UNCHANGED <<result, open, socket, wedged, server>>
          /\ encrypting' = encrypting \ {On(socket, m)}
      BY <1>8, <2>1 DEF Encrypted
    <3>4. early \subseteq early'
      BY <3>1 DEF Record
    <3>5. m # Connect /\ On(socket, Connect) \in encrypting => On(socket, m) \in early'
      BY <2>1, <3>1 DEF Record
    <3> HIDE DEF m, len
    <3> SUFFICES ASSUME result = "success", open, socket \notin wedged, server[socket] # "joined"
                 PROVE  /\ \/ On(socket, Connect) \in encrypting'
                           \/ \E i \in DOMAIN toServer'[socket] : toServer'[socket][i] = Connect
                        /\ \A i \in DOMAIN toServer'[socket] :
                              \/ toServer'[socket][i] = Connect
                              \/ On(socket, toServer'[socket][i]) \in early'
                              \/ \E j \in 1..(i - 1) : toServer'[socket][j] = Connect
        BY <3>3 DEF ConnectInv, UnderWay, OvertookConnect, On
    <3>6. /\ On(socket, Connect) \in encrypting \/ UnderWay(socket, Connect)
          /\ \A i \in 1..len :
                \/ toServer[socket][i] = Connect
                \/ On(socket, toServer[socket][i]) \in early
                \/ \E j \in 1..(i - 1) : toServer[socket][j] = Connect
      BY <3>2 DEF ConnectInv, OvertookConnect
    <3>7. \/ On(socket, Connect) \in encrypting'
          \/ \E i \in DOMAIN toServer'[socket] : toServer'[socket][i] = Connect
      BY <3>2, <3>3, <3>6, SameMessage
    <3>8. ASSUME NEW i \in 1..len
          PROVE  \/ toServer'[socket][i] = Connect
                 \/ On(socket, toServer'[socket][i]) \in early'
                 \/ \E j \in 1..(i - 1) : toServer'[socket][j] = Connect
      <4>1. \A j \in 1..(i - 1) : j \in 1..len
        BY <3>2
      <4> QED
        BY <3>2, <3>4, <3>6, <4>1
    <3>9. \/ m = Connect
          \/ On(socket, m) \in early'
          \/ \E j \in 1..len : toServer'[socket][j] = Connect
      <4>1. UnderWay(socket, Connect) => \E j \in 1..len : toServer[socket][j] = Connect
        BY <3>2 DEF UnderWay
      <4> QED
        BY <3>2, <3>5, <3>6, <4>1
    <3>10. ASSUME NEW i \in DOMAIN toServer'[socket]
           PROVE  \/ toServer'[socket][i] = Connect
                  \/ On(socket, toServer'[socket][i]) \in early'
                  \/ \E j \in 1..(i - 1) : toServer'[socket][j] = Connect
      <4>1. CASE i \in 1..len
        BY <3>8, <4>1
      <4>2. CASE i = len + 1
        <5>1. i - 1 = len /\ toServer'[socket][i] = m
          BY <3>2, <4>2
        <5> QED
          BY <3>9, <5>1
      <4> QED
        BY <3>2, <4>1, <4>2
    <3> QED
      BY <3>7, <3>10
  <2> QED
    BY <2>2, <2>3, <2>4
<1>9. ASSUME NEW mail \in decrypting, Decrypted(mail)
      PROVE  ConnectInv'
  BY <1>9, <1>a DEF Decrypted
<1>10. ASSUME NEW text \in PageTexts, Dispatch(text)
       PROVE  ConnectInv'
  BY <1>10, <1>a DEF Dispatch
<1>11. ASSUME NEW text \in MailTexts, MailArrives(text)
       PROVE  ConnectInv'
  BY <1>11, <1>a DEF MailArrives
<1>12. ASSUME NEW s \in Sockets, Take(s)
       PROVE  ConnectInv'
  <2>1. PICK m : m = Head(toServer[s])
    OBVIOUS
  <2>2. /\ m = toServer[s][1]
        /\ Len(toServer[s]) \in Nat \ {0} /\ DOMAIN toServer[s] = 1..Len(toServer[s])
        /\ DOMAIN toServer'[s] = 1..(Len(toServer[s]) - 1)
        /\ \A i \in 1..(Len(toServer[s]) - 1) : toServer'[s][i] = toServer[s][i + 1]
        /\ \A t \in Sockets \ {s} : toServer'[t] = toServer[t]
        /\ \A n : UnderWay(s, n) => UnderWay(s, n)' \/ n = m
    <3>1. toServer[s] # <<>> /\ toServer' = [toServer EXCEPT ![s] = Tail(@)]
      BY <1>12 DEF Take
    <3>2. \A t \in Sockets : \A n : UnderWay(t, n) => UnderWay(t, n)' \/ (t = s /\ n = m)
      BY <2>1, <3>1, TakeEffect
    <3>3. \A n : UnderWay(s, n) => UnderWay(s, n)' \/ n = m
      BY <3>2
    <3> QED
      BY <2>1, <3>1, <3>3, TakeEffect
  <2>3. /\ m \in Messages
        /\ server[s] = "joined" => m # Connect
        /\ wedged' \subseteq wedged \cup {s} /\ wedged \subseteq wedged'
        /\ HandOver(s, m) \/ (s \in wedged' /\ UNCHANGED <<server, forwarded>>)
        /\ UNCHANGED <<result, open, socket, encrypting, early>>
    BY <1>12, <2>1, TakeOutcome
  <2>4. HandOver(s, m) =>
           /\ \A t \in Sockets \ {s} : server'[t] = server[t]
           /\ server'[s] = IF m = Connect \/ server[s] = "joined" THEN "joined" ELSE "registered"
    BY <2>3, HandOverEffect
  <2>5. CASE s # socket
    <3>1. /\ toServer'[socket] = toServer[socket] /\ server'[socket] = server[socket]
          /\ socket \in wedged' <=> socket \in wedged
      BY <2>2, <2>3, <2>4, <2>5, Bounds
    <3> QED
      BY <2>3, <3>1 DEF ConnectInv, UnderWay, OvertookConnect, On
  <2>6. CASE s = socket
    <3> SUFFICES ASSUME result = "success", open, socket \notin wedged', server'[socket] # "joined"
                 PROVE  /\ \/ On(socket, Connect) \in encrypting
                           \/ \E i \in DOMAIN toServer'[socket] : toServer'[socket][i] = Connect
                        /\ \A i \in DOMAIN toServer'[socket] :
                              \/ toServer'[socket][i] = Connect
                              \/ On(socket, toServer'[socket][i]) \in early
                              \/ \E j \in 1..(i - 1) : toServer'[socket][j] = Connect
        BY <2>3 DEF ConnectInv, UnderWay, OvertookConnect, On
    <3>1. m # Connect /\ server[socket] # "joined" /\ socket \notin wedged
      BY <2>3, <2>4, <2>6
    <3>2. /\ On(socket, Connect) \in encrypting \/ UnderWay(socket, Connect)
          /\ \A i \in DOMAIN toServer[socket] :
                \/ toServer[socket][i] = Connect
                \/ On(socket, toServer[socket][i]) \in early
                \/ \E j \in 1..(i - 1) : toServer[socket][j] = Connect
      BY <3>1 DEF ConnectInv, OvertookConnect
    <3>3. \/ On(socket, Connect) \in encrypting
          \/ \E i \in DOMAIN toServer'[socket] : toServer'[socket][i] = Connect
      <4>1. UnderWay(s, Connect)' => \E i \in DOMAIN toServer'[s] : toServer'[s][i] = Connect
        BY DEF UnderWay
      <4> QED
        BY <2>2, <2>6, <3>1, <3>2, <4>1
    <3>4. ASSUME NEW i \in DOMAIN toServer'[socket]
          PROVE  \/ toServer'[socket][i] = Connect
                 \/ On(socket, toServer'[socket][i]) \in early
                 \/ \E j \in 1..(i - 1) : toServer'[socket][j] = Connect
      <4>1. /\ i \in Nat /\ i + 1 \in DOMAIN toServer[socket]
            /\ toServer'[socket][i] = toServer[socket][i + 1] /\ i <= Len(toServer[socket]) - 1
        <5>1. i \in DOMAIN toServer'[s]
          BY <2>6
        <5> QED
          BY <2>2, <2>6, <5>1
      <4>2. CASE \E j \in 1..i : toServer[socket][j] = Connect
        <5>1. PICK j \in 1..i : toServer[socket][j] = Connect
          BY <4>2
        <5>2. j # 1
          BY <2>2, <2>6, <3>1, <5>1
        <5>3. /\ j - 1 \in 1..(i - 1) /\ j - 1 \in 1..(Len(toServer[socket]) - 1)
              /\ (j - 1) + 1 = j
          BY <2>2, <2>6, <4>1, <5>2
        <5>4. toServer'[socket][j - 1] = Connect
          BY <2>2, <2>6, <5>1, <5>3
        <5> QED
          BY <5>3, <5>4
      <4>3. (i + 1) - 1 = i
        BY <4>1
      <4> QED
        BY <3>2, <4>1, <4>2, <4>3
    <3> QED
      BY <3>3, <3>4
  <2> QED
    BY <2>5, <2>6
<1>13. CASE UNCHANGED vars
  BY <1>13, <1>a DEF vars
<1> QED
  BY <1>1, <1>2, <1>3, <1>4, <1>5, <1>6, <1>7, <1>8, <1>9, <1>10, <1>11, <1>12, <1>13
     DEF Next, Settles


\* What is owed is encrypted, sent, taken and forwarded, or overtakes connect.
LEMMA GetsThroughKept ==
    ASSUME TypeOK, SocketInv, OncePerSocket, ConnectInv, GetsThrough, [Next]_vars
    PROVE  GetsThrough'
<1> USE DEF machineVars, workflowVars, dispatchVars, histories, serverVars, mailVars
<1>0. SUFFICES ASSUME NEW m \in 1..MaxMessages,
                      result' = "success", open', m \in replay'[socket']..Len(dispatched'),
                      m \in {Connect, 0} \/ FitsServerKey(dispatched'[m], IdLength),
                      socket' \notin wedged'
               PROVE  \/ On(socket', m) \in encrypting'
                      \/ UnderWay(socket, m)'
                      \/ Forwarded(socket, m)'
                      \/ On(socket', m) \in early'
  BY DEF GetsThrough, Owed, Encryptable, OvertookConnect, On
<1>m. m \in Nat /\ m > 0 /\ m # Connect /\ m # 0 /\ m \in Messages
  BY Bounds DEF Messages
<1>b. ASSUME Owed(m), Encryptable(m), socket \notin wedged
      PROVE  \/ On(socket, m) \in encrypting \/ UnderWay(socket, m)
             \/ Forwarded(socket, m) \/ On(socket, m) \in early
  BY <1>b DEF GetsThrough, OvertookConnect
<1>a. ASSUME UNCHANGED <<result, open, socket, replay, dispatched, wedged, toServer, forwarded,
                         early>>,
             On(socket, m) \in encrypting => On(socket, m) \in encrypting'
      PROVE  \/ On(socket', m) \in encrypting'
             \/ UnderWay(socket, m)'
             \/ Forwarded(socket, m)'
             \/ On(socket', m) \in early'
  <2>1. Owed(m) /\ Encryptable(m) /\ socket \notin wedged
    BY <1>0, <1>a, <1>m DEF Owed, Encryptable
  <2>2. /\ UnderWay(socket, m)' <=> UnderWay(socket, m)
        /\ Forwarded(socket, m)' <=> Forwarded(socket, m)
    BY <1>a DEF UnderWay, Forwarded, On
  <2> QED
    BY <1>a, <1>b, <2>1, <2>2
<1>1. CASE OnOpen
  BY <1>1, <1>a DEF OnOpen, Open
<1>2. CASE OnSuccess
  <2>1. m = Len(dispatched)
    BY <1>0, <1>2, Bounds DEF OnSuccess, TypeOK
  <2> QED
    BY <1>2, <2>1 DEF OnSuccess
<1>3. CASE OnFailure
  BY <1>0, <1>3 DEF OnFailure, NewSocket
<1>4. CASE Close
  BY <1>0, <1>4 DEF Close
<1>5. CASE OnDisconnect
  BY <1>0, <1>5 DEF OnDisconnect
<1>6. CASE OnTimeout
  BY <1>0, <1>6 DEF OnTimeout, NewSocket
<1>7. CASE OnMessage
  BY <1>7, <1>a DEF OnMessage
<1>8. ASSUME NEW promise \in encrypting, Encrypted(promise)
      PROVE  \/ On(socket', m) \in encrypting'
             \/ UnderWay(socket, m)'
             \/ Forwarded(socket, m)'
             \/ On(socket', m) \in early'
  <2>1. /\ promise = On(socket, promise.message) /\ promise.message \in Messages
        /\ socket \in Sockets
    BY Promises, Bounds DEF SocketInv
  <2>2. UNCHANGED <<result, open, socket, replay, dispatched, wedged, forwarded>>
    BY <1>8 DEF Encrypted
  <2>3. Owed(m) /\ Encryptable(m) /\ socket \notin wedged
    BY <1>0, <1>m, <2>2 DEF Owed, Encryptable
  <2>4. CASE promise.message = m
    <3>1. toServer' = [toServer EXCEPT ![socket] = Append(@, m)]
      BY <1>0, <1>8, <2>2, <2>3, <2>4 DEF Encrypted
    <3>2. \A s \in Sockets : \A n : UnderWay(s, n)' <=> UnderWay(s, n) \/ (s = socket /\ n = m)
      BY <1>m, <3>1, SendEffect
    <3> QED
      BY <2>1, <2>2, <3>2 DEF UnderWay
  <2>5. CASE promise.message # m
    <3>1. On(socket, m) \in encrypting => On(socket, m) \in encrypting'
      BY <1>8, <2>1, <2>5, SameMessage DEF Encrypted
    <3>2. UnderWay(socket, m) => UnderWay(socket, m)'
      <4>1. CASE UNCHANGED toServer
        BY <2>2, <4>1 DEF UnderWay
      <4>2. CASE toServer' = [toServer EXCEPT ![socket] = Append(@, promise.message)]
        <5>1. \A s \in Sockets : \A n :
                 UnderWay(s, n)' <=> UnderWay(s, n) \/ (s = socket /\ n = promise.message)
          BY <2>1, <4>2, SendEffect
        <5> QED
          BY <2>1, <2>2, <5>1 DEF UnderWay
      <4> QED
        BY <1>8, <4>1, <4>2 DEF Encrypted
    <3>3. Forwarded(socket, m) => Forwarded(socket, m)'
      BY <2>2 DEF Forwarded, On
    <3>4. early \subseteq early'
      BY <1>8 DEF Encrypted, Record
    <3> QED
      BY <1>b, <2>2, <2>3, <3>1, <3>2, <3>3, <3>4
  <2> QED
    BY <2>4, <2>5
<1>9. ASSUME NEW mail \in decrypting, Decrypted(mail)
      PROVE  \/ On(socket', m) \in encrypting'
             \/ UnderWay(socket, m)'
             \/ Forwarded(socket, m)'
             \/ On(socket', m) \in early'
  BY <1>9, <1>a DEF Decrypted
<1>10. ASSUME NEW text \in PageTexts, Dispatch(text)
       PROVE  \/ On(socket', m) \in encrypting'
              \/ UnderWay(socket, m)'
              \/ Forwarded(socket, m)'
              \/ On(socket', m) \in early'
  <2>1. /\ UNCHANGED <<result, open, socket, replay, wedged, toServer, forwarded, early>>
        /\ dispatched' = Append(dispatched, text)
    BY <1>10 DEF Dispatch
  <2>2. /\ Len(dispatched) \in Nat /\ Len(dispatched') = Len(dispatched) + 1
        /\ \A i \in 1..Len(dispatched) : dispatched'[i] = dispatched[i]
    <3>1. dispatched \in Seq(PageTexts)
      BY DEF TypeOK
    <3> QED
      BY <2>1, <3>1, AppendTo
  <2>3. socket \in subscribed
    BY <1>0, <2>1 DEF SocketInv
  <2>4. CASE m = Len(dispatched')
    BY <1>10, <2>1, <2>3, <2>4 DEF Dispatch
  <2>5. CASE m # Len(dispatched')
    <3>1. replay[socket] \in Nat
      BY Bounds
    <3>2. m \in 1..Len(dispatched) /\ m \in replay[socket]..Len(dispatched)
      BY <1>0, <1>m, <2>1, <2>2, <2>5, <3>1
    <3>3. Owed(m) /\ Encryptable(m) /\ socket \notin wedged
      BY <1>0, <1>m, <2>1, <2>2, <3>2 DEF Owed, Encryptable
    <3>4. encrypting \subseteq encrypting'
      BY <1>10 DEF Dispatch
    <3>5. /\ UnderWay(socket, m)' <=> UnderWay(socket, m)
          /\ Forwarded(socket, m)' <=> Forwarded(socket, m)
      BY <2>1 DEF UnderWay, Forwarded, On
    <3> QED
      BY <1>b, <2>1, <3>3, <3>4, <3>5
  <2> QED
    BY <2>4, <2>5
<1>11. ASSUME NEW text \in MailTexts, MailArrives(text)
       PROVE  \/ On(socket', m) \in encrypting'
              \/ UnderWay(socket, m)'
              \/ Forwarded(socket, m)'
              \/ On(socket', m) \in early'
  BY <1>11, <1>a DEF MailArrives
<1>12. ASSUME NEW s \in Sockets, Take(s)
       PROVE  \/ On(socket', m) \in encrypting'
              \/ UnderWay(socket, m)'
              \/ Forwarded(socket, m)'
              \/ On(socket', m) \in early'
  <2>1. PICK h : h = Head(toServer[s])
    OBVIOUS
  <2>2. /\ h = toServer[s][1]
        /\ 1 \in DOMAIN toServer[s]
        /\ \A t \in Sockets : \A n : UnderWay(t, n) => UnderWay(t, n)' \/ (t = s /\ n = h)
    <3>1. toServer[s] # <<>> /\ toServer' = [toServer EXCEPT ![s] = Tail(@)]
      BY <1>12 DEF Take
    <3>2. \A t \in Sockets : \A n : UnderWay(t, n) => UnderWay(t, n)' \/ (t = s /\ n = h)
      BY <2>1, <3>1, TakeEffect
    <3>3. /\ Len(toServer[s]) \in Nat \ {0} /\ DOMAIN toServer[s] = 1..Len(toServer[s])
          /\ h = toServer[s][1]
      BY <2>1, <3>1, TakeEffect
    <3> QED
      BY <3>2, <3>3
  <2>3. /\ h \in Messages
        /\ server[s] = "joined" => h # Connect
        /\ wedged \subseteq wedged'
        /\ HandOver(s, h) \/ (s \in wedged' /\ UNCHANGED <<server, forwarded>>)
        /\ UNCHANGED <<result, open, socket, replay, dispatched, encrypting, early>>
    BY <1>12, <2>1, TakeOutcome
  <2>4. HandOver(s, h) =>
           \A t, n : Forwarded(t, n)' <=>
              Forwarded(t, n) \/ (server[s] = "joined" /\ h # 0 /\ t = s /\ n = h)
    BY <2>3, HandOverEffect
  <2>5. \A t, n : Forwarded(t, n) => Forwarded(t, n)'
    BY <2>3, <2>4 DEF Forwarded, On
  <2>6. PICK now : now = socket
    OBVIOUS
  <2>7. /\ UnderWay(socket, m)' <=> UnderWay(now, m)'
        /\ Forwarded(socket, m)' <=> Forwarded(now, m)'
    BY <2>3, <2>6 DEF UnderWay, Forwarded, On
  <2>8. now \in Sockets
    BY <2>6, Bounds
  <2>9. Owed(m) /\ Encryptable(m) /\ socket \notin wedged
    BY <1>0, <1>m, <2>3 DEF Owed, Encryptable
  <2>10. CASE UnderWay(now, m) /\ s = now /\ m = h
    <3>1. HandOver(s, h)
      BY <1>0, <2>3, <2>6, <2>10
    <3>2. CASE server[s] = "joined"
      BY <1>m, <2>4, <2>7, <2>10, <3>1, <3>2
    <3>3. CASE server[s] # "joined"
      <4>1. \A i \in DOMAIN toServer[socket] :
               \/ toServer[socket][i] = Connect
               \/ On(socket, toServer[socket][i]) \in early
               \/ \E j \in 1..(i - 1) : toServer[socket][j] = Connect
        BY <2>6, <2>9, <2>10, <3>3 DEF ConnectInv, Owed, OvertookConnect
      <4>2. On(socket, m) \in early
        BY <1>m, <2>2, <2>6, <2>10, <4>1
      <4> QED
        BY <2>3, <4>2
    <3> QED
      BY <3>2, <3>3
  <2>11. CASE ~(UnderWay(now, m) /\ s = now /\ m = h)
    BY <1>b, <2>2, <2>3, <2>5, <2>6, <2>7, <2>8, <2>9, <2>11
  <2> QED
    BY <2>10, <2>11
<1>13. CASE UNCHANGED vars
  BY <1>13, <1>a DEF vars
<1> QED
  BY <1>1, <1>2, <1>3, <1>4, <1>5, <1>6, <1>7, <1>8, <1>9, <1>10, <1>11, <1>12, <1>13
     DEF Next, Settles

\* Mail goes from the socket to decryption to the page.
LEMMA MailKept ==
    ASSUME TypeOK, SocketInv, MailIsShown, [Next]_vars
    PROVE  MailIsShown'
<1> USE DEF machineVars, workflowVars, dispatchVars, histories, serverVars, mailVars
<1> DEFINE Escapes(i) == IdLength + 5 * mailed[i].markup + 3 * mailed[i].separator <= 256
           Kept(i) == \/ i \in decrypting
                      \/ \E k \in DOMAIN toClient : toClient[k] = i
                      \/ \E k \in DOMAIN shown : shown[k] = i
<1>o. open => \A i \in DOMAIN mailed : Escapes(i) => Kept(i)
  BY DEF MailIsShown, FewEscapes
<1>n. (open' => \A i \in DOMAIN mailed' : Escapes(i)' => Kept(i)') => MailIsShown'
  BY DEF MailIsShown, FewEscapes
<1>a. UNCHANGED <<open, mailed, toClient, decrypting, shown>> => MailIsShown'
  BY <1>o, <1>n
<1>b. ~open' => MailIsShown'
  BY <1>n
<1>c. NewSocket => MailIsShown'
  <2>1. NewSocket => DOMAIN mailed' = {}
    BY EmptySeq DEF NewSocket
  <2> QED
    BY <1>n, <2>1
<1>1. CASE OnOpen
  BY <1>1, <1>a DEF OnOpen
<1>2. CASE OnSuccess
  BY <1>2, <1>a DEF OnSuccess
<1>3. CASE OnFailure
  BY <1>3, <1>c DEF OnFailure
<1>4. CASE Close
  BY <1>4, <1>b DEF Close
<1>5. CASE OnDisconnect
  BY <1>5, <1>b DEF OnDisconnect
<1>6. CASE OnTimeout
  BY <1>6, <1>c DEF OnTimeout
<1>7. CASE OnMessage
  <2>1. toClient \in Seq(1..MaxMail) /\ toClient # <<>>
    BY <1>7 DEF OnMessage, TypeOK
  <2>2. /\ Len(toClient) \in Nat \ {0} /\ DOMAIN toClient = 1..Len(toClient)
        /\ Head(toClient) = toClient[1]
        /\ DOMAIN Tail(toClient) = 1..(Len(toClient) - 1)
        /\ \A k \in 1..(Len(toClient) - 1) : Tail(toClient)[k] = toClient[k + 1]
    BY <2>1, TailOf
  <2>3. /\ toClient' = Tail(toClient) /\ decrypting' = decrypting \cup {Head(toClient)}
        /\ UNCHANGED <<open, mailed, shown>>
    BY <1>7 DEF OnMessage
  <2>4. ASSUME NEW k \in DOMAIN toClient
        PROVE  \/ toClient[k] \in decrypting'
               \/ \E l \in DOMAIN toClient' : toClient'[l] = toClient[k]
    <3>1. CASE k = 1
      BY <2>2, <2>3, <3>1
    <3>2. CASE k # 1
      <4>1. k - 1 \in 1..(Len(toClient) - 1) /\ (k - 1) + 1 = k
        BY <2>2, <3>2
      <4> QED
        BY <2>2, <2>3, <4>1
    <3> QED
      BY <3>1, <3>2
  <2>5. ASSUME NEW i, Kept(i)
        PROVE  Kept(i)'
    BY <2>3, <2>4, <2>5
  <2> HIDE DEF Kept
  <2> QED
    BY <1>o, <1>n, <2>3, <2>5
<1>8. ASSUME NEW promise \in encrypting, Encrypted(promise)
      PROVE  MailIsShown'
  BY <1>8, <1>a DEF Encrypted
<1>9. ASSUME NEW mail \in decrypting, Decrypted(mail)
      PROVE  MailIsShown'
  <2>1. SUFFICES ASSUME open'
                 PROVE  MailIsShown'
    BY <1>b
  <2>2. /\ decrypting' = decrypting \ {mail} /\ shown' = Append(shown, mail)
        /\ UNCHANGED <<open, mailed, toClient>>
    BY <1>9, <2>1, BytesArrive DEF Decrypted, SocketInv
  <2>3. /\ Len(shown) \in Nat /\ DOMAIN shown = 1..Len(shown)
        /\ DOMAIN shown' = 1..(Len(shown) + 1) /\ shown'[Len(shown) + 1] = mail
        /\ \A k \in 1..Len(shown) : shown'[k] = shown[k]
    <3>1. shown \in Seq(1..MaxMail) /\ mail \in 1..MaxMail
      BY DEF TypeOK
    <3> QED
      BY <2>2, <3>1, AppendTo
  <2>4. Len(shown) + 1 \in DOMAIN shown' /\ DOMAIN shown \subseteq DOMAIN shown'
    BY <2>3
  <2>5. ASSUME NEW i, Kept(i)
        PROVE  Kept(i)'
    <3>1. CASE i = mail
      BY <2>3, <2>4, <3>1
    <3>2. CASE i # mail
      BY <2>2, <2>3, <2>4, <2>5, <3>2
    <3> QED
      BY <3>1, <3>2
  <2> HIDE DEF Kept
  <2> QED
    BY <1>o, <1>n, <2>2, <2>5
<1>10. ASSUME NEW text \in PageTexts, Dispatch(text)
       PROVE  MailIsShown'
  BY <1>10, <1>a DEF Dispatch
<1>11. ASSUME NEW text \in MailTexts, MailArrives(text)
       PROVE  MailIsShown'
  <2>1. /\ UNCHANGED <<open, decrypting, shown>> /\ FitsServerKey(text, IdLength)
        /\ mailed' = Append(mailed, text)
        /\ toClient' = IF open /\ FitsClientKey(text, IdLength)
                          THEN Append(toClient, Len(mailed')) ELSE toClient
    BY <1>11 DEF MailArrives
  <2>2. /\ Len(mailed) \in Nat /\ DOMAIN mailed = 1..Len(mailed)
        /\ Len(mailed') = Len(mailed) + 1 /\ DOMAIN mailed' = 1..(Len(mailed) + 1)
        /\ mailed'[Len(mailed) + 1] = text
        /\ \A i \in 1..Len(mailed) : mailed'[i] = mailed[i]
    <3>1. mailed \in Seq(MailTexts)
      BY DEF TypeOK
    <3> QED
      BY <2>1, <3>1, AppendTo
  <2>3. Len(mailed') \in 1..MaxMail
    BY <1>11, <2>2, Bounds DEF MailArrives
  <2>4. /\ Len(toClient) \in Nat /\ DOMAIN toClient = 1..Len(toClient)
        /\ DOMAIN Append(toClient, Len(mailed')) = 1..(Len(toClient) + 1)
        /\ Append(toClient, Len(mailed'))[Len(toClient) + 1] = Len(mailed')
        /\ \A k \in 1..Len(toClient) : Append(toClient, Len(mailed'))[k] = toClient[k]
    <3>1. toClient \in Seq(1..MaxMail)
      BY DEF TypeOK
    <3> QED
      BY <2>3, <3>1, AppendTo
  <2>5. ASSUME NEW k \in DOMAIN toClient
        PROVE  k \in DOMAIN toClient' /\ toClient'[k] = toClient[k]
    BY <2>1, <2>4
  <2>6. ASSUME NEW i, Kept(i)
        PROVE  Kept(i)'
    BY <2>1, <2>5, <2>6
  <2>7. ASSUME open', IdLength + 5 * text.markup + 3 * text.separator <= 256
        PROVE  \E k \in DOMAIN toClient' : toClient'[k] = Len(mailed')
    <3>1. text \in Texts /\ IdLength \in Nat \ {0} /\ IdLength \in Nat
      BY ConnectionAssumption
    <3>2. FitsClientKey(text, IdLength)
      BY <2>1, <2>7, <3>1, FewEscapesFit
    <3>3. toClient' = Append(toClient, Len(mailed'))
      BY <2>1, <2>7, <3>2
    <3>4. Len(toClient) + 1 \in DOMAIN toClient'
      BY <2>4, <3>3
    <3> QED
      BY <2>4, <3>3, <3>4
  <2>8. ASSUME open', NEW i \in DOMAIN mailed', Escapes(i)'
        PROVE  Kept(i)'
    <3>1. CASE i = Len(mailed')
      BY <2>2, <2>7, <2>8, <3>1
    <3>2. CASE i # Len(mailed')
      <4>1. i \in DOMAIN mailed /\ mailed'[i] = mailed[i]
        BY <2>2, <2>8, <3>2
      <4>2. Escapes(i)
        BY <2>8, <4>1
      <4>3. Kept(i)
        BY <1>o, <2>1, <2>8, <4>1, <4>2
      <4> QED
        BY <2>6, <4>3
    <3> QED
      BY <3>1, <3>2
  <2> HIDE DEF Kept, Escapes
  <2> QED
    BY <1>n, <2>8
<1>12. ASSUME NEW s \in Sockets, Take(s)
       PROVE  MailIsShown'
  BY <1>12, <1>a DEF Take
<1>13. CASE UNCHANGED vars
  BY <1>13, <1>a DEF vars
<1> QED
  BY <1>1, <1>2, <1>3, <1>4, <1>5, <1>6, <1>7, <1>8, <1>9, <1>10, <1>11, <1>12, <1>13
     DEF Next, Settles

\* A connection becomes known to be broken in the step that sets its timeout,
\* and the step in which that fires leaves CONNECTED.
LEMMA TimeoutKept ==
    ASSUME OneTimeoutIfBroken, [Next]_vars
    PROVE  OneTimeoutIfBroken'
<1> USE DEF OneTimeoutIfBroken
<1>a. UNCHANGED machineVars => OneTimeoutIfBroken'
  BY DEF machineVars, workflowVars
<1>b. NewSocket => connectionState' = "pending" /\ result' = "none"
  BY DEF NewSocket
<1>1. CASE OnOpen
  BY <1>1 DEF OnOpen, Open
<1>2. CASE OnSuccess
  BY <1>2 DEF OnSuccess, Succeed
<1>3. CASE OnFailure
  BY <1>3, <1>b DEF OnFailure
<1>4. CASE Close
  BY <1>4, <1>a DEF Close
<1>5. CASE OnDisconnect
  BY <1>5 DEF OnDisconnect, Disconnect
<1>6. CASE OnTimeout
  BY <1>6, <1>b DEF OnTimeout
<1>7. CASE OnMessage
  BY <1>7, <1>a DEF OnMessage
<1>8. ASSUME NEW promise \in encrypting, Encrypted(promise)
      PROVE  OneTimeoutIfBroken'
  BY <1>8, <1>a DEF Encrypted
<1>9. ASSUME NEW mail \in decrypting, Decrypted(mail)
      PROVE  OneTimeoutIfBroken'
  BY <1>9, <1>a DEF Decrypted
<1>10. ASSUME NEW text \in PageTexts, Dispatch(text)
       PROVE  OneTimeoutIfBroken'
  BY <1>10, <1>a DEF Dispatch
<1>11. ASSUME NEW text \in MailTexts, MailArrives(text)
       PROVE  OneTimeoutIfBroken'
  BY <1>11, <1>a DEF MailArrives
<1>12. ASSUME NEW s \in Sockets, Take(s)
       PROVE  OneTimeoutIfBroken'
  BY <1>12, <1>a DEF Take
<1>13. CASE UNCHANGED vars
  BY <1>13, <1>a DEF vars
<1> QED
  BY <1>1, <1>2, <1>3, <1>4, <1>5, <1>6, <1>7, <1>8, <1>9, <1>10, <1>11, <1>12, <1>13
     DEF Next, Settles

-----------------------------------------------------------------------------
(* The invariant. *)

\* What ClientInv adds to this follows from it.
Core ==
    /\ TypeOK /\ SocketInv /\ OncePerSocket /\ NothingOlder /\ ConnectInv
    /\ OneTimeoutIfBroken /\ GetsThrough /\ MailIsShown

LEMMA ClientInitially == Init => Core
<1> SUFFICES ASSUME Init
             PROVE  Core
    OBVIOUS
<1> USE DEF Init, WorkflowInit
<1>1. /\ MaxSockets \in Nat \ {0} /\ MaxMessages \in Nat /\ Connect \notin Nat
      /\ 1 \in Sockets /\ 0 \in 0..MaxMessages
  BY ConnectionAssumption DEF Sockets
<1>2. /\ \A s \in Sockets : toServer[s] = <<>> /\ server[s] = "exchanging" /\ replay[s] = 0
      /\ \A s \in Sockets : DOMAIN toServer[s] = {}
      /\ DOMAIN forwarded = {} /\ DOMAIN mailed = {} /\ DOMAIN dispatched = {}
      /\ Len(dispatched) = 0
  OBVIOUS
<1>3. TypeOK
  <2>1. /\ dispatched \in Seq(PageTexts)
        /\ sent \in Seq([connection: Sockets, message: 0..MaxMessages])
        /\ forwarded \in Seq([connection: Sockets, message: 1..MaxMessages])
        /\ mailed \in Seq(MailTexts) /\ toClient \in Seq(1..MaxMail) /\ shown \in Seq(1..MaxMail)
    OBVIOUS
  <2>2. toServer \in [Sockets -> Seq(Messages)]
    OBVIOUS
  <2> QED
    BY <1>1, <1>2, <2>1, <2>2 DEF TypeOK
<1>4. SocketInv
  BY <1>1, <1>2 DEF SocketInv
<1>5. \A s, m : s \in Sockets => ~UnderWay(s, m) /\ ~Forwarded(s, m)
  BY <1>2 DEF UnderWay, Forwarded
<1>6. OncePerSocket
  BY <1>2, <1>5 DEF OncePerSocket
<1>7. NothingOlder
  BY <1>2, <1>5 DEF NothingOlder, Carries
<1>8. ConnectInv /\ OneTimeoutIfBroken /\ GetsThrough /\ MailIsShown
  BY <1>2 DEF ConnectInv, OneTimeoutIfBroken, GetsThrough, Owed, MailIsShown
<1> QED
  BY <1>3, <1>4, <1>6, <1>7, <1>8 DEF Core

LEMMA ClientStep == Core /\ [Next]_vars => Core'
<1> SUFFICES ASSUME Core, [Next]_vars
             PROVE  Core'
    OBVIOUS
<1>1. TypeOK'
  BY TypeKept DEF Core
<1>2. SocketInv'
  BY SocketKept DEF Core
<1>3. OncePerSocket'
  BY OnceKept DEF Core
<1>4. NothingOlder'
  BY OlderKept DEF Core
<1>5. ConnectInv'
  BY ConnectKept DEF Core
<1>6. OneTimeoutIfBroken'
  BY TimeoutKept DEF Core
<1>7. GetsThrough'
  BY GetsThroughKept DEF Core
<1>8. MailIsShown'
  BY MailKept DEF Core
<1> QED
  BY <1>1, <1>2, <1>3, <1>4, <1>5, <1>6, <1>7, <1>8 DEF Core

LEMMA CoreIsInvariant == Spec => []Core
BY ClientInitially, ClientStep, PTL DEF Spec

LEMMA CoreImplies == Core => ClientInv
BY OnlyTheReplayedTwice DEF Core, ClientInv

(***************************************************************************)
(* The inductive invariant holds, for any number of sockets, messages and  *)
(* mails, and for any texts.                                               *)
(***************************************************************************)
THEOREM ClientInvariant == Spec => []ClientInv
BY CoreIsInvariant, CoreImplies, PTL

(***************************************************************************)
(* The variables have their types: in particular no more than one timeout  *)
(* is ever set, and what is under way has been dispatched.                 *)
(***************************************************************************)
THEOREM TypesAreKept == Spec => []TypeOK
<1>1. ClientInv => TypeOK
  BY DEF ClientInv
<1> QED
  BY <1>1, ClientInvariant, PTL

(***************************************************************************)
(* A message reaches the exchange twice only as what its second socket     *)
(* began with, although the server recognises none and a reconnection may  *)
(* come at any point (connection.ts:130).                                  *)
(***************************************************************************)
THEOREM OnlyTheLatestIsForwardedAgain == Spec => []ForwardedAgainIfReplayed
<1>1. ClientInv => ForwardedAgainIfReplayed
  BY DEF ClientInv
<1> QED
  BY <1>1, ClientInvariant, PTL

(***************************************************************************)
(* A broken connection has one timeout to replace it, any other none,      *)
(* however many sockets, messages and events there are.                    *)
(***************************************************************************)
THEOREM BrokenConnectionIsReplacedOnce == Spec => []OneTimeoutIfBroken
<1>1. ClientInv => OneTimeoutIfBroken
  BY DEF ClientInv
<1> QED
  BY <1>1, ClientInvariant, PTL

(***************************************************************************)
(* While the connection is up, what it owes is lost only to a key that is  *)
(* too short, a dispatcher that is stuck, or an encryption quicker than    *)
(* that of connect: whatever order promises settle in (workflow.ts:259).   *)
(***************************************************************************)
THEOREM OwedMessagesGetThrough == Spec => []GetsThrough
<1>1. ClientInv => GetsThrough
  BY DEF ClientInv
<1> QED
  BY <1>1, ClientInvariant, PTL

(***************************************************************************)
(* Mail that another browser could send, of few escapes, is not lost on    *)
(* the way from the mailbox to the page of a connected browser: whatever   *)
(* text, id length and bytes its ciphertext has.                           *)
(***************************************************************************)
THEOREM MailReachesThePage == Spec => []MailIsShown
<1>1. ClientInv => MailIsShown
  BY DEF ClientInv
<1> QED
  BY <1>1, ClientInvariant, PTL

-----------------------------------------------------------------------------
(* The browser implements Outgoing. *)

LEMMA LargestOf ==
    ASSUME NEW S \in SUBSET Nat, NEW a \in S, \A s \in S : s <= a
    PROVE  Max(S) = a
<1>1. \A x \in S : x \in Nat
  OBVIOUS
<1>2. \A y \in S : a >= y
  BY <1>1
<1>3. Max(S) \in S /\ \A y \in S : Max(S) >= y
  BY <1>2, Zenon DEF Max
<1>4. PICK max : max = Max(S)
  OBVIOUS
<1>5. max \in Nat /\ a \in Nat /\ a >= max /\ max >= a
  BY <1>1, <1>2, <1>3, <1>4
<1> QED
  BY <1>4, <1>5

\* If the workflow succeeded, the current socket is the last to have connected.
LEMMA Newest ==
    ASSUME TypeOK, SocketInv
    PROVE  /\ LastConnection \in Nat /\ LastConnection <= socket
           /\ result = "success" => LastConnection = socket /\ Replayed = replay[socket]
           /\ result # "success" => LastConnection < socket /\ encrypting = {} /\ Waiting = {}
<1>1. socket \in Nat /\ socket > 0 /\ subscribed \subseteq 1..socket
  BY Bounds DEF SocketInv, Sockets
<1>2. CASE subscribed = {}
  BY <1>1, <1>2 DEF LastConnection, SocketInv, Waiting, Up
<1>3. CASE subscribed # {}
  <2>1. PICK last \in subscribed : \A s \in subscribed : s <= last
    BY <1>3 DEF SocketInv
  <2>2. Max(subscribed) = last
    <3>1. subscribed \in SUBSET Nat
      BY <1>1
    <3> QED
      BY <2>1, <3>1, LargestOf
  <2>3. LastConnection = last
    BY <1>3, <2>2 DEF LastConnection
  <2>4. socket \in subscribed => last = socket
    BY <1>1, <2>1
  <2> QED
    BY <1>1, <1>3, <2>1, <2>3, <2>4 DEF SocketInv, Waiting, Up, Replayed
<1> QED
  BY <1>2, <1>3

LEMMA PromisedStarts == Init => Promised!OutgoingInit
<1> SUFFICES ASSUME Init
             PROVE  Promised!OutgoingInit
    OBVIOUS
<1>1. Waiting = {} /\ ~Up
  BY DEF Init, WorkflowInit, Waiting, Up
<1> QED
  BY <1>1 DEF Promised!OutgoingInit, Init, LastConnection, Replayed

\* What Outgoing does not see.
LEMMA PromisedStutters ==
    ASSUME UNCHANGED <<dispatched, subscribed, replay, sent>>, Up' <=> Up, Waiting' = Waiting
    PROVE  UNCHANGED Promised!outgoingVars
BY DEF Promised!outgoingVars, LastConnection, Replayed, Up

LEMMA OnSuccessEstablishes ==
    ASSUME TypeOK, SocketInv, SocketInv', TypeOK', OnSuccess
    PROVE  Promised!Establish
<1>1. /\ result # "success" /\ result' = "success" /\ UNCHANGED <<socket, open, dispatched, sent>>
      /\ replay' = [replay EXCEPT ![socket] = Len(dispatched)]
      /\ encrypting' = encrypting \cup {On(socket, Connect), On(socket, Len(dispatched))}
  BY DEF OnSuccess, Succeed, machineVars, workflowVars, histories
<1>2. LastConnection \in Nat /\ LastConnection < socket /\ encrypting = {} /\ Waiting = {} /\ ~Up
  BY <1>1, Newest DEF Up
<1>3. LastConnection' = socket /\ Replayed' = Len(dispatched)
  <2>1. subscribed' # {} /\ \A s \in subscribed' : s <= socket
    BY <1>1, Bounds DEF SocketInv
  <2>2. socket \in subscribed' /\ socket \in Nat /\ subscribed' \subseteq Nat
    BY <1>1, Bounds DEF SocketInv
  <2>3. LastConnection' = Max(subscribed')
    BY <2>1 DEF LastConnection
  <2>4. Max(subscribed') = socket
    <3>1. subscribed' \in SUBSET Nat
      BY <2>2
    <3> QED
      BY <2>1, <2>2, <3>1, LargestOf
  <2>5. replay'[socket] = Len(dispatched)
    BY <1>1 DEF TypeOK
  <2> QED
    BY <2>1, <2>3, <2>4, <2>5 DEF Replayed
<1>4. Up' <=> open
  BY <1>1 DEF Up
<1>5. Waiting' = IF Up' THEN {Len(dispatched)} ELSE {}
  <2>1. Connect \notin Nat /\ MaxMessages \in Nat /\ Len(dispatched) \in 0..MaxMessages
    BY Bounds
  <2>2. \A m \in 0..MaxMessages : On(socket, m) \in encrypting' <=> m = Len(dispatched)
    BY <1>1, <1>2, <2>1, SameMessage
  <2> QED
    BY <1>1, <2>1, <2>2 DEF Waiting, On
<1>6. socket \in Nat /\ Up' \in BOOLEAN
  BY Bounds DEF Up
<1> QED
  BY <1>1, <1>2, <1>3, <1>5, <1>6 DEF Promised!Establish

LEMMA CloseDisconnects ==
    ASSUME TypeOK, SocketInv, Close
    PROVE  Promised!Disconnect \/ UNCHANGED Promised!outgoingVars
<1>1. UNCHANGED <<dispatched, subscribed, replay, sent>> /\ ~open'
  BY DEF Close, dispatchVars, histories
<1>2. ~Up' /\ Waiting' = {}
  BY <1>1 DEF Up, Waiting
<1>3. CASE Up
  BY <1>1, <1>2, <1>3 DEF Promised!Disconnect, LastConnection, Replayed
<1>4. CASE ~Up
  <2>1. Waiting = {}
    BY <1>4 DEF Waiting
  <2> QED
    BY <1>1, <1>2, <1>4, <2>1, PromisedStutters
<1> QED
  BY <1>3, <1>4

LEMMA DispatchDispatches ==
    ASSUME TypeOK, SocketInv, NEW text \in PageTexts, Dispatch(text)
    PROVE  Promised!Dispatch
<1>1. /\ UNCHANGED <<result, open, socket, subscribed, replay, sent>>
      /\ dispatched' = Append(dispatched, text) /\ Len(dispatched) < MaxMessages
      /\ encrypting' = IF socket \in subscribed
                         THEN encrypting \cup {On(socket, Len(dispatched'))} ELSE encrypting
  BY DEF Dispatch, machineVars, workflowVars, dispatchVars, histories
<1>2. Len(dispatched') = Len(dispatched) + 1
  BY <1>1, AppendTo DEF TypeOK
<1>3. Up' <=> Up
  BY <1>1 DEF Up
<1>4. Waiting' = IF Up THEN Waiting \cup {Len(dispatched')} ELSE Waiting
  <2>1. CASE Up
    <3>1. socket \in subscribed
      BY <2>1 DEF Up, SocketInv
    <3>2. \A m \in 0..MaxMessages :
             On(socket, m) \in encrypting' <=> On(socket, m) \in encrypting \/ m = Len(dispatched')
      BY <1>1, <3>1, SameMessage
    <3>3. Len(dispatched') \in 0..MaxMessages
      BY <1>1, <1>2, Bounds
    <3> QED
      BY <1>1, <1>3, <2>1, <3>2, <3>3 DEF Waiting, On
  <2>2. CASE ~Up
    BY <1>3, <2>2 DEF Waiting
  <2> QED
    BY <2>1, <2>2
<1>5. LastConnection' = LastConnection /\ Replayed' = Replayed
  BY <1>1 DEF LastConnection, Replayed
<1> QED
  BY <1>1, <1>2, <1>3, <1>4, <1>5 DEF Promised!Dispatch, Up

LEMMA EncryptedTransmits ==
    ASSUME TypeOK, SocketInv, NEW promise \in encrypting, Encrypted(promise)
    PROVE  \/ \E m \in Waiting : Promised!Transmit(m) \/ Promised!Lose(m)
           \/ UNCHANGED Promised!outgoingVars
<1>1. /\ UNCHANGED <<result, open, socket, dispatched, subscribed, replay>>
      /\ encrypting' = encrypting \ {promise}
      /\ \/ open /\ Record(promise)
         \/ UNCHANGED sent
  BY DEF Encrypted, machineVars, workflowVars, histories
<1>2. /\ promise = On(socket, promise.message) /\ promise.message \in Messages
      /\ socket \in subscribed
  BY Promises DEF SocketInv
<1>3. result = "success" /\ LastConnection = socket
  BY <1>2, Newest DEF SocketInv
<1>4. Up' <=> Up
  BY <1>1 DEF Up
<1>5. LastConnection' = LastConnection /\ Replayed' = Replayed
  BY <1>1 DEF LastConnection, Replayed
<1>6. Waiting' = Waiting \ {promise.message}
  <2>1. \A m \in 0..MaxMessages :
           On(socket, m) \in encrypting' <=> On(socket, m) \in encrypting /\ m # promise.message
    BY <1>1, <1>2, SameMessage
  <2> QED
    BY <1>1, <1>4, <2>1 DEF Waiting, On
<1>7. CASE promise.message \notin Waiting
  <2>1. UNCHANGED sent
    <3>1. CASE open
      <4>1. promise.message \notin 0..MaxMessages
        BY <1>2, <1>3, <1>7, <3>1 DEF Waiting, Up
      <4>2. promise.message = Connect
        BY <1>2, <4>1 DEF Messages
      <4> QED
        BY <1>1, <4>2 DEF Record, histories
    <3> QED
      BY <1>1, <3>1
  <2>2. Waiting' = Waiting
    BY <1>6, <1>7
  <2> QED
    BY <1>1, <1>4, <2>1, <2>2, PromisedStutters
<1>8. CASE promise.message \in Waiting
  <2>1. promise.message # Connect
    BY <1>8, Bounds DEF Waiting
  <2>2. sent' = Append(sent, [connection |-> LastConnection, message |-> promise.message])
          \/ UNCHANGED sent
    BY <1>1, <1>2, <1>3, <2>1 DEF Record, On
  <2>3. Promised!Transmit(promise.message) \/ Promised!Lose(promise.message)
    BY <1>1, <1>4, <1>5, <1>6, <1>8, <2>2 DEF Promised!Transmit, Promised!Lose, Up
  <2> QED
    BY <1>8, <2>3
<1> QED
  BY <1>7, <1>8

LEMMA PromisedStep ==
    Core /\ Core' /\ [Next]_vars => [Promised!OutgoingNext]_(Promised!outgoingVars)
<1> SUFFICES ASSUME Core, Core', [Next]_vars
             PROVE  Promised!OutgoingNext \/ UNCHANGED Promised!outgoingVars
    OBVIOUS
<1> USE DEF machineVars, workflowVars, dispatchVars, histories
<1>a. TypeOK /\ SocketInv /\ TypeOK' /\ SocketInv' /\ OneTimeoutIfBroken
  BY DEF Core
<1>b. UNCHANGED <<result, open, socket, dispatched, subscribed, replay, encrypting, sent>>
        => UNCHANGED Promised!outgoingVars
  <2> SUFFICES ASSUME UNCHANGED <<result, open, socket, dispatched, subscribed, replay,
                                  encrypting, sent>>
               PROVE  UNCHANGED Promised!outgoingVars
      OBVIOUS
  <2>1. (Up' <=> Up) /\ Waiting' = Waiting
    BY DEF Up, Waiting, On
  <2> QED
    BY <2>1, PromisedStutters
<1>c. ~Up /\ NewSocket => UNCHANGED Promised!outgoingVars
  <2> SUFFICES ASSUME ~Up, NewSocket
               PROVE  UNCHANGED Promised!outgoingVars
      OBVIOUS
  <2>1. UNCHANGED <<dispatched, subscribed, replay, sent>> /\ ~Up'
    BY DEF NewSocket, Up
  <2>2. Waiting = {} /\ Waiting' = {}
    BY <2>1 DEF Waiting
  <2> QED
    BY <2>1, <2>2, PromisedStutters
<1>1. CASE OnOpen
  BY <1>1, <1>b DEF OnOpen, Open
<1>2. CASE OnSuccess
  BY <1>2, <1>a, OnSuccessEstablishes DEF Promised!OutgoingNext
<1>3. CASE OnFailure
  BY <1>3, <1>c DEF OnFailure, Up
<1>4. CASE Close
  BY <1>4, <1>a, CloseDisconnects DEF Promised!OutgoingNext
<1>5. CASE OnDisconnect
  BY <1>5, <1>b DEF OnDisconnect, Disconnect
<1>6. CASE OnTimeout
  <2>1. ~open
    BY <1>6, <1>a DEF OnTimeout, OneTimeoutIfBroken, SocketInv, TypeOK
  <2> QED
    BY <1>6, <1>c, <2>1 DEF OnTimeout, Up
<1>7. CASE OnMessage
  BY <1>7, <1>b DEF OnMessage
<1>8. ASSUME NEW promise \in encrypting, Encrypted(promise)
      PROVE  Promised!OutgoingNext \/ UNCHANGED Promised!outgoingVars
  BY <1>8, <1>a, EncryptedTransmits DEF Promised!OutgoingNext
<1>9. ASSUME NEW mail \in decrypting, Decrypted(mail)
      PROVE  Promised!OutgoingNext \/ UNCHANGED Promised!outgoingVars
  BY <1>9, <1>b DEF Decrypted
<1>10. ASSUME NEW text \in PageTexts, Dispatch(text)
       PROVE  Promised!OutgoingNext \/ UNCHANGED Promised!outgoingVars
  BY <1>10, <1>a, DispatchDispatches DEF Promised!OutgoingNext
<1>11. ASSUME NEW text \in MailTexts, MailArrives(text)
       PROVE  Promised!OutgoingNext \/ UNCHANGED Promised!outgoingVars
  BY <1>11, <1>b DEF MailArrives
<1>12. ASSUME NEW s \in Sockets, Take(s)
       PROVE  Promised!OutgoingNext \/ UNCHANGED Promised!outgoingVars
  BY <1>12, <1>b DEF Take
<1>13. CASE UNCHANGED vars
  BY <1>13, <1>b DEF vars
<1> QED
  BY <1>1, <1>2, <1>3, <1>4, <1>5, <1>6, <1>7, <1>8, <1>9, <1>10, <1>11, <1>12, <1>13
     DEF Next, Settles

(***************************************************************************)
(* The browser's connection over all its sockets implements Outgoing.      *)
(***************************************************************************)
THEOREM ClientImplementsOutgoing == Spec => ImplementsOutgoing
<1>1. Spec => Promised!OutgoingInit
  BY PromisedStarts DEF Spec
<1>2. Spec => [][Promised!OutgoingNext]_(Promised!outgoingVars)
  BY CoreIsInvariant, PromisedStep, PTL DEF Spec
<1> QED
  BY <1>1, <1>2 DEF ImplementsOutgoing, Promised!OutgoingSpec

\* The same abstraction, with the theorems about it.
OfPromised == INSTANCE OutgoingProofs WITH
    latest <- Len(dispatched), connection <- LastConnection, up <- Up,
    replayed <- Replayed, waiting <- Waiting, sent <- sent

(***************************************************************************)
(* Hence no message of the page is sent twice on one connection, however   *)
(* often it is replayed, and no later connection sends anything older.     *)
(***************************************************************************)
THEOREM PageMessagesSentInTurn == Spec => [](Promised!SentOnce /\ Promised!NothingOlderLater)
<1>1. Promised!OutgoingInit => OfPromised!OutgoingInit
  BY DEF Promised!OutgoingInit, OfPromised!OutgoingInit
<1>2. [Promised!OutgoingNext]_(Promised!outgoingVars)
        => [OfPromised!OutgoingNext]_(OfPromised!outgoingVars)
  BY DEF Promised!outgoingVars, OfPromised!outgoingVars,
         Promised!OutgoingNext, Promised!Dispatch, Promised!Establish, Promised!Disconnect,
         Promised!Transmit, Promised!Lose,
         OfPromised!OutgoingNext, OfPromised!Dispatch, OfPromised!Establish,
         OfPromised!Disconnect, OfPromised!Transmit, OfPromised!Lose
<1>3. OfPromised!SentOnce /\ OfPromised!NothingOlderLater
        => Promised!SentOnce /\ Promised!NothingOlderLater
  BY DEF OfPromised!SentOnce, Promised!SentOnce,
         OfPromised!NothingOlderLater, Promised!NothingOlderLater
<1> QED
  BY <1>1, <1>2, <1>3, ClientImplementsOutgoing, OfPromised!OutgoingSentOnce,
     OfPromised!OutgoingNothingOlder, PTL
     DEF ImplementsOutgoing, Promised!OutgoingSpec, OfPromised!OutgoingSpec

-----------------------------------------------------------------------------
(* What the liveness properties need of every state. *)

\* Nothing is under way between the page and a server whose dispatcher runs:
\* where Drains leads, again and again.
Quiet ==
    /\ encrypting = {} /\ decrypting = {} /\ toClient = <<>>
    /\ toServer[socket] = <<>> /\ socket \notin wedged

Arrived ==
    /\ \A m \in 1..MaxMessages :
          Owed(m) /\ Encryptable(m) => Forwarded(socket, m) \/ OvertookConnect(m)
    /\ \A i \in DOMAIN mailed :
          FewEscapes(mailed[i]) => \E k \in DOMAIN shown : shown[k] = i

(***************************************************************************)
(* For any texts and bounds: whenever an open socket is quiet, all the     *)
(* messages its connection owes have gone to the exchange, but for those   *)
(* whose encryption was quicker than connect's, and all mail that few      *)
(* escapes were added to has been shown.                                   *)
(***************************************************************************)
THEOREM AllArrivedWhenQuiet == Spec => [](open /\ Quiet => Arrived)
<1>1. ASSUME GetsThrough, MailIsShown, open, Quiet PROVE Arrived
  <2>1. ASSUME NEW m \in 1..MaxMessages, Owed(m), Encryptable(m)
        PROVE  Forwarded(socket, m) \/ OvertookConnect(m)
    <3>1. ~UnderWay(socket, m) /\ On(socket, m) \notin encrypting
      BY <1>1 DEF Quiet, UnderWay
    <3> QED
      BY <1>1, <2>1, <3>1 DEF GetsThrough, Quiet
  <2>2. ASSUME NEW i \in DOMAIN mailed, FewEscapes(mailed[i])
        PROVE  \E k \in DOMAIN shown : shown[k] = i
    <3>1. ~(\E k \in DOMAIN toClient : toClient[k] = i) /\ i \notin decrypting
      BY <1>1 DEF Quiet
    <3> QED
      BY <1>1, <2>2, <3>1 DEF MailIsShown
  <2> QED
    BY <2>1, <2>2 DEF Arrived
<1> QED
  BY <1>1, OwedMessagesGetThrough, MailReachesThePage, PTL

\* The guards of OnFailure, OnMessage, OnDisconnect and OnTimeout.
CanReplaceSocket ==
    \/ result = "none" \/ toClient # <<>>
    \/ connectionState # "disconnected" \/ timers > 0

(***************************************************************************)
(* For any number of sockets: a browser without a socket is never left     *)
(* without an event that leads to the next one, be it the failure of the   *)
(* handshake, mail still to be read, the close, or the timeout.  With      *)
(* fairness this is Reconnects.                                            *)
(***************************************************************************)
THEOREM LostSocketIsReplaceable == Spec => [](~open => CanReplaceSocket)
<1>1. OneTimeoutIfBroken /\ TypeOK => (~open => CanReplaceSocket)
  BY DEF OneTimeoutIfBroken, TypeOK, CanReplaceSocket
<1> QED
  BY <1>1, BrokenConnectionIsReplacedOnce, TypesAreKept, PTL
=============================================================================
