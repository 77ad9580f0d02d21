------------------------- MODULE CoordinatorProofs -------------------------
(***************************************************************************)
(* Proofs about Coordinator, for any members, any capacity and any number  *)
(* of requests: CoordinatorInv is inductive, so every command reaches each *)
(* member of a group once and in order, every member's requests are        *)
(* answered in turn, and no group is heard of before its Welcome.          *)
(***************************************************************************)
EXTENDS Coordinator, SequenceTheorems, FiniteSetTheorems, TLAPS

-----------------------------------------------------------------------------
(***************************************************************************)
(* The inductive invariant: a request is itself at every                   *)
(* place it passes through, and every place holds what came after the next *)
(* place's; a callback runs at a time, and sends one answer or one round   *)
(* of notices; who is in a group has, or is about to get, its Welcome.     *)
(***************************************************************************)
OneCallback ==
    /\ \A g \in Groups : IsFiniteSet(members[g])
    /\ \A i \in DOMAIN sending : sending[i].message.kind # "Notice" => DOMAIN sending = {1}
    /\ \A g \in Groups : \A m \in members[g] : since[g][m] <= commands

IsRequest(r) == r.number \in DOMAIN requested /\ requested[r.number] = r

RequestsNumbered ==
    /\ \A n \in DOMAIN requested : requested[n].number = n
    /\ \A i \in DOMAIN inbox : IsRequest(inbox[i])
    /\ \A m \in Members : outgoing[m] # <<>> =>
          IsRequest(outgoing[m][1]) /\ outgoing[m][1].from = m

\* The numbers of m's requests, or of their answers, at each place.
InMail(m) == {Mail(m)[i].number : i \in Answers(m)}
InCallback(m) ==
    {sending[i].message.number :
        i \in {k \in DOMAIN sending : sending[k].to = m /\ sending[k].message.kind # "Notice"}}
InInbox(m) == {inbox[i].number : i \in {k \in DOMAIN inbox : inbox[k].from = m}}
Leaving(m) == {outgoing[m][i].number : i \in DOMAIN outgoing[m]}

RequestsInTurn ==
    \A m \in Members :
        /\ Asked(m) \subseteq InMail(m) \cup InCallback(m) \cup InInbox(m) \cup Leaving(m)
        /\ \A i, j \in DOMAIN inbox :
              i < j /\ inbox[i].from = m /\ inbox[j].from = m => inbox[i].number < inbox[j].number
        /\ \A x \in InMail(m), y \in InCallback(m) : x < y
        /\ \A x \in InMail(m) \cup InCallback(m), y \in InInbox(m) : x < y
        /\ \A x \in InMail(m) \cup InCallback(m) \cup InInbox(m), y \in Leaving(m) : x < y

AnswersAreDue ==
    \A m \in Members : \A i \in DOMAIN sending :
        sending[i].to = m /\ sending[i].message.kind # "Notice" =>
            LET n == sending[i].message.number IN
            n \in Asked(m) /\ IsAnswerTo(sending[i].message, requested[n])

Welcomed(m, g) == \E i \in DOMAIN Mail(m) : IsWelcome(Mail(m)[i], g)
ToBeWelcomed(m, g) ==
    \E i \in DOMAIN sending : sending[i].to = m /\ IsWelcome(sending[i].message, g)

MembersWelcomed ==
    \A m \in Members, g \in Groups :
        /\ m \in members[g] => Welcomed(m, g) \/ ToBeWelcomed(m, g)
        /\ Due(m, g) # {} => Welcomed(m, g)

CoordinatorInv ==
    /\ TypeOK /\ OneCallback
    /\ CommandsReachGroups
    /\ RequestsNumbered /\ RequestsInTurn /\ AnswersAreDue /\ AnswersInOrder
    /\ MembersWelcomed /\ WelcomeComesFirst

-----------------------------------------------------------------------------
(* Sequences. *)

LEMMA AppendFacts ==
  ASSUME NEW S, NEW seq \in Seq(S), NEW e \in S
  PROVE  /\ Append(seq, e) \in Seq(S)
         /\ Len(seq) \in Nat /\ DOMAIN seq = 1..Len(seq)
         /\ Len(seq) + 1 \notin DOMAIN seq
         /\ DOMAIN Append(seq, e) = DOMAIN seq \cup {Len(seq) + 1}
         /\ Append(seq, e)[Len(seq) + 1] = e
         /\ \A i \in DOMAIN seq : Append(seq, e)[i] = seq[i] /\ i < Len(seq) + 1
<1>1. Len(seq) \in Nat /\ DOMAIN seq = 1..Len(seq) /\ Append(seq, e) \in Seq(S)
  BY LenProperties
<1>2. Len(Append(seq, e)) = Len(seq) + 1
  OBVIOUS
<1> QED
  BY <1>1, <1>2

LEMMA TailFacts ==
  ASSUME NEW S, NEW seq \in Seq(S), seq # <<>>
  PROVE  /\ Head(seq) = seq[1] /\ Head(seq) \in S /\ 1 \in DOMAIN seq
         /\ Tail(seq) \in Seq(S) /\ Len(Tail(seq)) <= Len(seq)
         /\ \A i \in DOMAIN Tail(seq) : i + 1 \in DOMAIN seq \ {1} /\ Tail(seq)[i] = seq[i + 1]
         /\ \A i \in DOMAIN seq \ {1} : i - 1 \in DOMAIN Tail(seq) /\ Tail(seq)[i - 1] = seq[i]
         /\ DOMAIN seq \subseteq Nat /\ DOMAIN Tail(seq) \subseteq Nat
         /\ \A i \in DOMAIN seq : 1 <= i
<1>1. /\ Len(seq) \in Nat \ {0} /\ DOMAIN seq = 1..Len(seq)
      /\ Tail(seq) \in Seq(S) /\ Len(Tail(seq)) = Len(seq) - 1
      /\ \A i \in 1..Len(Tail(seq)) : Tail(seq)[i] = seq[i + 1]
  BY HeadTailProperties, EmptySeq, LenProperties
<1>2. DOMAIN Tail(seq) = 1..(Len(seq) - 1) /\ Head(seq) = seq[1] /\ 1 \in DOMAIN seq
      /\ Head(seq) \in S
  BY <1>1, LenProperties, HeadTailProperties
<1>3. \A i \in DOMAIN Tail(seq) : i + 1 \in DOMAIN seq \ {1} /\ Tail(seq)[i] = seq[i + 1]
  BY <1>1, <1>2
<1>4. ASSUME NEW i \in DOMAIN seq \ {1}
      PROVE  i - 1 \in DOMAIN Tail(seq) /\ Tail(seq)[i - 1] = seq[i]
  <2>1. i - 1 \in 1..(Len(seq) - 1) /\ (i - 1) + 1 = i
    BY <1>1
  <2> QED
    BY <1>1, <1>2, <2>1
<1> QED
  BY <1>1, <1>2, <1>3, <1>4

LEMMA ConcatAppend ==
  ASSUME NEW S, NEW s \in Seq(S), NEW r \in Seq(S), NEW e \in S
  PROVE  s \o Append(r, e) = Append(s \o r, e)
<1>1. <<e>> \in Seq(S)
  OBVIOUS
<1>2. Append(r, e) = r \o <<e>> /\ Append(s \o r, e) = (s \o r) \o <<e>>
  BY AppendIsConcat, ConcatProperties
<1> QED
  BY <1>1, <1>2, ConcatAssociative

LEMMA HeadBeforeTail ==
  ASSUME NEW S, NEW s \in Seq(S), s # <<>>
  PROVE  <<Head(s)>> \o Tail(s) = s
<1>1. /\ <<Head(s)>> \in Seq(S) /\ Len(<<Head(s)>>) = 1 /\ <<Head(s)>>[1] = s[1]
      /\ Tail(s) \in Seq(S) /\ Len(Tail(s)) = Len(s) - 1
      /\ \A i \in 1..Len(Tail(s)) : Tail(s)[i] = s[i + 1]
  BY HeadTailProperties
<1>2. Len(s) \in Nat \ {0}
  BY EmptySeq
<1> DEFINE r == <<Head(s)>> \o Tail(s)
<1>3. r \in Seq(S) /\ Len(r) = Len(s)
  BY <1>1, <1>2, ConcatProperties
<1>4. ASSUME NEW i \in 1..Len(r)
      PROVE  r[i] = s[i]
  BY <1>1, <1>2, <1>3, ConcatProperties
<1> HIDE DEF r
<1> QED
  BY <1>3, <1>4, SeqEqual DEF r

-----------------------------------------------------------------------------
(* The types. *)

LEMMA RequestTypes ==
  ASSUME TypeOK, NEW m \in Members, NEW content \in Contents, Request(m, content)
  PROVE  TypeOK'
<1> DEFINE request == [from |-> m, content |-> content, number |-> Len(requested) + 1]
<1>1. request \in Requests
  BY DEF TypeOK, Requests
<1>2. <<request>> \in Seq(Requests) /\ Len(<<request>>) <= 1
  BY <1>1
<1> HIDE DEF request
<1>3. /\ outgoing' = [outgoing EXCEPT ![m] = <<request>>]
      /\ requested' = Append(requested, request)
      /\ UNCHANGED <<subscribed, inbox, members, sending, outbox, writing, stalled,
                     received, commands, since>>
  BY DEF Request, request
<1>4. requested' \in Seq(Requests)
  BY <1>1, <1>3 DEF TypeOK
<1>5. outgoing' \in [Members -> Seq(Requests)] /\ \A n \in Members : Len(outgoing'[n]) <= 1
  BY <1>2, <1>3 DEF TypeOK
<1> QED
  BY <1>3, <1>4, <1>5 DEF TypeOK

LEMMA EnqueueTypes ==
  ASSUME TypeOK, NEW m \in Members, Enqueue(m)
  PROVE  TypeOK'
<1>1. Head(outgoing[m]) \in Requests
  BY TailFacts DEF TypeOK, Enqueue
<1>2. inbox' \in Seq(Requests) /\ Len(inbox') <= Capacity
  BY <1>1, CoordinatorAssumption DEF TypeOK, Enqueue
<1>3. outgoing' \in [Members -> Seq(Requests)] /\ \A n \in Members : Len(outgoing'[n]) <= 1
  BY DEF TypeOK, Enqueue
<1> QED
  BY <1>2, <1>3 DEF TypeOK, Enqueue

LEMMA TakeTypes ==
  ASSUME TypeOK, NEW m \in Members, Take(m)
  PROVE  TypeOK'
<1>1. /\ Head(outbox[m]) \in Messages /\ Tail(outbox[m]) \in Seq(Messages)
      /\ Len(Tail(outbox[m])) \in Nat /\ Len(outbox[m]) \in Nat
      /\ Len(Tail(outbox[m])) <= Len(outbox[m])
  BY TailFacts, LenProperties DEF TypeOK, Take
<1>2. /\ writing' \in [Members -> Seq(Messages)] /\ \A n \in Members : Len(writing'[n]) <= 1
  BY <1>1 DEF TypeOK, Take
<1>3. /\ outbox' \in [Members -> Seq(Messages)] /\ \A n \in Members : Len(outbox'[n]) <= Capacity
  BY <1>1, CoordinatorAssumption DEF TypeOK, Take
<1> QED
  BY <1>2, <1>3 DEF TypeOK, Take

LEMMA WrittenTypes ==
  ASSUME TypeOK, NEW m \in Members, Written(m)
  PROVE  TypeOK'
<1>1. received[m] \o writing[m] \in Seq(Messages)
  BY ConcatProperties DEF TypeOK
<1>2. received' \in [Members -> Seq(Messages)]
  BY <1>1 DEF TypeOK, Written
<1>3. writing' \in [Members -> Seq(Messages)] /\ \A n \in Members : Len(writing'[n]) <= 1
  BY DEF TypeOK, Written
<1> QED
  BY <1>2, <1>3 DEF TypeOK, Written

LEMMA FunctionIsSeq ==
  ASSUME NEW S, NEW k \in Nat, NEW f \in [1..k -> S]
  PROVE  f \in Seq(S)
BY SeqDef, Zenon

\* A round of notices to a group goes to each of its ids, once.
LEMMA AnnouncementsReach ==
  ASSUME TypeOK, NEW g \in {"NOTES", "PRESENT"}, IsFiniteSet(members[g]),
         NEW n \in Nat, NEW round \in Announcements(g, n)
  PROVE  /\ round \in Seq([to: Members, message: Messages])
         /\ \A i \in DOMAIN round : round[i].to \in members[g] /\ round[i].message = Notice(g, n)
         /\ \A i, j \in DOMAIN round : round[i].to = round[j].to => i = j
         /\ \A m \in members[g] : \E i \in DOMAIN round : round[i].to = m
<1> DEFINE D == 1..Cardinality(members[g])
<1>1. PICK ids \in [D -> members[g]] :
        /\ \A i, j \in D : i # j => ids[i] # ids[j]
        /\ round = [i \in DOMAIN ids |-> To(ids[i], Notice(g, n))]
  BY DEF Announcements, SetToSeqs
<1>2. Cardinality(members[g]) \in Nat /\ IsFiniteSet(D) /\ Cardinality(D) = Cardinality(members[g])
  BY FS_CardinalityType, FS_Interval
<1>3. \A m \in members[g] : \E i \in D : ids[i] = m
  <2>1. ids \in Injection(D, members[g])
    BY <1>1 DEF Injection, IsInjective
  <2>2. ids \in Surjection(D, members[g])
    <3>1. IsFiniteSet(members[g])
      OBVIOUS
    <3> QED
      BY <1>2, <2>1, <3>1, FS_Injection
  <2> QED
    BY <2>2 DEF Surjection
<1>4. Notice(g, n) \in Messages
  BY DEF Notice, Messages
<1>5. members[g] \subseteq Members
  BY DEF TypeOK, Groups
<1>6. DOMAIN round = D /\ \A i \in D : round[i] = To(ids[i], Notice(g, n))
  BY <1>1
<1>7. \A i \in D : /\ round[i] \in [to: Members, message: Messages]
                  /\ round[i].to = ids[i] /\ round[i].message = Notice(g, n)
  BY <1>1, <1>4, <1>5, <1>6 DEF To
<1>8. round \in Seq([to: Members, message: Messages])
  <2>1. round \in [1..Cardinality(members[g]) -> [to: Members, message: Messages]]
    BY <1>1, <1>6, <1>7
  <2> QED
    BY <1>2, <2>1, FunctionIsSeq
<1> QED
  BY <1>1, <1>3, <1>6, <1>7, <1>8

\* What the callback does with a request that calls for an answer.
LEMMA HandleAnswers ==
  ASSUME TypeOK, Handle, NEW r, r = Head(inbox), r.content # "other"
  PROVE  /\ r \in Requests /\ r.content \in Groups \cup {"Actions"}
         /\ \E a \in Messages :
               /\ sending' = <<To(r.from, a)>>
               /\ IsAnswerTo(a, r) /\ a.kind # "Notice" /\ a.number = r.number
               /\ r.content \in Groups => IsWelcome(a, r.content)
         /\ commands' = commands
         /\ \A g \in Groups \ {r.content} : members'[g] = members[g] /\ since'[g] = since[g]
         /\ \A g \in Groups : g = r.content =>
               /\ members'[g] = members[g] \cup {r.from}
               /\ \A m \in Members : since'[g][m] = IF m = r.from /\ m \notin members[g]
                                                      THEN commands ELSE since[g][m]
         /\ members' \in [Groups -> SUBSET Members] /\ since' \in [Groups -> [Members -> Nat]]
<1>1. r \in Requests
  BY TailFacts DEF TypeOK, Handle
<1>2. r.content \in Groups \cup {"Actions"} /\ r.from \in Members /\ r.number \in Nat
  BY <1>1 DEF Requests, Contents
<1>3. CASE r.content = "Actions"
  <2>1. sending' = <<To(r.from, Actions(r.number))>> /\ UNCHANGED <<members, commands, since>>
    BY <1>3 DEF Handle, Answer, Groups
  <2>2. /\ Actions(r.number) \in Messages
        /\ IsAnswerTo(Actions(r.number), r)
        /\ Actions(r.number).kind # "Notice" /\ Actions(r.number).number = r.number
    BY <1>2, <1>3 DEF Actions, Messages, IsAnswerTo
  <2>3. r.content \notin Groups
    BY <1>3 DEF Groups
  <2> QED
    BY <1>1, <1>2, <2>1, <2>2, <2>3 DEF TypeOK
<1>4. CASE r.content \in Groups
  <2>1. /\ sending' = <<To(r.from, Welcome(r.content, r.number))>> /\ commands' = commands
        /\ members' = [members EXCEPT ![r.content] = @ \cup {r.from}]
        /\ since' = [since EXCEPT ![r.content][r.from] =
                       IF r.from \in members[r.content] THEN @ ELSE commands]
    BY <1>4 DEF Handle, Answer, Groups, Insert
  <2>2. /\ Welcome(r.content, r.number) \in Messages
        /\ IsAnswerTo(Welcome(r.content, r.number), r)
        /\ Welcome(r.content, r.number).kind # "Notice"
        /\ Welcome(r.content, r.number).number = r.number
        /\ IsWelcome(Welcome(r.content, r.number), r.content)
    <3>1. r.content # "Actions"
      BY <1>4 DEF Groups
    <3> QED
      BY <1>2, <1>4, <3>1 DEF Welcome, Messages, IsAnswerTo, IsWelcome
  <2>3. /\ members' \in [Groups -> SUBSET Members]
        /\ \A g \in Groups \ {r.content} : members'[g] = members[g]
        /\ members'[r.content] = members[r.content] \cup {r.from}
    BY <1>2, <1>4, <2>1 DEF TypeOK
  <2>4. /\ since' \in [Groups -> [Members -> Nat]]
        /\ \A g \in Groups \ {r.content} : since'[g] = since[g]
        /\ \A m \in Members : since'[r.content][m] =
              IF m = r.from /\ m \notin members[r.content] THEN commands ELSE since[r.content][m]
    <3> DEFINE now == IF r.from \in members[r.content] THEN since[r.content][r.from] ELSE commands
               row == [since[r.content] EXCEPT ![r.from] = now]
    <3>1. since \in [Groups -> [Members -> Nat]] /\ commands \in Nat
      BY DEF TypeOK
    <3>2. since[r.content] \in [Members -> Nat] /\ now \in Nat
      BY <1>2, <1>4, <3>1
    <3>3. /\ row \in [Members -> Nat]
          /\ \A m \in Members : row[m] = IF m = r.from THEN now ELSE since[r.content][m]
      BY <1>2, <3>2
    <3>4. since' = [since EXCEPT ![r.content] = row]
      BY <2>1
    <3> HIDE DEF row
    <3>5. /\ since' \in [Groups -> [Members -> Nat]]
          /\ \A g \in Groups \ {r.content} : since'[g] = since[g]
          /\ since'[r.content] = row
      BY <1>4, <3>1, <3>3, <3>4
    <3> QED
      BY <1>2, <3>3, <3>5
  <2>5. \E a \in Messages :
          /\ sending' = <<To(r.from, a)>>
          /\ IsAnswerTo(a, r) /\ a.kind # "Notice" /\ a.number = r.number
          /\ r.content \in Groups => IsWelcome(a, r.content)
    BY <2>1, <2>2
  <2> QED
    BY <1>1, <1>2, <2>1, <2>3, <2>4, <2>5
<1> QED
  BY <1>2, <1>3, <1>4

\* What it does with a command.
LEMMA HandleCommands ==
  ASSUME TypeOK, OneCallback, Handle, NEW r, r = Head(inbox), r.content = "other",
         r.from \in members["CONTROL"]
  PROVE  /\ commands' = commands + 1 /\ UNCHANGED <<members, since>>
         /\ sending' \in Seq([to: Members, message: Messages])
         /\ \A i \in DOMAIN sending' :
               \E g \in {"NOTES", "PRESENT"} :
                  sending'[i].to \in members[g] /\ sending'[i].message = Notice(g, commands')
         /\ \A g \in {"NOTES", "PRESENT"} : \A m \in members[g] :
               \E i \in DOMAIN sending' :
                  sending'[i].to = m /\ sending'[i].message = Notice(g, commands')
         /\ \A i, j \in DOMAIN sending' :
               sending'[i].to = sending'[j].to /\ sending'[i].message = sending'[j].message => i = j
<1>1. commands' = commands + 1 /\ UNCHANGED <<members, since>>
  BY DEF Handle, Answer, Groups
<1>2. PICK notes \in Announcements("NOTES", commands'), present \in Announcements("PRESENT", commands') :
        sending' = notes \o present
  BY DEF Handle, Answer, Groups
<1>3. commands' \in Nat /\ \A g \in {"NOTES", "PRESENT"} : IsFiniteSet(members[g])
  BY <1>1 DEF TypeOK, OneCallback, Groups
<1> DEFINE S == [to: Members, message: Messages]
<1>4. /\ notes \in Seq(S)
      /\ \A i \in DOMAIN notes : /\ notes[i].to \in members["NOTES"]
                                /\ notes[i].message = Notice("NOTES", commands')
      /\ \A i, j \in DOMAIN notes : notes[i].to = notes[j].to => i = j
      /\ \A m \in members["NOTES"] : \E i \in DOMAIN notes : notes[i].to = m
  BY <1>3, AnnouncementsReach
<1>5. /\ present \in Seq(S)
      /\ \A i \in DOMAIN present : /\ present[i].to \in members["PRESENT"]
                                  /\ present[i].message = Notice("PRESENT", commands')
      /\ \A i, j \in DOMAIN present : present[i].to = present[j].to => i = j
      /\ \A m \in members["PRESENT"] : \E i \in DOMAIN present : present[i].to = m
  BY <1>3, AnnouncementsReach
<1>6. Notice("NOTES", commands') # Notice("PRESENT", commands')
  BY DEF Notice
<1> HIDE DEF S
<1>7. /\ sending' \in Seq(S)
      /\ Len(notes) \in Nat /\ Len(present) \in Nat
      /\ DOMAIN notes = 1..Len(notes) /\ DOMAIN present = 1..Len(present)
      /\ DOMAIN sending' = 1..(Len(notes) + Len(present))
      /\ \A i \in 1..(Len(notes) + Len(present)) :
            sending'[i] = IF i <= Len(notes) THEN notes[i] ELSE present[i - Len(notes)]
  <2>1. sending' \in Seq(S) /\ Len(sending') = Len(notes) + Len(present)
    BY <1>2, <1>4, <1>5, ConcatProperties
  <2>2. \A i \in 1..(Len(notes) + Len(present)) :
          sending'[i] = IF i <= Len(notes) THEN notes[i] ELSE present[i - Len(notes)]
    BY <1>2, <1>4, <1>5, ConcatProperties
  <2> QED
    BY <1>4, <1>5, <2>1, <2>2, LenProperties
<1>8. \A i \in DOMAIN sending' :
        \/ i \in DOMAIN notes /\ sending'[i] = notes[i]
        \/ /\ i \notin DOMAIN notes /\ i - Len(notes) \in DOMAIN present
           /\ sending'[i] = present[i - Len(notes)]
  BY <1>7
<1>9. /\ \A i \in DOMAIN notes : i \in DOMAIN sending' /\ sending'[i] = notes[i]
      /\ \A i \in DOMAIN present : /\ i + Len(notes) \in DOMAIN sending'
                                  /\ sending'[i + Len(notes)] = present[i]
  <2>1. \A i \in 1..Len(present) : (i + Len(notes)) - Len(notes) = i /\ ~(i + Len(notes) <= Len(notes))
                                   /\ i + Len(notes) \in 1..(Len(notes) + Len(present))
    BY <1>7
  <2>2. \A i \in 1..Len(notes) : i \in 1..(Len(notes) + Len(present)) /\ i <= Len(notes)
    BY <1>7
  <2> QED
    BY <1>7, <2>1, <2>2
<1>10. ASSUME NEW i \in DOMAIN sending'
       PROVE  \E g \in {"NOTES", "PRESENT"} :
                 sending'[i].to \in members[g] /\ sending'[i].message = Notice(g, commands')
  BY <1>4, <1>5, <1>8
<1>11. ASSUME NEW g \in {"NOTES", "PRESENT"}, NEW m \in members[g]
       PROVE  \E i \in DOMAIN sending' :
                 sending'[i].to = m /\ sending'[i].message = Notice(g, commands')
  <2>1. CASE g = "NOTES"
    BY <1>4, <1>9, <2>1
  <2>2. CASE g = "PRESENT"
    <3>1. PICK i \in DOMAIN present : present[i].to = m
      BY <1>5, <2>2
    <3>2. present[i].message = Notice(g, commands')
      BY <1>5, <2>2
    <3>3. i + Len(notes) \in DOMAIN sending' /\ sending'[i + Len(notes)] = present[i]
      BY <1>9
    <3> QED
      BY <3>1, <3>2, <3>3
  <2> QED
    BY <2>1, <2>2
<1>12. ASSUME NEW i \in DOMAIN sending', NEW j \in DOMAIN sending',
              sending'[i].to = sending'[j].to, sending'[i].message = sending'[j].message
       PROVE  i = j
  <2>1. CASE i \in DOMAIN notes /\ j \in DOMAIN notes
    BY <1>4, <1>9, <1>12, <2>1
  <2>2. CASE i \notin DOMAIN notes /\ j \notin DOMAIN notes
    <3>1. i - Len(notes) = j - Len(notes)
      BY <1>5, <1>8, <1>12, <2>2
    <3> QED
      BY <1>7, <3>1
  <2>3. CASE ~(i \in DOMAIN notes <=> j \in DOMAIN notes)
    BY <1>4, <1>5, <1>6, <1>8, <1>12, <2>3
  <2> QED
    BY <2>1, <2>2, <2>3
<1> QED
  BY <1>1, <1>7, <1>10, <1>11, <1>12 DEF S

\* What it does with anything else of who is not in control.
LEMMA HandleIgnores ==
  ASSUME TypeOK, Handle, NEW r, r = Head(inbox), r.content = "other",
         r.from \notin members["CONTROL"]
  PROVE  UNCHANGED <<members, sending, commands, since>>
BY DEF Handle, Answer, Groups

LEMMA HandleTypes ==
  ASSUME TypeOK, OneCallback, Handle
  PROVE  TypeOK' /\ OneCallback'
<1> SUFFICES ASSUME NEW r, r = Head(inbox)
             PROVE  TypeOK' /\ OneCallback'
  OBVIOUS
<1>1. /\ inbox' \in Seq(Requests) /\ Len(inbox') <= Capacity
      /\ UNCHANGED <<subscribed, outgoing, outbox, writing, stalled, requested, received>>
  <2>1. inbox' \in Seq(Requests) /\ Len(inbox') <= Len(inbox)
    BY TailFacts DEF TypeOK, Handle
  <2>2. Len(inbox) \in Nat /\ Len(inbox') \in Nat /\ Len(inbox) <= Capacity
    BY <2>1 DEF TypeOK
  <2> QED
    BY <2>1, <2>2, CoordinatorAssumption DEF Handle, network
<1>2. CASE r.content # "other"
  <2>1. PICK a \in Messages : sending' = <<To(r.from, a)>>
    BY <1>2, HandleAnswers
  <2>2. r.from \in Members
    BY <1>2, HandleAnswers DEF Requests
  <2>3. sending' \in Seq([to: Members, message: Messages]) /\ DOMAIN sending' = {1}
    BY <2>1, <2>2 DEF To
  <2>4. /\ commands' = commands
        /\ members' \in [Groups -> SUBSET Members] /\ since' \in [Groups -> [Members -> Nat]]
    BY <1>2, HandleAnswers
  <2>5. ASSUME NEW g \in Groups
        PROVE  IsFiniteSet(members'[g])
    <3>1. members'[g] = members[g] \/ members'[g] = members[g] \cup {r.from}
      BY <1>2, HandleAnswers
    <3>2. IsFiniteSet(members[g])
      BY DEF OneCallback
    <3> QED
      BY <3>1, <3>2, FS_AddElement
  <2>6. ASSUME NEW g \in Groups, NEW m \in members'[g]
        PROVE  since'[g][m] <= commands
    <3>1. m \in Members
      BY <2>4
    <3>2. CASE g = r.content /\ m = r.from /\ m \notin members[g]
      <4>1. since'[g][m] = commands
        BY <1>2, <3>1, <3>2, HandleAnswers
      <4> QED
        BY <4>1 DEF TypeOK
    <3>3. CASE ~(g = r.content /\ m = r.from /\ m \notin members[g])
      <4>1. m \in members[g] /\ since'[g][m] = since[g][m]
        BY <1>2, <3>1, <3>3, HandleAnswers
      <4> QED
        BY <4>1 DEF OneCallback
    <3> QED
      BY <3>2, <3>3
  <2> QED
    BY <1>1, <2>3, <2>4, <2>5, <2>6 DEF TypeOK, OneCallback
<1>3. CASE r.content = "other" /\ r.from \in members["CONTROL"]
  <2>1. /\ commands' = commands + 1 /\ UNCHANGED <<members, since>>
        /\ sending' \in Seq([to: Members, message: Messages])
    BY <1>3, HandleCommands
  <2>2. \A i \in DOMAIN sending' : sending'[i].message.kind = "Notice"
    <3>1. \A i \in DOMAIN sending' : \E g \in {"NOTES", "PRESENT"} :
            sending'[i].message = Notice(g, commands')
      BY <1>3, HandleCommands
    <3> QED
      BY <3>1 DEF Notice
  <2>3. \A g \in Groups : \A m \in members[g] : since[g][m] <= commands + 1
    <3>1. commands \in Nat /\ \A g \in Groups : \A m \in members[g] : since[g][m] \in Nat
      BY DEF TypeOK
    <3> QED
      BY <3>1 DEF OneCallback
  <2>4. TypeOK'
    BY <1>1, <2>1 DEF TypeOK
  <2>5. OneCallback'
    BY <2>1, <2>2, <2>3 DEF OneCallback
  <2> QED
    BY <2>4, <2>5
<1>4. CASE r.content = "other" /\ r.from \notin members["CONTROL"]
  <2>1. UNCHANGED <<members, sending, commands, since>>
    BY <1>4, HandleIgnores
  <2>2. TypeOK'
    BY <1>1, <2>1 DEF TypeOK
  <2> QED
    BY <2>1, <2>2 DEF OneCallback
<1> QED
  BY <1>2, <1>3, <1>4

LEMMA SendNextTypes ==
  ASSUME TypeOK, OneCallback, SendNext
  PROVE  TypeOK' /\ OneCallback'
<1> SUFFICES ASSUME NEW s, s = Head(sending)
             PROVE  TypeOK' /\ OneCallback'
  OBVIOUS
<1>1. /\ s \in [to: Members, message: Messages] /\ s = sending[1] /\ 1 \in DOMAIN sending
      /\ sending' = Tail(sending) /\ sending' \in Seq([to: Members, message: Messages])
      /\ \A i \in DOMAIN sending' : i + 1 \in DOMAIN sending \ {1} /\ sending'[i] = sending[i + 1]
  BY TailFacts DEF TypeOK, SendNext
<1>2. outbox' = [outbox EXCEPT ![s.to] = Append(@, s.message)] /\ Len(outbox[s.to]) < Capacity
  BY DEF SendNext
<1>3. outbox' \in [Members -> Seq(Messages)] /\ \A m \in Members : Len(outbox'[m]) <= Capacity
  <2>1. outbox \in [Members -> Seq(Messages)] /\ s.to \in Members /\ s.message \in Messages
    BY <1>1 DEF TypeOK
  <2>2. /\ Append(outbox[s.to], s.message) \in Seq(Messages)
        /\ Len(Append(outbox[s.to], s.message)) = Len(outbox[s.to]) + 1 /\ Len(outbox[s.to]) \in Nat
    BY <2>1
  <2> HIDE DEF Messages
  <2> QED
    BY <1>2, <2>1, <2>2, CoordinatorAssumption DEF TypeOK
<1>4. TypeOK'
  BY <1>1, <1>3 DEF TypeOK, SendNext
<1>5. \A i \in DOMAIN sending' : sending'[i].message.kind = "Notice"
  BY <1>1 DEF OneCallback
<1> QED
  BY <1>4, <1>5 DEF OneCallback, SendNext

LEMMA InitTypes == Init => TypeOK /\ OneCallback
<1> SUFFICES ASSUME Init
             PROVE  TypeOK /\ OneCallback
  OBVIOUS
<1>1. TypeOK
  <2>1. Empty \in [Members -> Seq(Requests)] /\ Empty \in [Members -> Seq(Messages)]
        /\ \A m \in Members : Len(Empty[m]) = 0
    BY DEF Empty
  <2>2. /\ members \in [Groups -> SUBSET Members] /\ since \in [Groups -> [Members -> Nat]]
        /\ subscribed \in BOOLEAN /\ stalled \subseteq Members /\ commands \in Nat
    BY DEF Init
  <2>4. /\ sending \in Seq([to: Members, message: Messages])
        /\ inbox \in Seq(Requests) /\ requested \in Seq(Requests) /\ Len(inbox) = 0
    BY DEF Init
  <2>3. \A m \in Members :
          Len(outgoing[m]) <= 1 /\ Len(writing[m]) <= 1 /\ Len(outbox[m]) <= Capacity
    BY <2>1, CoordinatorAssumption DEF Init
  <2> QED
    BY <2>1, <2>2, <2>3, <2>4, CoordinatorAssumption DEF Init, TypeOK
<1>2. DOMAIN sending = {} /\ \A g \in Groups : members[g] = {}
  BY DEF Init
<1> QED
  BY <1>1, <1>2, FS_EmptySet DEF OneCallback

-----------------------------------------------------------------------------
(* The mail: what the coordinator sends comes to its end, and nothing else *)
(* changes it.                                                             *)

LEMMA MailType ==
  ASSUME TypeOK, NEW m \in Members
  PROVE  Mail(m) \in Seq(Messages)
BY ConcatProperties DEF TypeOK, Mail

LEMMA TakeMail ==
  ASSUME TypeOK, NEW m \in Members, Take(m), NEW n \in Members
  PROVE  Mail(n)' = Mail(n)
<1>1. CASE n # m
  BY <1>1 DEF TypeOK, Take, Mail
<1>2. CASE n = m
  <2>1. /\ received[m] \in Seq(Messages) /\ outbox[m] \in Seq(Messages)
        /\ outbox[m] # <<>> /\ writing[m] = <<>>
        /\ received'[m] = received[m]
        /\ writing'[m] = <<Head(outbox[m])>> /\ outbox'[m] = Tail(outbox[m])
    BY DEF TypeOK, Take
  <2>2. <<Head(outbox[m])>> \in Seq(Messages) /\ Tail(outbox[m]) \in Seq(Messages)
    BY <2>1, TailFacts
  <2>3. (received[m] \o <<Head(outbox[m])>>) \o Tail(outbox[m]) = received[m] \o outbox[m]
    <3>1. (received[m] \o <<Head(outbox[m])>>) \o Tail(outbox[m])
            = received[m] \o (<<Head(outbox[m])>> \o Tail(outbox[m]))
      <4>1. \A x, y, z \in Seq(Messages) : (x \o y) \o z = x \o (y \o z)
        BY ConcatAssociative
      <4> QED
        BY <2>1, <2>2, <4>1
    <3>2. <<Head(outbox[m])>> \o Tail(outbox[m]) = outbox[m]
      BY <2>1, HeadBeforeTail
    <3> QED
      BY <3>1, <3>2
  <2>4. received[m] \o <<>> = received[m]
    BY <2>1, ConcatEmptySeq
  <2> QED
    BY <1>2, <2>1, <2>3, <2>4 DEF Mail
<1> QED
  BY <1>1, <1>2

LEMMA WrittenMail ==
  ASSUME TypeOK, NEW m \in Members, Written(m), NEW n \in Members
  PROVE  Mail(n)' = Mail(n)
<1>1. CASE n # m
  BY <1>1 DEF TypeOK, Written, Mail
<1>2. CASE n = m
  <2>1. /\ received[m] \o writing[m] \in Seq(Messages)
        /\ received'[m] = received[m] \o writing[m]
        /\ writing'[m] = <<>> /\ outbox'[m] = outbox[m]
    BY ConcatProperties DEF TypeOK, Written
  <2>2. (received[m] \o writing[m]) \o <<>> = received[m] \o writing[m]
    BY <2>1, ConcatEmptySeq
  <2> QED
    BY <1>2, <2>1, <2>2 DEF Mail
<1> QED
  BY <1>1, <1>2

LEMMA SendNextMail ==
  ASSUME TypeOK, SendNext, NEW s, s = Head(sending), NEW m \in Members
  PROVE  Mail(m)' = IF m = s.to THEN Append(Mail(m), s.message) ELSE Mail(m)
<1>1. s.to \in Members /\ s.message \in Messages
  <2>1. sending \in Seq([to: Members, message: Messages]) /\ sending # <<>>
    BY DEF TypeOK, SendNext
  <2>2. s \in [to: Members, message: Messages]
    BY <2>1, TailFacts
  <2> QED
    BY <2>2
<1>2. outbox' = [outbox EXCEPT ![s.to] = Append(@, s.message)] /\ UNCHANGED <<received, writing>>
  BY DEF SendNext
<1>3. CASE m = s.to
  <2>1. /\ received[m] \o writing[m] \in Seq(Messages) /\ outbox[m] \in Seq(Messages)
        /\ outbox \in [Members -> Seq(Messages)]
    BY ConcatProperties DEF TypeOK
  <2>2. outbox'[m] = Append(outbox[m], s.message)
    BY <1>2, <1>3, <2>1
  <2>3. (received[m] \o writing[m]) \o Append(outbox[m], s.message)
          = Append((received[m] \o writing[m]) \o outbox[m], s.message)
    <3>1. \A x, y \in Seq(Messages), e \in Messages : x \o Append(y, e) = Append(x \o y, e)
      BY ConcatAppend
    <3> QED
      BY <1>1, <2>1, <3>1
  <2> QED
    BY <1>2, <1>3, <2>2, <2>3 DEF Mail
<1>4. CASE m # s.to
  BY <1>2, <1>4 DEF TypeOK, Mail
<1> QED
  BY <1>3, <1>4

\* The steps of members, and the others in which no message is sent.
LEMMA OthersMail ==
  ASSUME UNCHANGED <<outbox, writing, received>>, NEW m \in Members
  PROVE  Mail(m)' = Mail(m)
BY DEF Mail

\* The mail and the messages still to be sent, after the next one is sent.
LEMMA SendNextFacts ==
  ASSUME TypeOK, SendNext, NEW s, s = Head(sending)
  PROVE  /\ s \in [to: Members, message: Messages] /\ s = sending[1] /\ 1 \in DOMAIN sending
         /\ \A i \in DOMAIN sending' : i + 1 \in DOMAIN sending \ {1} /\ sending'[i] = sending[i + 1]
         /\ \A i \in DOMAIN sending \ {1} : i - 1 \in DOMAIN sending' /\ sending'[i - 1] = sending[i]
         /\ \A m \in Members \ {s.to} : Mail(m)' = Mail(m)
         /\ Len(Mail(s.to)) \in Nat /\ DOMAIN Mail(s.to) = 1..Len(Mail(s.to))
         /\ DOMAIN Mail(s.to)' = DOMAIN Mail(s.to) \cup {Len(Mail(s.to)) + 1}
         /\ Len(Mail(s.to)) + 1 \notin DOMAIN Mail(s.to)
         /\ Mail(s.to)'[Len(Mail(s.to)) + 1] = s.message
         /\ \A i \in DOMAIN Mail(s.to) : Mail(s.to)'[i] = Mail(s.to)[i] /\ i < Len(Mail(s.to)) + 1
         /\ DOMAIN sending \subseteq Nat /\ DOMAIN sending' \subseteq Nat
<1>1. /\ s \in [to: Members, message: Messages] /\ s = sending[1] /\ 1 \in DOMAIN sending
      /\ \A i \in DOMAIN sending' : i + 1 \in DOMAIN sending \ {1} /\ sending'[i] = sending[i + 1]
      /\ \A i \in DOMAIN sending \ {1} : i - 1 \in DOMAIN sending' /\ sending'[i - 1] = sending[i]
      /\ DOMAIN sending \subseteq Nat /\ DOMAIN sending' \subseteq Nat
  <2>1. sending \in Seq([to: Members, message: Messages]) /\ sending # <<>>
    BY DEF TypeOK, SendNext
  <2>2. sending' = Tail(sending)
    BY DEF SendNext
  <2> QED
    BY <2>1, <2>2, TailFacts
<1>2. \A m \in Members \ {s.to} : Mail(m)' = Mail(m)
  BY SendNextMail
<1>3. s.to \in Members /\ s.message \in Messages
  BY <1>1
<1>4. Mail(s.to)' = Append(Mail(s.to), s.message)
  BY <1>3, SendNextMail
<1>5. Mail(s.to) \in Seq(Messages)
  BY <1>3, MailType
<1>6. /\ Len(Mail(s.to)) \in Nat /\ DOMAIN Mail(s.to) = 1..Len(Mail(s.to))
      /\ Len(Mail(s.to)) + 1 \notin DOMAIN Mail(s.to)
      /\ DOMAIN Append(Mail(s.to), s.message) = DOMAIN Mail(s.to) \cup {Len(Mail(s.to)) + 1}
      /\ Append(Mail(s.to), s.message)[Len(Mail(s.to)) + 1] = s.message
      /\ \A i \in DOMAIN Mail(s.to) : /\ Append(Mail(s.to), s.message)[i] = Mail(s.to)[i]
                                   /\ i < Len(Mail(s.to)) + 1
  BY <1>3, <1>5, AppendFacts
<1> QED
  BY <1>1, <1>2, <1>4, <1>6

-----------------------------------------------------------------------------
(* Commands. *)

Reached(m, g) ==
    LET mail == Mail(m)
        told == {mail[i].number : i \in Heard(m, g)}
        untold == {sending[i].message.number : i \in Due(m, g)}
    IN  /\ told \cup untold = IF m \in members[g] THEN (since[g][m] + 1)..commands ELSE {}
        /\ \A x \in told, y \in untold : x < y
        /\ \A i, j \in Heard(m, g) : i < j => mail[i].number < mail[j].number
        /\ \A i, j \in Due(m, g) : i = j

LEMMA AllReached ==
  CommandsReachGroups <=> \A g \in {"NOTES", "PRESENT"} : \A m \in Members : Reached(m, g)
BY DEF CommandsReachGroups, Reached

LEMMA AllReachedNext ==
  ASSUME \A g \in {"NOTES", "PRESENT"} : \A m \in Members : Reached(m, g)'
  PROVE  CommandsReachGroups'
BY DEF CommandsReachGroups, Reached

LEMMA StaysReached ==
  ASSUME NEW m, NEW g, Reached(m, g), Mail(m)' = Mail(m),
         UNCHANGED <<sending, members, commands, since>>
  PROVE  Reached(m, g)'
<1>1. Heard(m, g)' = Heard(m, g) /\ Due(m, g)' = Due(m, g)
  BY DEF Heard, Due
<1> QED
  BY <1>1 DEF Reached

LEMMA CommandsStay ==
  ASSUME CommandsReachGroups, \A m \in Members : Mail(m)' = Mail(m),
         UNCHANGED <<sending, members, commands, since>>
  PROVE  CommandsReachGroups'
<1>1. \A g \in {"NOTES", "PRESENT"} : \A m \in Members : Reached(m, g)'
  BY AllReached, StaysReached
<1> QED
  BY <1>1, AllReachedNext

\* A command: sending was empty, and one notice is due to each in the group.
LEMMA HandleReaches ==
  ASSUME TypeOK, OneCallback, CommandsReachGroups, Handle
  PROVE  CommandsReachGroups'
<1> SUFFICES ASSUME NEW r, r = Head(inbox)
             PROVE  CommandsReachGroups'
  OBVIOUS
<1>1. sending = <<>> /\ \A m \in Members : Mail(m)' = Mail(m)
  BY OthersMail DEF Handle, network
<1>2. \A g \in {"NOTES", "PRESENT"} : g \in Groups
  BY DEF Groups
<1>3. ASSUME NEW g \in {"NOTES", "PRESENT"}, NEW m \in Members
      PROVE  /\ Heard(m, g)' = Heard(m, g) /\ Due(m, g) = {}
             /\ {Mail(m)'[i].number : i \in Heard(m, g)'} = {Mail(m)[i].number : i \in Heard(m, g)}
             /\ {Mail(m)[i].number : i \in Heard(m, g)}
                   = IF m \in members[g] THEN (since[g][m] + 1)..commands ELSE {}
             /\ \A i, j \in Heard(m, g)' : i < j => Mail(m)'[i].number < Mail(m)'[j].number
  <2>1. Heard(m, g)' = Heard(m, g) /\ Due(m, g) = {} /\ Mail(m)' = Mail(m)
    BY <1>1 DEF Heard, Due
  <2>2. Reached(m, g)
    BY AllReached
  <2> QED
    BY <2>1, <2>2 DEF Reached
<1>4. \A g \in {"NOTES", "PRESENT"}, m \in Members :
        m \in members[g] => since[g][m] \in Nat /\ since[g][m] <= commands /\ commands \in Nat
  BY <1>2 DEF TypeOK, OneCallback
<1>5. CASE r.content # "other"
  <2>1. ASSUME NEW g \in {"NOTES", "PRESENT"}, NEW m \in Members
        PROVE  Reached(m, g)'
    <3>1. Due(m, g)' = {}
      <4>1. PICK a \in Messages : sending' = <<To(r.from, a)>> /\ a.kind # "Notice"
        BY <1>5, HandleAnswers
      <4>2. DOMAIN sending' = {1} /\ sending'[1].message.kind # "Notice"
        BY <4>1 DEF To
      <4> QED
        BY <4>2 DEF Due, IsNotice
    <3>2. (IF m \in members'[g] THEN (since'[g][m] + 1)..commands' ELSE {})
            = IF m \in members[g] THEN (since[g][m] + 1)..commands ELSE {}
      <4>0. commands' = commands
        BY <1>5, HandleAnswers
      <4>1. CASE g = r.content /\ m = r.from /\ m \notin members[g]
        <5>1. m \in members'[g] /\ since'[g][m] = commands
          BY <1>2, <1>5, <4>1, HandleAnswers
        <5>2. (commands + 1)..commands = {}
          BY DEF TypeOK
        <5> QED
          BY <4>0, <4>1, <5>1, <5>2
      <4>2. CASE ~(g = r.content /\ m = r.from /\ m \notin members[g])
        <5>1. (m \in members'[g] <=> m \in members[g]) /\ since'[g][m] = since[g][m]
          BY <1>2, <1>5, <4>2, HandleAnswers
        <5> QED
          BY <4>0, <5>1
      <4> QED
        BY <4>1, <4>2
    <3> QED
      BY <1>3, <3>1, <3>2 DEF Reached
  <2> QED
    BY <2>1, AllReachedNext
<1>6. CASE r.content = "other" /\ r.from \in members["CONTROL"]
  <2>1. /\ commands' = commands + 1 /\ UNCHANGED <<members, since>>
        /\ \A i \in DOMAIN sending' :
              \E g \in {"NOTES", "PRESENT"} :
                 sending'[i].to \in members[g] /\ sending'[i].message = Notice(g, commands')
        /\ \A g \in {"NOTES", "PRESENT"} : \A m \in members[g] :
              \E i \in DOMAIN sending' :
                 sending'[i].to = m /\ sending'[i].message = Notice(g, commands')
        /\ \A i, j \in DOMAIN sending' :
              sending'[i].to = sending'[j].to /\ sending'[i].message = sending'[j].message => i = j
    BY <1>6, HandleCommands
  <2>2. ASSUME NEW g \in {"NOTES", "PRESENT"}, NEW m \in Members
        PROVE  Reached(m, g)'
    <3>1. \A i \in Due(m, g)' :
            m \in members[g] /\ sending'[i].message = Notice(g, commands + 1) /\ sending'[i].to = m
                             /\ i \in DOMAIN sending'
      BY <2>1 DEF Due, IsNotice, Notice
    <3>2. \A i, j \in Due(m, g)' : i = j
      BY <2>1, <3>1
    <3>3. Notice(g, commands + 1).number = commands + 1 /\ IsNotice(Notice(g, commands + 1), g)
      BY DEF Notice, IsNotice
    <3>4. m \in members[g] => \E i \in DOMAIN sending' :
            i \in Due(m, g)' /\ sending'[i].message = Notice(g, commands + 1)
      BY <2>1, <3>3 DEF Due
    <3>5. {sending'[i].message.number : i \in Due(m, g)'}
            = IF m \in members[g] THEN {commands + 1} ELSE {}
      BY <3>1, <3>3, <3>4
    <3>6. m \in members[g] =>
            /\ (since[g][m] + 1)..commands \cup {commands + 1} = (since[g][m] + 1)..(commands + 1)
            /\ \A x \in (since[g][m] + 1)..commands : x < commands + 1
      BY <1>4
    <3>7. {Mail(m)'[i].number : i \in Heard(m, g)'}
            = IF m \in members[g] THEN (since[g][m] + 1)..commands ELSE {}
      BY <1>3
    <3>8. {Mail(m)'[i].number : i \in Heard(m, g)'}
             \cup {sending'[i].message.number : i \in Due(m, g)'}
            = IF m \in members'[g] THEN (since'[g][m] + 1)..commands' ELSE {}
      BY <2>1, <3>5, <3>6, <3>7
    <3>9. \A x \in {Mail(m)'[i].number : i \in Heard(m, g)'},
             y \in {sending'[i].message.number : i \in Due(m, g)'} : x < y
      BY <3>5, <3>6, <3>7
    <3>10. \A i, j \in Heard(m, g)' : i < j => Mail(m)'[i].number < Mail(m)'[j].number
      BY <1>3
    <3> QED
      BY <3>2, <3>8, <3>9, <3>10 DEF Reached
  <2> QED
    BY <2>2, AllReachedNext
<1>7. CASE r.content = "other" /\ r.from \notin members["CONTROL"]
  BY <1>1, <1>7, HandleIgnores, CommandsStay
<1> QED
  BY <1>5, <1>6, <1>7, HandleAnswers

\* What is sent was due.
LEMMA SendNextReaches ==
  ASSUME TypeOK, CommandsReachGroups, SendNext
  PROVE  CommandsReachGroups'
<1> SUFFICES ASSUME NEW s, s = Head(sending),
                    NEW g \in {"NOTES", "PRESENT"}, NEW m \in Members
             PROVE  Reached(m, g)'
  BY AllReachedNext
<1>1. Reached(m, g) /\ UNCHANGED <<members, commands, since>>
  BY AllReached DEF SendNext
<1>2. /\ s = sending[1] /\ 1 \in DOMAIN sending
      /\ \A i \in DOMAIN sending' : i + 1 \in DOMAIN sending \ {1} /\ sending'[i] = sending[i + 1]
      /\ \A i \in DOMAIN sending \ {1} : i - 1 \in DOMAIN sending' /\ sending'[i - 1] = sending[i]
      /\ DOMAIN sending \subseteq Nat /\ DOMAIN sending' \subseteq Nat
  BY SendNextFacts
<1>3. ASSUME NEW i \in Due(m, g)'
      PROVE  i \in Nat /\ i + 1 \in Due(m, g) \ {1} /\ sending'[i].message = sending[i + 1].message
  BY <1>2 DEF Due
<1>4. ASSUME NEW i \in Due(m, g) \ {1}
      PROVE  i \in Nat /\ i - 1 \in Due(m, g)' /\ sending'[i - 1].message = sending[i].message
  BY <1>2 DEF Due
<1>5. \A i, j \in Due(m, g)' : i = j
  <2>1. \A i, j \in Due(m, g)' : i + 1 = j + 1
    BY <1>1, <1>3 DEF Reached
  <2> QED
    BY <1>3, <2>1
<1>6. CASE s.to = m /\ IsNotice(s.message, g)
  <2>1. 1 \in Due(m, g)
    BY <1>2, <1>6 DEF Due
  <2>2. Due(m, g) = {1} /\ Due(m, g)' = {}
    BY <1>1, <1>3, <2>1 DEF Reached
  <2>3. /\ Len(Mail(m)) \in Nat /\ DOMAIN Mail(m) = 1..Len(Mail(m))
        /\ DOMAIN Mail(m)' = DOMAIN Mail(m) \cup {Len(Mail(m)) + 1}
        /\ Len(Mail(m)) + 1 \notin DOMAIN Mail(m)
        /\ Mail(m)'[Len(Mail(m)) + 1] = s.message
        /\ \A i \in DOMAIN Mail(m) : Mail(m)'[i] = Mail(m)[i] /\ i < Len(Mail(m)) + 1
    BY <1>6, SendNextFacts
  <2>4. Heard(m, g)' = Heard(m, g) \cup {Len(Mail(m)) + 1} /\ Heard(m, g) \subseteq DOMAIN Mail(m)
    BY <1>6, <2>3 DEF Heard
  <2>5. /\ {sending[i].message.number : i \in Due(m, g)} = {s.message.number}
        /\ \A i \in Heard(m, g) : Mail(m)[i].number < s.message.number
    BY <1>1, <1>2, <2>2 DEF Reached
  <2>6. {Mail(m)'[i].number : i \in Heard(m, g)'}
          = {Mail(m)[i].number : i \in Heard(m, g)} \cup {s.message.number}
    BY <2>3, <2>4
  <2>7. ASSUME NEW i \in Heard(m, g)', NEW j \in Heard(m, g)', i < j
        PROVE  Mail(m)'[i].number < Mail(m)'[j].number
    <3>1. CASE j = Len(Mail(m)) + 1
      <4>1. i \in Heard(m, g)
        BY <2>3, <2>4, <2>7, <3>1
      <4> QED
        BY <2>3, <2>4, <2>5, <3>1, <4>1
    <3>2. CASE j # Len(Mail(m)) + 1
      <4>1. j \in Heard(m, g) /\ j < Len(Mail(m)) + 1 /\ j \in Nat /\ i \in Nat
        BY <2>3, <2>4, <3>2
      <4>2. i \in Heard(m, g)
        BY <2>3, <2>4, <2>7, <4>1
      <4> QED
        BY <1>1, <2>3, <2>4, <2>7, <4>1, <4>2 DEF Reached
    <3> QED
      BY <3>1, <3>2
  <2>8. {sending'[i].message.number : i \in Due(m, g)'} = {}
    BY <2>2
  <2> QED
    BY <1>1, <1>5, <2>5, <2>6, <2>7, <2>8 DEF Reached
<1>7. CASE ~(s.to = m /\ IsNotice(s.message, g))
  <2>1. 1 \notin Due(m, g)
    BY <1>2, <1>7 DEF Due
  <2>2. {sending'[i].message.number : i \in Due(m, g)'} = {sending[i].message.number : i \in Due(m, g)}
    <3>1. \A i \in Due(m, g)' : \E j \in Due(m, g) : sending'[i].message = sending[j].message
      BY <1>3
    <3>2. \A j \in Due(m, g) : \E i \in Due(m, g)' : sending'[i].message = sending[j].message
      BY <1>4, <2>1
    <3> QED
      BY <3>1, <3>2
  <2>3. Heard(m, g)' = Heard(m, g) /\ \A i \in Heard(m, g) : Mail(m)'[i] = Mail(m)[i]
    <3>1. CASE s.to # m
      BY <3>1, SendNextFacts DEF Heard
    <3>2. CASE s.to = m
      <4>1. /\ DOMAIN Mail(m)' = DOMAIN Mail(m) \cup {Len(Mail(m)) + 1}
            /\ Mail(m)'[Len(Mail(m)) + 1] = s.message
            /\ \A i \in DOMAIN Mail(m) : Mail(m)'[i] = Mail(m)[i]
            /\ Len(Mail(m)) + 1 \notin DOMAIN Mail(m)
        BY <3>2, SendNextFacts
      <4> QED
        BY <1>7, <3>2, <4>1 DEF Heard
    <3> QED
      BY <3>1, <3>2
  <2>4. {Mail(m)'[i].number : i \in Heard(m, g)'} = {Mail(m)[i].number : i \in Heard(m, g)}
    BY <2>3
  <2>5. \A i, j \in Heard(m, g)' : i < j => Mail(m)'[i].number < Mail(m)'[j].number
    <3>1. \A i, j \in Heard(m, g) : i < j => Mail(m)[i].number < Mail(m)[j].number
      BY <1>1 DEF Reached
    <3> QED
      BY <2>3, <3>1
  <2> QED
    BY <1>1, <1>5, <2>2, <2>4, <2>5 DEF Reached
<1> QED
  BY <1>6, <1>7

-----------------------------------------------------------------------------
(* Welcomes. *)

LEMMA WelcomesStay ==
  ASSUME MembersWelcomed, WelcomeComesFirst, \A m \in Members : Mail(m)' = Mail(m),
         UNCHANGED <<sending, members>>
  PROVE  MembersWelcomed' /\ WelcomeComesFirst'
<1>1. ASSUME NEW m \in Members, NEW g \in Groups
      PROVE  /\ Welcomed(m, g)' <=> Welcomed(m, g)
             /\ ToBeWelcomed(m, g)' <=> ToBeWelcomed(m, g)
             /\ Due(m, g)' = Due(m, g)
  BY DEF Welcomed, ToBeWelcomed, Due
<1>2. MembersWelcomed'
  BY <1>1 DEF MembersWelcomed
<1>3. WelcomeComesFirst'
  BY DEF WelcomeComesFirst
<1> QED
  BY <1>2, <1>3

LEMMA HandleWelcomes ==
  ASSUME TypeOK, OneCallback, MembersWelcomed, WelcomeComesFirst, Handle
  PROVE  MembersWelcomed' /\ WelcomeComesFirst'
<1> SUFFICES ASSUME NEW r, r = Head(inbox)
             PROVE  MembersWelcomed' /\ WelcomeComesFirst'
  OBVIOUS
<1>1. sending = <<>> /\ \A m \in Members : Mail(m)' = Mail(m)
  BY OthersMail DEF Handle, network
<1>2. WelcomeComesFirst'
  BY <1>1 DEF WelcomeComesFirst
<1>3. ASSUME NEW m \in Members, NEW g \in Groups
      PROVE  /\ Welcomed(m, g)' <=> Welcomed(m, g)
             /\ m \in members[g] => Welcomed(m, g)
  BY <1>1 DEF MembersWelcomed, Welcomed, ToBeWelcomed
<1>4. CASE r.content # "other"
  <2>1. PICK a \in Messages : /\ sending' = <<To(r.from, a)>>
                              /\ a.kind # "Notice"
                              /\ r.content \in Groups => IsWelcome(a, r.content)
    BY <1>4, HandleAnswers
  <2>2. DOMAIN sending' = {1} /\ sending'[1].to = r.from /\ sending'[1].message = a
    BY <2>1 DEF To
  <2>3. ASSUME NEW m \in Members, NEW g \in Groups
        PROVE  /\ m \in members'[g] => Welcomed(m, g)' \/ ToBeWelcomed(m, g)'
               /\ Due(m, g)' = {}
    <3>1. Due(m, g)' = {}
      BY <2>1, <2>2 DEF Due, IsNotice
    <3>2. CASE m \in members[g]
      BY <1>3, <3>1, <3>2
    <3>3. CASE m \notin members[g] /\ m \in members'[g]
      <4>1. g = r.content /\ m = r.from
        BY <1>4, <3>3, HandleAnswers
      <4> QED
        BY <2>1, <2>2, <3>1, <4>1 DEF ToBeWelcomed
    <3> QED
      BY <3>1, <3>2, <3>3
  <2> QED
    BY <1>2, <2>3 DEF MembersWelcomed
<1>5. CASE r.content = "other" /\ r.from \in members["CONTROL"]
  <2>1. /\ UNCHANGED members
        /\ \A i \in DOMAIN sending' :
              \E g \in {"NOTES", "PRESENT"} :
                 sending'[i].to \in members[g] /\ sending'[i].message = Notice(g, commands')
    BY <1>5, HandleCommands
  <2>2. ASSUME NEW m \in Members, NEW g \in Groups, Due(m, g)' # {}
        PROVE  m \in members[g]
    BY <2>1, <2>2 DEF Due, IsNotice, Notice
  <2> QED
    BY <1>2, <1>3, <2>1, <2>2 DEF MembersWelcomed
<1>6. CASE r.content = "other" /\ r.from \notin members["CONTROL"]
  BY <1>1, <1>6, HandleIgnores, WelcomesStay
<1> QED
  BY <1>4, <1>5, <1>6

LEMMA SendNextWelcomes ==
  ASSUME TypeOK, MembersWelcomed, WelcomeComesFirst, SendNext
  PROVE  MembersWelcomed' /\ WelcomeComesFirst'
<1> SUFFICES ASSUME NEW s, s = Head(sending)
             PROVE  MembersWelcomed' /\ WelcomeComesFirst'
  OBVIOUS
<1>1. /\ s \in [to: Members, message: Messages] /\ s = sending[1] /\ 1 \in DOMAIN sending
      /\ \A i \in DOMAIN sending' : i + 1 \in DOMAIN sending \ {1} /\ sending'[i] = sending[i + 1]
      /\ \A i \in DOMAIN sending \ {1} : i - 1 \in DOMAIN sending' /\ sending'[i - 1] = sending[i]
      /\ \A m \in Members \ {s.to} : Mail(m)' = Mail(m)
      /\ UNCHANGED members
  BY SendNextFacts DEF SendNext
<1>2. /\ Len(Mail(s.to)) \in Nat /\ DOMAIN Mail(s.to) = 1..Len(Mail(s.to))
      /\ DOMAIN Mail(s.to)' = DOMAIN Mail(s.to) \cup {Len(Mail(s.to)) + 1}
      /\ Mail(s.to)'[Len(Mail(s.to)) + 1] = s.message
      /\ \A i \in DOMAIN Mail(s.to) : Mail(s.to)'[i] = Mail(s.to)[i]
  BY SendNextFacts
<1>3. ASSUME NEW m \in Members, NEW g \in Groups, Welcomed(m, g)
      PROVE  Welcomed(m, g)'
  BY <1>1, <1>2, <1>3 DEF Welcomed
<1>4. ASSUME NEW m \in Members, NEW g \in Groups, ToBeWelcomed(m, g)
      PROVE  Welcomed(m, g)' \/ ToBeWelcomed(m, g)'
  <2>1. PICK i \in DOMAIN sending : sending[i].to = m /\ IsWelcome(sending[i].message, g)
    BY <1>4 DEF ToBeWelcomed
  <2>2. CASE i = 1
    BY <1>1, <1>2, <2>1, <2>2 DEF Welcomed
  <2>3. CASE i # 1
    BY <1>1, <2>1, <2>3 DEF ToBeWelcomed
  <2> QED
    BY <2>2, <2>3
<1>5. ASSUME NEW m \in Members, NEW g \in Groups, Due(m, g)' # {}
      PROVE  Due(m, g) # {}
  BY <1>1, <1>5 DEF Due
<1>6. MembersWelcomed'
  BY <1>1, <1>3, <1>4, <1>5 DEF MembersWelcomed
<1>7. ASSUME NEW m \in Members, NEW i \in DOMAIN Mail(m)', Mail(m)'[i].kind = "Notice"
      PROVE  \E j \in 1..(i - 1) : IsWelcome(Mail(m)'[j], Mail(m)'[i].group)
  <2>1. CASE m # s.to
    BY <1>1, <1>7, <2>1 DEF WelcomeComesFirst
  <2>2. CASE m = s.to /\ i \in DOMAIN Mail(m)
    <3>1. PICK j \in 1..(i - 1) : IsWelcome(Mail(m)[j], Mail(m)[i].group)
      BY <1>2, <1>7, <2>2 DEF WelcomeComesFirst
    <3>2. j \in DOMAIN Mail(m)
      BY <1>2, <2>2
    <3> QED
      BY <1>2, <2>2, <3>1, <3>2
  <2>3. CASE m = s.to /\ i = Len(Mail(m)) + 1
    <3>1. s.message.kind = "Notice" /\ s.message.group \in Groups
      <4>1. s.message.kind = "Notice" /\ s.message \in Messages
        BY <1>1, <1>2, <1>7, <2>3
      <4> QED
        BY <4>1 DEF Messages, Groups
    <3>2. 1 \in Due(m, s.message.group)
      BY <1>1, <2>3, <3>1 DEF Due, IsNotice
    <3>3. PICK j \in DOMAIN Mail(m) : IsWelcome(Mail(m)[j], s.message.group)
      BY <3>1, <3>2 DEF MembersWelcomed, Welcomed
    <3>4. j \in 1..(i - 1)
      BY <1>2, <2>3
    <3> QED
      BY <1>2, <2>3, <3>3, <3>4
  <2> QED
    BY <1>2, <2>1, <2>2, <2>3
<1>8. WelcomeComesFirst'
  BY <1>7 DEF WelcomeComesFirst
<1> QED
  BY <1>6, <1>8

-----------------------------------------------------------------------------
(* Requests and their answers. *)

\* AnswersInOrder, without that no request is passed over.
AnswersSound ==
    \A m \in Members : \A i \in Answers(m) :
        /\ Mail(m)[i].number \in Asked(m)
        /\ IsAnswerTo(Mail(m)[i], requested[Mail(m)[i].number])
        /\ \A j \in Answers(m) : j < i => Mail(m)[j].number < Mail(m)[i].number

LEMMA InOrderIsSound == AnswersInOrder => AnswersSound
BY DEF AnswersInOrder, AnswersSound

\* What is passed over would be at a place that holds only later ones.
LEMMA SoundIsInOrder == TypeOK /\ RequestsInTurn /\ AnswersSound => AnswersInOrder
<1> SUFFICES ASSUME TypeOK, RequestsInTurn, AnswersSound,
                    NEW m \in Members, NEW i \in Answers(m),
                    NEW n \in Asked(m), n < Mail(m)[i].number
             PROVE  \E j \in Answers(m) : j < i /\ Mail(m)[j].number = n
  BY DEF AnswersInOrder, AnswersSound
<1>1. DOMAIN requested \subseteq Nat /\ DOMAIN Mail(m) \subseteq Nat
  <2>1. DOMAIN requested = 1..Len(requested) /\ Len(requested) \in Nat
    BY LenProperties DEF TypeOK
  <2>2. Mail(m) \in Seq(Messages)
    BY MailType
  <2>3. DOMAIN Mail(m) = 1..Len(Mail(m)) /\ Len(Mail(m)) \in Nat
    BY <2>2, LenProperties
  <2> QED
    BY <2>1, <2>3
<1>2. /\ n \in Nat /\ i \in Nat /\ Mail(m)[i].number \in Nat
      /\ \A j \in Answers(m) : j \in Nat
  BY <1>1 DEF Asked, Answers, AnswersSound
<1>3. Mail(m)[i].number \in InMail(m)
  BY DEF InMail
<1>4. n \notin InCallback(m) /\ n \notin InInbox(m) /\ n \notin Leaving(m)
  <2>1. ASSUME n \in InCallback(m) \cup InInbox(m) \cup Leaving(m)
        PROVE  Mail(m)[i].number < n
    BY <1>3, <2>1 DEF RequestsInTurn
  <2> QED
    BY <1>2, <2>1
<1>5. PICK j \in Answers(m) : Mail(m)[j].number = n
  BY <1>4 DEF RequestsInTurn, InMail
<1>6. ~(i < j) /\ i # j
  <2>1. ASSUME i < j
        PROVE  Mail(m)[i].number < n
    BY <1>5, <2>1 DEF AnswersSound
  <2> QED
    BY <1>2, <1>5, <2>1
<1> QED
  BY <1>2, <1>5, <1>6

\* The numbers at all places are of requests made so far.
LEMMA NumbersKnown ==
  ASSUME TypeOK, RequestsNumbered, AnswersAreDue, AnswersSound, NEW m \in Members
  PROVE  /\ InMail(m) \cup InCallback(m) \cup InInbox(m) \cup Leaving(m) \subseteq DOMAIN requested
         /\ Len(requested) \in Nat /\ DOMAIN requested = 1..Len(requested)
<1>1. Len(requested) \in Nat /\ DOMAIN requested = 1..Len(requested)
  BY LenProperties DEF TypeOK
<1>2. InMail(m) \subseteq DOMAIN requested
  BY DEF InMail, AnswersSound, Asked
<1>3. InCallback(m) \subseteq DOMAIN requested
  BY DEF InCallback, AnswersAreDue, Asked
<1>4. InInbox(m) \subseteq DOMAIN requested
  BY DEF InInbox, RequestsNumbered, IsRequest
<1>5. Leaving(m) \subseteq DOMAIN requested
  <2>1. outgoing[m] \in Seq(Requests) /\ Len(outgoing[m]) <= 1
    BY DEF TypeOK
  <2>2. DOMAIN outgoing[m] = 1..Len(outgoing[m]) /\ Len(outgoing[m]) \in Nat
    BY <2>1, LenProperties
  <2>3. \A i \in DOMAIN outgoing[m] : i = 1 /\ outgoing[m] # <<>>
    BY <2>1, <2>2
  <2> QED
    BY <2>3 DEF Leaving, RequestsNumbered, IsRequest
<1> QED
  BY <1>1, <1>2, <1>3, <1>4, <1>5

LEMMA TurnsStay ==
  ASSUME RequestsNumbered, RequestsInTurn, AnswersAreDue, AnswersSound,
         \A m \in Members : Mail(m)' = Mail(m), UNCHANGED <<sending, inbox, outgoing, requested>>
  PROVE  RequestsNumbered' /\ RequestsInTurn' /\ AnswersAreDue' /\ AnswersSound'
<1>1. ASSUME NEW m \in Members
      PROVE  /\ Answers(m)' = Answers(m) /\ Asked(m)' = Asked(m) /\ InMail(m)' = InMail(m)
             /\ InCallback(m)' = InCallback(m) /\ InInbox(m)' = InInbox(m)
             /\ Leaving(m)' = Leaving(m)
  <2>1. Answers(m)' = Answers(m) /\ Asked(m)' = Asked(m)
    BY DEF Answers, Asked
  <2> QED
    BY <2>1 DEF InMail, InCallback, InInbox, Leaving
<1>2. RequestsNumbered'
  BY DEF RequestsNumbered, IsRequest
<1>3. RequestsInTurn'
  BY <1>1 DEF RequestsInTurn
<1>4. AnswersAreDue'
  BY <1>1 DEF AnswersAreDue, IsAnswerTo
<1>5. AnswersSound'
  BY <1>1 DEF AnswersSound, IsAnswerTo
<1> QED
  BY <1>2, <1>3, <1>4, <1>5

\* A new request gets a number after all others.
LEMMA RequestTurns ==
  ASSUME TypeOK, RequestsNumbered, RequestsInTurn, AnswersAreDue, AnswersSound,
         NEW m \in Members, NEW content \in Contents, Request(m, content)
  PROVE  RequestsNumbered' /\ RequestsInTurn' /\ AnswersAreDue' /\ AnswersSound'
<1> SUFFICES ASSUME NEW n, n = Len(requested) + 1,
                    NEW q, q = [from |-> m, content |-> content, number |-> n]
             PROVE  RequestsNumbered' /\ RequestsInTurn' /\ AnswersAreDue' /\ AnswersSound'
  OBVIOUS
<1>1. /\ q \in Requests /\ q.from = m /\ q.number = n /\ q.content = content
      /\ requested' = Append(requested, q) /\ requested \in Seq(Requests)
      /\ outgoing[m] = <<>> /\ outgoing' = [outgoing EXCEPT ![m] = <<q>>]
      /\ UNCHANGED <<sending, inbox>>
  BY DEF TypeOK, Request, Requests
<1>2. \A l \in Members : Mail(l)' = Mail(l)
  BY OthersMail DEF Request
<1>3. /\ Len(requested) \in Nat /\ DOMAIN requested = 1..Len(requested)
      /\ n \notin DOMAIN requested /\ DOMAIN requested' = DOMAIN requested \cup {n}
      /\ requested'[n] = q
      /\ \A i \in DOMAIN requested : requested'[i] = requested[i] /\ i < n
  BY <1>1, AppendFacts
<1>4. outgoing'[m] = <<q>> /\ \A l \in Members \ {m} : outgoing'[l] = outgoing[l]
  BY <1>1 DEF TypeOK
<1>5. RequestsNumbered'
  <2>1. \A i \in DOMAIN requested' : requested'[i].number = i
    BY <1>1, <1>3 DEF RequestsNumbered
  <2>2. \A x : IsRequest(x) \/ x = q => x.number \in DOMAIN requested' /\ requested'[x.number] = x
    BY <1>1, <1>3 DEF IsRequest
  <2>3. \A i \in DOMAIN inbox : IsRequest(inbox[i])
    BY DEF RequestsNumbered
  <2>4. ASSUME NEW l \in Members, outgoing'[l] # <<>>
        PROVE  outgoing'[l][1].from = l /\ (IsRequest(outgoing'[l][1]) \/ outgoing'[l][1] = q)
    <3>1. CASE l = m
      <4>1. outgoing'[l][1] = q
        BY <1>4, <3>1
      <4> QED
        BY <1>1, <3>1, <4>1
    <3>2. CASE l # m
      BY <1>4, <2>4, <3>2 DEF RequestsNumbered
    <3> QED
      BY <3>1, <3>2
  <2>5. \A i \in DOMAIN inbox' :
          inbox'[i].number \in DOMAIN requested' /\ requested'[inbox'[i].number] = inbox'[i]
    BY <1>1, <2>2, <2>3
  <2>6. \A l \in Members : outgoing'[l] # <<>> =>
          /\ outgoing'[l][1].number \in DOMAIN requested'
          /\ requested'[outgoing'[l][1].number] = outgoing'[l][1] /\ outgoing'[l][1].from = l
    BY <2>2, <2>4
  <2> QED
    BY <2>1, <2>5, <2>6 DEF RequestsNumbered, IsRequest
<1>6. ASSUME NEW l \in Members
      PROVE  /\ Answers(l)' = Answers(l) /\ InMail(l)' = InMail(l)
             /\ InCallback(l)' = InCallback(l) /\ InInbox(l)' = InInbox(l)
             /\ Asked(l) \subseteq Asked(l)'
             /\ Asked(l)' \subseteq Asked(l) \cup Leaving(l)'
             /\ l # m => Leaving(l)' = Leaving(l) /\ Asked(l)' = Asked(l)
             /\ l = m => Leaving(l)' = {n} /\ Leaving(l) = {}
  <2>1. Answers(l)' = Answers(l)
    BY <1>2 DEF Answers
  <2>2. InMail(l)' = InMail(l) /\ InCallback(l)' = InCallback(l) /\ InInbox(l)' = InInbox(l)
    BY <1>1, <1>2, <2>1 DEF InMail, InCallback, InInbox
  <2>3. l # m => Leaving(l)' = Leaving(l) /\ Asked(l)' = Asked(l)
    BY <1>1, <1>3, <1>4 DEF Leaving, Asked
  <2>4. l = m => Leaving(l)' = {n} /\ Leaving(l) = {}
    <3>1. DOMAIN outgoing'[m] = {1} /\ outgoing'[m][1].number = n
      BY <1>1, <1>4
    <3>2. DOMAIN outgoing[m] = {}
      BY <1>1
    <3> QED
      BY <3>1, <3>2 DEF Leaving
  <2>5. Asked(l) \subseteq Asked(l)' /\ Asked(l)' \subseteq Asked(l) \cup {n}
    BY <1>3 DEF Asked
  <2> QED
    BY <2>1, <2>2, <2>3, <2>4, <2>5
<1>7. RequestsInTurn'
  <2>1. ASSUME NEW l \in Members
        PROVE  /\ Asked(l)' \subseteq InMail(l)' \cup InCallback(l)' \cup InInbox(l)' \cup Leaving(l)'
               /\ \A x \in InMail(l)', y \in InCallback(l)' : x < y
               /\ \A x \in InMail(l)' \cup InCallback(l)', y \in InInbox(l)' : x < y
               /\ \A x \in InMail(l)' \cup InCallback(l)' \cup InInbox(l)', y \in Leaving(l)' : x < y
    <3>1. Asked(l) \subseteq InMail(l) \cup InCallback(l) \cup InInbox(l) \cup Leaving(l)
      BY DEF RequestsInTurn
    <3>2. \A x \in InMail(l) \cup InCallback(l) \cup InInbox(l) : x < n
      BY <1>3, NumbersKnown
    <3>3. \A x \in InMail(l)' \cup InCallback(l)' \cup InInbox(l)', y \in Leaving(l)' : x < y
      BY <1>6, <3>2 DEF RequestsInTurn
    <3> QED
      BY <1>6, <3>1, <3>3 DEF RequestsInTurn
  <2> QED
    BY <1>1, <2>1 DEF RequestsInTurn
<1>8. AnswersAreDue'
  <2>1. ASSUME NEW l \in Members, NEW i \in DOMAIN sending,
               sending[i].to = l, sending[i].message.kind # "Notice"
        PROVE  /\ sending[i].message.number \in Asked(l)'
               /\ IsAnswerTo(sending[i].message, requested'[sending[i].message.number])
    <3>1. /\ sending[i].message.number \in Asked(l)
          /\ IsAnswerTo(sending[i].message, requested[sending[i].message.number])
      BY <2>1 DEF AnswersAreDue
    <3> QED
      BY <1>3, <1>6, <3>1 DEF Asked
  <2> QED
    BY <1>1, <2>1 DEF AnswersAreDue, IsAnswerTo
<1>9. AnswersSound'
  <2>1. ASSUME NEW l \in Members, NEW i \in Answers(l)
        PROVE  /\ Mail(l)[i].number \in Asked(l)'
               /\ IsAnswerTo(Mail(l)[i], requested'[Mail(l)[i].number])
    <3>1. Mail(l)[i].number \in Asked(l) /\ IsAnswerTo(Mail(l)[i], requested[Mail(l)[i].number])
      BY DEF AnswersSound
    <3> QED
      BY <1>3, <1>6, <3>1 DEF Asked
  <2> QED
    BY <1>2, <1>6, <2>1 DEF AnswersSound, IsAnswerTo
<1> QED
  BY <1>5, <1>7, <1>8, <1>9

\* A request comes into the coordinator's outbox after all of that member's.
LEMMA EnqueueTurns ==
  ASSUME TypeOK, RequestsNumbered, RequestsInTurn, AnswersAreDue, AnswersSound,
         NEW m \in Members, Enqueue(m)
  PROVE  RequestsNumbered' /\ RequestsInTurn' /\ AnswersAreDue' /\ AnswersSound'
<1> SUFFICES ASSUME NEW q, q = Head(outgoing[m])
             PROVE  RequestsNumbered' /\ RequestsInTurn' /\ AnswersAreDue' /\ AnswersSound'
  OBVIOUS
<1>1. /\ outgoing[m] \in Seq(Requests) /\ outgoing[m] # <<>> /\ Len(outgoing[m]) <= 1
      /\ outgoing' = [outgoing EXCEPT ![m] = <<>>] /\ inbox' = Append(inbox, q)
      /\ inbox \in Seq(Requests)
      /\ UNCHANGED <<sending, requested>>
  BY DEF TypeOK, Enqueue
<1>2. /\ q \in Requests /\ q = outgoing[m][1] /\ DOMAIN outgoing[m] = {1}
  <2>1. Len(outgoing[m]) \in Nat \ {0} /\ DOMAIN outgoing[m] = 1..Len(outgoing[m])
    BY <1>1, EmptySeq, LenProperties
  <2> QED
    BY <1>1, <2>1, TailFacts
<1>3. q.number \in DOMAIN requested /\ requested[q.number] = q /\ q.from = m
  BY <1>1, <1>2 DEF RequestsNumbered, IsRequest
<1>4. \A l \in Members : Mail(l)' = Mail(l)
  BY OthersMail DEF Enqueue
<1>5. /\ Len(inbox) \in Nat /\ DOMAIN inbox = 1..Len(inbox)
      /\ DOMAIN inbox' = DOMAIN inbox \cup {Len(inbox) + 1} /\ Len(inbox) + 1 \notin DOMAIN inbox
      /\ inbox'[Len(inbox) + 1] = q
      /\ \A i \in DOMAIN inbox : inbox'[i] = inbox[i] /\ i < Len(inbox) + 1
  BY <1>1, <1>2, AppendFacts
<1>6. outgoing'[m] = <<>> /\ \A l \in Members \ {m} : outgoing'[l] = outgoing[l]
  BY <1>1 DEF TypeOK
<1>7. RequestsNumbered'
  BY <1>1, <1>3, <1>5, <1>6 DEF RequestsNumbered, IsRequest
<1>8. ASSUME NEW l \in Members
      PROVE  /\ Answers(l)' = Answers(l) /\ InMail(l)' = InMail(l) /\ Asked(l)' = Asked(l)
             /\ InCallback(l)' = InCallback(l)
             /\ l # m => InInbox(l)' = InInbox(l) /\ Leaving(l)' = Leaving(l)
             /\ l = m => /\ InInbox(l)' = InInbox(l) \cup {q.number}
                         /\ Leaving(l) = {q.number} /\ Leaving(l)' = {}
  <2>1. Answers(l)' = Answers(l) /\ Asked(l)' = Asked(l)
    BY <1>1, <1>4 DEF Answers, Asked
  <2>2. InMail(l)' = InMail(l) /\ InCallback(l)' = InCallback(l)
    BY <1>1, <1>4, <2>1 DEF InMail, InCallback
  <2>3. ASSUME l # m
        PROVE  InInbox(l)' = InInbox(l) /\ Leaving(l)' = Leaving(l)
    <3>1. {k \in DOMAIN inbox' : inbox'[k].from = l} = {k \in DOMAIN inbox : inbox[k].from = l}
      BY <1>3, <1>5, <2>3
    <3>2. \A k \in DOMAIN inbox : inbox'[k] = inbox[k]
      BY <1>5
    <3> QED
      BY <1>6, <2>3, <3>1, <3>2 DEF InInbox, Leaving
  <2>4. ASSUME l = m
        PROVE  InInbox(l)' = InInbox(l) \cup {q.number}
    <3>1. {k \in DOMAIN inbox' : inbox'[k].from = l}
            = {k \in DOMAIN inbox : inbox[k].from = l} \cup {Len(inbox) + 1}
      BY <1>3, <1>5, <2>4
    <3> QED
      BY <1>5, <3>1 DEF InInbox
  <2>5. l = m => Leaving(l) = {q.number} /\ Leaving(l)' = {}
    <3>1. DOMAIN outgoing'[m] = {}
      BY <1>6
    <3> QED
      BY <1>2, <3>1 DEF Leaving
  <2> QED
    BY <2>1, <2>2, <2>3, <2>4, <2>5
<1>9. RequestsInTurn'
  <2>1. ASSUME NEW l \in Members
        PROVE  /\ Asked(l)' \subseteq InMail(l)' \cup InCallback(l)' \cup InInbox(l)' \cup Leaving(l)'
               /\ \A x \in InMail(l)', y \in InCallback(l)' : x < y
               /\ \A x \in InMail(l)' \cup InCallback(l)', y \in InInbox(l)' : x < y
               /\ \A x \in InMail(l)' \cup InCallback(l)' \cup InInbox(l)', y \in Leaving(l)' : x < y
    BY <1>8 DEF RequestsInTurn
  <2>2. ASSUME NEW l \in Members, NEW i \in DOMAIN inbox', NEW j \in DOMAIN inbox',
               i < j, inbox'[i].from = l, inbox'[j].from = l
        PROVE  inbox'[i].number < inbox'[j].number
    <3>1. i \in DOMAIN inbox
      BY <1>5, <2>2
    <3>2. CASE j \in DOMAIN inbox
      BY <1>5, <2>2, <3>1, <3>2 DEF RequestsInTurn
    <3>3. CASE j = Len(inbox) + 1
      <4>1. l = m /\ inbox'[j].number = q.number
        BY <1>3, <1>5, <2>2, <3>3
      <4>2. inbox'[i].number \in InInbox(m)
        BY <1>5, <2>2, <3>1, <4>1 DEF InInbox
      <4>3. q.number \in Leaving(m)
        BY <1>8
      <4> QED
        BY <4>1, <4>2, <4>3 DEF RequestsInTurn
    <3> QED
      BY <1>5, <3>2, <3>3
  <2> QED
    BY <2>1, <2>2 DEF RequestsInTurn
<1>10. AnswersAreDue'
  BY <1>1, <1>8 DEF AnswersAreDue, IsAnswerTo
<1>11. AnswersSound'
  BY <1>1, <1>4, <1>8 DEF AnswersSound, IsAnswerTo
<1> QED
  BY <1>7, <1>9, <1>10, <1>11

\* The first request in the outbox is the first of its member's there.
LEMMA HandleTurns ==
  ASSUME TypeOK, OneCallback, RequestsNumbered, RequestsInTurn, AnswersAreDue, AnswersSound, Handle
  PROVE  RequestsNumbered' /\ RequestsInTurn' /\ AnswersAreDue' /\ AnswersSound'
<1> SUFFICES ASSUME NEW r, r = Head(inbox)
             PROVE  RequestsNumbered' /\ RequestsInTurn' /\ AnswersAreDue' /\ AnswersSound'
  OBVIOUS
<1>1. /\ sending = <<>> /\ inbox \in Seq(Requests) /\ inbox # <<>> /\ inbox' = Tail(inbox)
      /\ UNCHANGED <<outgoing, requested>>
  BY DEF TypeOK, Handle, network
<1>2. /\ r = inbox[1] /\ r \in Requests /\ 1 \in DOMAIN inbox
      /\ \A i \in DOMAIN inbox' : i + 1 \in DOMAIN inbox \ {1} /\ inbox'[i] = inbox[i + 1]
      /\ \A i \in DOMAIN inbox \ {1} : i - 1 \in DOMAIN inbox' /\ inbox'[i - 1] = inbox[i]
      /\ DOMAIN inbox \subseteq Nat /\ DOMAIN inbox' \subseteq Nat
      /\ \A i \in DOMAIN inbox : 1 <= i
  BY <1>1, TailFacts
<1>3. \A l \in Members : Mail(l)' = Mail(l)
  BY OthersMail DEF Handle, network
<1>4. /\ r.number \in DOMAIN requested /\ requested[r.number] = r /\ r.from \in Members
  BY <1>2 DEF RequestsNumbered, IsRequest, Requests
<1>5. RequestsNumbered'
  BY <1>1, <1>2 DEF RequestsNumbered, IsRequest
<1>6. AnswersSound'
  <2>1. \A l \in Members : Answers(l)' = Answers(l) /\ Asked(l)' = Asked(l)
    BY <1>1, <1>3 DEF Answers, Asked
  <2> QED
    BY <1>1, <1>3, <2>1 DEF AnswersSound, IsAnswerTo
<1>7. ASSUME NEW l \in Members
      PROVE  /\ InMail(l)' = InMail(l) /\ Asked(l)' = Asked(l) /\ Leaving(l)' = Leaving(l)
             /\ InCallback(l) = {}
             /\ InInbox(l)' \subseteq InInbox(l)
             /\ InInbox(l) \subseteq InInbox(l)' \cup {r.number}
             /\ l # r.from => InInbox(l) \subseteq InInbox(l)'
             /\ l = r.from => /\ r.number \in InInbox(l)
                              /\ \A x \in InInbox(l)' : r.number < x
  <2>1. Answers(l)' = Answers(l) /\ Asked(l)' = Asked(l) /\ Leaving(l)' = Leaving(l)
    BY <1>1, <1>3 DEF Answers, Asked, Leaving
  <2>2. InMail(l)' = InMail(l) /\ InCallback(l) = {}
    BY <1>1, <1>3, <2>1 DEF InMail, InCallback
  <2>3. ASSUME NEW x \in InInbox(l)'
        PROVE  x \in InInbox(l) /\ (l = r.from => r.number < x)
    <3>1. PICK i \in DOMAIN inbox' : inbox'[i].from = l /\ x = inbox'[i].number
      BY <2>3 DEF InInbox
    <3>2. /\ i + 1 \in DOMAIN inbox \ {1} /\ inbox[i + 1].from = l /\ x = inbox[i + 1].number
          /\ 1 < i + 1
      <4>1. i + 1 \in DOMAIN inbox \ {1} /\ inbox'[i] = inbox[i + 1] /\ i \in Nat
        BY <1>2
      <4>2. 1 < i + 1
        BY <1>2, <4>1
      <4> QED
        BY <3>1, <4>1, <4>2
    <3> QED
      BY <1>2, <3>2 DEF InInbox, RequestsInTurn
  <2>4. ASSUME NEW x \in InInbox(l)
        PROVE  x \in InInbox(l)' \/ (x = r.number /\ l = r.from)
    <3>1. PICK i \in DOMAIN inbox : inbox[i].from = l /\ x = inbox[i].number
      BY <2>4 DEF InInbox
    <3>2. CASE i = 1
      BY <1>2, <3>1, <3>2
    <3>3. CASE i # 1
      <4>1. i - 1 \in DOMAIN inbox' /\ inbox'[i - 1] = inbox[i]
        BY <1>2, <3>3
      <4> QED
        BY <3>1, <4>1 DEF InInbox
    <3> QED
      BY <3>2, <3>3
  <2>5. l = r.from => r.number \in InInbox(l)
    BY <1>2 DEF InInbox
  <2> QED
    BY <2>1, <2>2, <2>3, <2>4, <2>5
<1>8. ASSUME NEW l \in Members, NEW i \in DOMAIN inbox', NEW j \in DOMAIN inbox',
             i < j, inbox'[i].from = l, inbox'[j].from = l
      PROVE  inbox'[i].number < inbox'[j].number
  <2>1. /\ i + 1 \in DOMAIN inbox /\ j + 1 \in DOMAIN inbox /\ i + 1 < j + 1
        /\ inbox'[i] = inbox[i + 1] /\ inbox'[j] = inbox[j + 1]
    BY <1>2, <1>8
  <2> QED
    BY <1>8, <2>1 DEF RequestsInTurn
<1>9. ASSUME \A l \in Members : InCallback(l)' \subseteq IF l = r.from THEN {r.number} ELSE {},
             r.number \in Asked(r.from) => r.number \in InCallback(r.from)'
      PROVE  RequestsInTurn'
  <2>1. ASSUME NEW l \in Members
        PROVE  /\ Asked(l)' \subseteq InMail(l)' \cup InCallback(l)' \cup InInbox(l)' \cup Leaving(l)'
               /\ \A x \in InMail(l)', y \in InCallback(l)' : x < y
               /\ \A x \in InMail(l)' \cup InCallback(l)', y \in InInbox(l)' : x < y
               /\ \A x \in InMail(l)' \cup InCallback(l)' \cup InInbox(l)', y \in Leaving(l)' : x < y
    <3>1. /\ Asked(l) \subseteq InMail(l) \cup InCallback(l) \cup InInbox(l) \cup Leaving(l)
          /\ \A x \in InMail(l), y \in InInbox(l) : x < y
          /\ \A x \in InMail(l) \cup InInbox(l), y \in Leaving(l) : x < y
      BY DEF RequestsInTurn
    <3>2. CASE l = r.from
      BY <1>7, <1>9, <3>1, <3>2
    <3>3. CASE l # r.from
      BY <1>7, <1>9, <3>1, <3>3
    <3> QED
      BY <3>2, <3>3
  <2> QED
    BY <1>8, <2>1 DEF RequestsInTurn
<1>10. CASE r.content # "other"
  <2>1. PICK a \in Messages : /\ sending' = <<To(r.from, a)>>
                              /\ IsAnswerTo(a, r) /\ a.kind # "Notice" /\ a.number = r.number
    BY <1>10, HandleAnswers
  <2>2. DOMAIN sending' = {1} /\ sending'[1].to = r.from /\ sending'[1].message = a
    BY <2>1 DEF To
  <2>3. \A l \in Members : InCallback(l)' = IF l = r.from THEN {r.number} ELSE {}
    BY <2>1, <2>2 DEF InCallback
  <2>4. RequestsInTurn'
    BY <1>4, <1>9, <2>3
  <2>5. AnswersAreDue'
    <3>1. r.number \in Asked(r.from) /\ Asked(r.from)' = Asked(r.from)
      BY <1>4, <1>7, <1>10 DEF Asked
    <3>2. IsAnswerTo(a, requested'[r.number])
      BY <1>1, <1>4, <2>1
    <3>3. ASSUME NEW i \in DOMAIN sending'
          PROVE  sending'[i].to = r.from /\ sending'[i].message = a
      BY <2>2
    <3> QED
      BY <2>1, <3>1, <3>2, <3>3 DEF AnswersAreDue
  <2> QED
    BY <1>5, <1>6, <2>4, <2>5
<1>11. CASE r.content = "other"
  <2>1. \A i \in DOMAIN sending' : sending'[i].message.kind = "Notice"
    <3>1. CASE r.from \in members["CONTROL"]
      <4>1. \A i \in DOMAIN sending' : \E g \in {"NOTES", "PRESENT"} :
              sending'[i].message = Notice(g, commands')
        BY <1>11, <3>1, HandleCommands
      <4> QED
        BY <4>1 DEF Notice
    <3>2. CASE r.from \notin members["CONTROL"]
      BY <1>1, <1>11, <3>2, HandleIgnores
    <3> QED
      BY <3>1, <3>2
  <2>2. \A l \in Members : InCallback(l)' = {}
    BY <2>1 DEF InCallback
  <2>3. r.number \notin Asked(r.from)
    BY <1>4, <1>11 DEF Asked
  <2>4. RequestsInTurn'
    BY <1>9, <2>2, <2>3
  <2>5. AnswersAreDue'
    BY <2>1 DEF AnswersAreDue
  <2> QED
    BY <1>5, <1>6, <2>4, <2>5
<1> QED
  BY <1>10, <1>11

\* An answer comes into its member's mail.
LEMMA SendNextTurns ==
  ASSUME TypeOK, OneCallback, RequestsNumbered, RequestsInTurn, AnswersAreDue, AnswersSound, SendNext
  PROVE  RequestsNumbered' /\ RequestsInTurn' /\ AnswersAreDue' /\ AnswersSound'
<1> SUFFICES ASSUME NEW s, s = Head(sending)
             PROVE  RequestsNumbered' /\ RequestsInTurn' /\ AnswersAreDue' /\ AnswersSound'
  OBVIOUS
<1>1. /\ s \in [to: Members, message: Messages] /\ s = sending[1] /\ 1 \in DOMAIN sending
      /\ \A i \in DOMAIN sending' : i + 1 \in DOMAIN sending \ {1} /\ sending'[i] = sending[i + 1]
      /\ \A i \in DOMAIN sending \ {1} : i - 1 \in DOMAIN sending' /\ sending'[i - 1] = sending[i]
      /\ \A l \in Members \ {s.to} : Mail(l)' = Mail(l)
      /\ UNCHANGED <<inbox, outgoing, requested>>
  BY SendNextFacts DEF SendNext
<1>2. /\ Len(Mail(s.to)) \in Nat /\ DOMAIN Mail(s.to) = 1..Len(Mail(s.to))
      /\ DOMAIN Mail(s.to)' = DOMAIN Mail(s.to) \cup {Len(Mail(s.to)) + 1}
      /\ Len(Mail(s.to)) + 1 \notin DOMAIN Mail(s.to)
      /\ Mail(s.to)'[Len(Mail(s.to)) + 1] = s.message
      /\ \A i \in DOMAIN Mail(s.to) : Mail(s.to)'[i] = Mail(s.to)[i] /\ i < Len(Mail(s.to)) + 1
  BY SendNextFacts
<1>3. RequestsNumbered'
  BY <1>1 DEF RequestsNumbered, IsRequest
<1>4. \A l \in Members : Asked(l)' = Asked(l) /\ InInbox(l)' = InInbox(l) /\ Leaving(l)' = Leaving(l)
  BY <1>1 DEF Asked, InInbox, Leaving
<1>5. \A i \in DOMAIN sending' : sending'[i].message.kind = "Notice"
  BY <1>1 DEF OneCallback
<1>6. AnswersAreDue' /\ \A l \in Members : InCallback(l)' = {}
  BY <1>5 DEF AnswersAreDue, InCallback
<1>7. \A l \in Members \ {s.to} : Answers(l)' = Answers(l) /\ InMail(l)' = InMail(l)
  <2>1. \A l \in Members \ {s.to} : Answers(l)' = Answers(l)
    BY <1>1 DEF Answers
  <2> QED
    BY <1>1, <2>1 DEF InMail
<1>8. \A i \in Answers(s.to) : Mail(s.to)'[i] = Mail(s.to)[i] /\ i \in DOMAIN Mail(s.to)
                               /\ i < Len(Mail(s.to)) + 1
  BY <1>2 DEF Answers
<1>9. CASE s.message.kind = "Notice"
  <2>1. Answers(s.to)' = Answers(s.to)
    BY <1>2, <1>9 DEF Answers
  <2>2. InMail(s.to)' = InMail(s.to)
    BY <1>8, <2>1 DEF InMail
  <2>3. \A i \in DOMAIN sending : sending[i].message.kind = "Notice"
    BY <1>1, <1>9 DEF OneCallback
  <2>4. \A l \in Members : InCallback(l) = {}
    BY <2>3 DEF InCallback
  <2>5. RequestsInTurn'
    BY <1>1, <1>4, <1>6, <1>7, <2>2, <2>4 DEF RequestsInTurn
  <2>6. ASSUME NEW l \in Members, NEW i \in Answers(l)'
        PROVE  /\ Mail(l)'[i].number \in Asked(l)'
               /\ IsAnswerTo(Mail(l)'[i], requested'[Mail(l)'[i].number])
               /\ \A j \in Answers(l)' : j < i => Mail(l)'[j].number < Mail(l)'[i].number
    BY <1>1, <1>4, <1>7, <1>8, <2>1 DEF AnswersSound
  <2> QED
    BY <1>3, <1>6, <2>5, <2>6 DEF AnswersSound, IsAnswerTo
<1>10. CASE s.message.kind # "Notice"
  <2>1. DOMAIN sending = {1}
    BY <1>1, <1>10 DEF OneCallback
  <2>2. /\ s.message.number \in Asked(s.to)
        /\ IsAnswerTo(s.message, requested[s.message.number])
    BY <1>1, <1>10 DEF AnswersAreDue
  <2>3. \A l \in Members : InCallback(l) = IF l = s.to THEN {s.message.number} ELSE {}
    BY <1>1, <1>10, <2>1 DEF InCallback
  <2>4. Answers(s.to)' = Answers(s.to) \cup {Len(Mail(s.to)) + 1}
    BY <1>2, <1>10 DEF Answers
  <2>5. InMail(s.to)' = InMail(s.to) \cup {s.message.number}
    BY <1>2, <1>8, <2>4 DEF InMail
  <2>6. RequestsInTurn'
    <3>1. ASSUME NEW l \in Members
          PROVE  /\ Asked(l)' \subseteq InMail(l)' \cup InCallback(l)' \cup InInbox(l)' \cup Leaving(l)'
                 /\ \A x \in InMail(l)', y \in InCallback(l)' : x < y
                 /\ \A x \in InMail(l)' \cup InCallback(l)', y \in InInbox(l)' : x < y
                 /\ \A x \in InMail(l)' \cup InCallback(l)' \cup InInbox(l)', y \in Leaving(l)' : x < y
      <4>1. InMail(l)' \cup InCallback(l)' = InMail(l) \cup InCallback(l) /\ InCallback(l)' = {}
        BY <1>6, <1>7, <2>3, <2>5
      <4>2. /\ Asked(l) \subseteq InMail(l) \cup InCallback(l) \cup InInbox(l) \cup Leaving(l)
            /\ \A x \in InMail(l) \cup InCallback(l), y \in InInbox(l) : x < y
            /\ \A x \in InMail(l) \cup InCallback(l) \cup InInbox(l), y \in Leaving(l) : x < y
        BY DEF RequestsInTurn
      <4> QED
        BY <1>4, <4>1, <4>2
    <3> QED
      BY <1>1, <3>1 DEF RequestsInTurn
  <2>7. ASSUME NEW l \in Members, NEW i \in Answers(l)'
        PROVE  /\ Mail(l)'[i].number \in Asked(l)'
               /\ IsAnswerTo(Mail(l)'[i], requested'[Mail(l)'[i].number])
               /\ \A j \in Answers(l)' : j < i => Mail(l)'[j].number < Mail(l)'[i].number
    <3>1. CASE l # s.to
      BY <1>1, <1>4, <1>7, <3>1 DEF AnswersSound
    <3>2. CASE l = s.to /\ i = Len(Mail(l)) + 1
      <4>a. \A x \in InMail(l) : x < s.message.number
        BY <2>3, <3>2 DEF RequestsInTurn
      <4>1. \A j \in Answers(l) : Mail(l)[j].number < s.message.number
        BY <4>a DEF InMail
      <4> QED
        BY <1>1, <1>2, <1>4, <1>8, <2>2, <2>4, <3>2, <4>1
    <3>3. CASE l = s.to /\ i \in Answers(l)
      <4>1. \A j \in Answers(l)' : j < i => j \in Answers(l)
        <5>1. i \in Nat /\ i < Len(Mail(l)) + 1 /\ Len(Mail(l)) \in Nat
          BY <1>2, <1>8, <3>3
        <5> QED
          BY <2>4, <3>3, <5>1
      <4> QED
        BY <1>1, <1>4, <1>8, <3>3, <4>1 DEF AnswersSound
    <3> QED
      BY <2>4, <3>1, <3>2, <3>3
  <2> QED
    BY <1>3, <1>6, <2>6, <2>7 DEF AnswersSound, IsAnswerTo
<1> QED
  BY <1>9, <1>10

-----------------------------------------------------------------------------
(* CoordinatorInv is inductive. *)

LEMMA InitInv == Init => CoordinatorInv
<1> SUFFICES ASSUME Init
             PROVE  CoordinatorInv
  OBVIOUS
<1>1. TypeOK /\ OneCallback
  BY InitTypes
<1>2. /\ DOMAIN sending = {} /\ DOMAIN inbox = {} /\ DOMAIN requested = {}
      /\ \A m \in Members : DOMAIN outgoing[m] = {} /\ outgoing[m] = <<>>
      /\ \A g \in Groups : members[g] = {}
  BY DEF Init, Empty
<1>3. \A m \in Members : DOMAIN Mail(m) = {}
  <2>1. \A m \in Members : Mail(m) = (<<>> \o <<>>) \o <<>>
    BY DEF Init, Empty, Mail
  <2>2. <<>> \o <<>> = <<>>
    OBVIOUS
  <2> QED
    BY <2>1, <2>2
<1>4. CommandsReachGroups
  BY <1>2, <1>3 DEF CommandsReachGroups, Heard, Due, Groups
<1>5. RequestsNumbered /\ AnswersAreDue
  BY <1>2 DEF RequestsNumbered, AnswersAreDue
<1>6. RequestsInTurn
  BY <1>2, <1>3 DEF RequestsInTurn, Asked, InMail, Answers, InCallback, InInbox, Leaving
<1>7. AnswersInOrder
  BY <1>3 DEF AnswersInOrder, Answers
<1>8. MembersWelcomed /\ WelcomeComesFirst
  BY <1>2, <1>3 DEF MembersWelcomed, WelcomeComesFirst, Due
<1> QED
  BY <1>1, <1>4, <1>5, <1>6, <1>7, <1>8 DEF CoordinatorInv

\* What the actions change, part by part.
LEMMA TypesStep ==
  ASSUME TypeOK, OneCallback, [Next]_vars
  PROVE  TypeOK' /\ OneCallback'
<1>1. ASSUME TypeOK', UNCHANGED <<members, sending, commands, since>>
      PROVE  TypeOK' /\ OneCallback'
  BY <1>1 DEF OneCallback
<1>2. ASSUME NEW m \in Members, NEW content \in Contents, Request(m, content)
      PROVE  TypeOK' /\ OneCallback'
  BY <1>1, <1>2, RequestTypes DEF Request
<1>3. ASSUME NEW m \in Members, Enqueue(m) \/ Take(m) \/ Written(m)
      PROVE  TypeOK' /\ OneCallback'
  BY <1>1, <1>3, EnqueueTypes, TakeTypes, WrittenTypes DEF Enqueue, Take, Written
<1>4. ASSUME NEW m \in Members, Stall(m)
      PROVE  TypeOK' /\ OneCallback'
  BY <1>1, <1>4 DEF Stall, TypeOK
<1>5. CASE Coordinate \/ UNCHANGED vars
  BY <1>1, <1>5 DEF Coordinate, vars, network, TypeOK
<1> QED
  BY <1>2, <1>3, <1>4, <1>5, HandleTypes, SendNextTypes DEF Next, CoordinatorStep

\* The steps in which the coordinator does nothing.
LEMMA MembersMail ==
  ASSUME TypeOK, [Next]_vars, ~Handle, ~SendNext
  PROVE  /\ \A m \in Members : Mail(m)' = Mail(m)
         /\ UNCHANGED <<sending, members, commands, since>>
<1>1. ASSUME NEW m \in Members, Take(m) \/ Written(m)
      PROVE  /\ \A n \in Members : Mail(n)' = Mail(n)
             /\ UNCHANGED <<sending, members, commands, since>>
  BY <1>1, TakeMail, WrittenMail DEF Take, Written
<1>2. ASSUME NEW m \in Members, Enqueue(m) \/ Stall(m) \/ \E content \in Contents : Request(m, content)
      PROVE  /\ \A n \in Members : Mail(n)' = Mail(n)
             /\ UNCHANGED <<sending, members, commands, since>>
  BY <1>2, OthersMail DEF Enqueue, Stall, Request
<1>3. CASE Coordinate \/ UNCHANGED vars
  BY <1>3, OthersMail DEF Coordinate, vars, network
<1> QED
  BY <1>1, <1>2, <1>3 DEF Next, CoordinatorStep

LEMMA CommandsStep ==
  ASSUME TypeOK, OneCallback, CommandsReachGroups, [Next]_vars
  PROVE  CommandsReachGroups'
BY MembersMail, CommandsStay, HandleReaches, SendNextReaches

LEMMA WelcomesStep ==
  ASSUME TypeOK, OneCallback, MembersWelcomed, WelcomeComesFirst, [Next]_vars
  PROVE  MembersWelcomed' /\ WelcomeComesFirst'
BY MembersMail, WelcomesStay, HandleWelcomes, SendNextWelcomes

LEMMA TurnsStep ==
  ASSUME TypeOK, OneCallback, RequestsNumbered, RequestsInTurn, AnswersAreDue, AnswersSound,
         [Next]_vars
  PROVE  RequestsNumbered' /\ RequestsInTurn' /\ AnswersAreDue' /\ AnswersSound'
<1>1. CASE Handle \/ SendNext
  BY <1>1, HandleTurns, SendNextTurns
<1>2. ASSUME NEW m \in Members, Enqueue(m) \/ \E content \in Contents : Request(m, content)
      PROVE  RequestsNumbered' /\ RequestsInTurn' /\ AnswersAreDue' /\ AnswersSound'
  BY <1>2, EnqueueTurns, RequestTurns
<1>3. CASE /\ ~Handle /\ ~SendNext
           /\ \A m \in Members : ~Enqueue(m) /\ \A content \in Contents : ~Request(m, content)
  <2>1. UNCHANGED <<sending, inbox, outgoing, requested>>
    BY <1>3 DEF Next, CoordinatorStep, Take, Written, Stall, Coordinate, network, vars
  <2>2. \A m \in Members : Mail(m)' = Mail(m)
    BY <1>3, MembersMail
  <2> QED
    BY <2>1, <2>2, TurnsStay
<1> QED
  BY <1>1, <1>2, <1>3

LEMMA InvStep == CoordinatorInv /\ [Next]_vars => CoordinatorInv'
<1>1. CoordinatorInv /\ [Next]_vars =>
        /\ (TypeOK /\ OneCallback /\ CommandsReachGroups)'
        /\ (RequestsNumbered /\ RequestsInTurn /\ AnswersAreDue /\ AnswersSound)'
        /\ (MembersWelcomed /\ WelcomeComesFirst)'
  BY TypesStep, CommandsStep, TurnsStep, WelcomesStep, InOrderIsSound DEF CoordinatorInv
<1>2. TypeOK /\ RequestsInTurn /\ AnswersSound => AnswersInOrder
  BY SoundIsInOrder
<1>3. CoordinatorInv <=> /\ TypeOK /\ OneCallback /\ CommandsReachGroups
                         /\ RequestsNumbered /\ RequestsInTurn /\ AnswersAreDue /\ AnswersInOrder
                         /\ MembersWelcomed /\ WelcomeComesFirst
  BY DEF CoordinatorInv
<1> QED
  BY <1>1, <1>2, <1>3, PTL

THEOREM CoordinatorInvariant == Spec => []CoordinatorInv
BY InitInv, InvStep, PTL DEF Spec

\* The variables have their types, and no outbox holds more than its capacity.
THEOREM TypesAreKept == Spec => []TypeOK
<1>1. CoordinatorInv => TypeOK
  BY DEF CoordinatorInv
<1> QED
  BY <1>1, CoordinatorInvariant, PTL

(***************************************************************************)
(* For any members, capacity and number of requests, in whatever order the *)
(* map of a group is walked: each member of notes and present is told of   *)
(* each command since it joined, once and in order, and nobody else is.    *)
(***************************************************************************)
THEOREM CommandsReachTheirGroups == Spec => []CommandsReachGroups
<1>1. CoordinatorInv => CommandsReachGroups
  BY DEF CoordinatorInv
<1> QED
  BY <1>1, CoordinatorInvariant, PTL

\* A member's requests are answered in the order it made them, none passed over.
THEOREM RequestsAreAnsweredInTurn == Spec => []AnswersInOrder
<1>1. CoordinatorInv => AnswersInOrder
  BY DEF CoordinatorInv
<1> QED
  BY <1>1, CoordinatorInvariant, PTL

\* A member's first notice of a group comes after its Welcome there.
THEOREM MembersAreWelcomedFirst == Spec => []WelcomeComesFirst
<1>1. CoordinatorInv => WelcomeComesFirst
  BY DEF CoordinatorInv
<1> QED
  BY <1>1, CoordinatorInvariant, PTL

-----------------------------------------------------------------------------
(* Where nothing moves. *)

LEMMA CallbackHeldUp ==
    ASSUME TypeOK, AtRest, sending # <<>>
    PROVE  Head(sending).to \in stalled
<1> DEFINE m == Head(sending).to
<1>1. m \in Members
  <2>1. Head(sending) \in [to : Members, message : Messages]
    BY TailFacts DEF TypeOK
  <2> QED
    BY <2>1
<1>2. Len(outbox[m]) = Capacity /\ outbox[m] \in Seq(Messages)
  BY <1>1 DEF TypeOK, AtRest
<1>3. outbox[m] # <<>>
  BY <1>2, CoordinatorAssumption
<1> QED
  BY <1>1, <1>3 DEF AtRest

LEMMA NothingLeft ==
    ASSUME TypeOK, RequestsInTurn, AtRest, sending = <<>>, NEW m \in Members
    PROVE  outgoing[m] = <<>> /\ Answered(m)
<1>1. inbox = <<>>
  BY DEF AtRest
<1>2. outgoing[m] = <<>>
  BY <1>1, CoordinatorAssumption DEF AtRest
<1>3. InCallback(m) = {} /\ InInbox(m) = {} /\ Leaving(m) = {}
  BY <1>1, <1>2 DEF InCallback, InInbox, Leaving
<1>4. Asked(m) \subseteq InMail(m)
  BY <1>3 DEF RequestsInTurn
<1> QED
  BY <1>2, <1>4 DEF Answered, InMail

(***************************************************************************)
(* For any members, capacity and number of requests: the members and the   *)
(* coordinator never wait for each other.  Where no guard of theirs is     *)
(* met, every request was sent and answered, or the callback waits on the  *)
(* full outbox of a member whose socket accepts nothing.                   *)
(***************************************************************************)
THEOREM OnlyAStalledMemberHoldsUp == Spec => []RestsOnStalledMember
<1>1. TypeOK /\ AtRest /\ sending # <<>> => OnStalledMember
  BY CallbackHeldUp DEF OnStalledMember, AtRest
<1>2. TypeOK /\ RequestsInTurn /\ AtRest /\ sending = <<>> => OnStalledMember
  BY NothingLeft DEF OnStalledMember
<1>3. CoordinatorInv => RestsOnStalledMember
  BY <1>1, <1>2 DEF CoordinatorInv, RestsOnStalledMember
<1> QED
  BY <1>3, CoordinatorInvariant, PTL
=============================================================================
