----------------------------- MODULE Coordinator -----------------------------
(***************************************************************************)
(* core/actors/presentation/coordinator.go on the exchange: members send   *)
(* requests to the coordinator's outbox; the consumer of that outbox runs  *)
(* the coordinator's callback, which answers with Sends to the members'    *)
(* outboxes; each member's consumer writes to the member's socket.         *)
(* Outboxes are bounded and a Send to a full one waits, so the callback    *)
(* waits too.  A Send here finds its outbox: every member is connected     *)
(* before its first request, and outboxes are never removed.               *)
(***************************************************************************)
EXTENDS Naturals, Sequences, FiniteSets, SequencesExt

CONSTANTS
    Members,        \* ids of members that may send to the coordinator
    Capacity,       \* of an outbox: 10 in newOutBox
    MaxRequests     \* bound: requests sent by all members

ASSUME CoordinatorAssumption == Capacity \in Nat \ {0} /\ MaxRequests \in Nat

\* A request whose content is a group g is the code's JOIN_<g>.
Groups == {"NOTES", "PRESENT", "CONTROL"}

\* What Content is compared with.  Whatever else it may be is "other".
Contents == Groups \cup {"Actions", "other"}

\* The numbers are not in the code, and are there for the properties: that of
\* a request says which one it is of all, that of an answer which request it
\* answers, and that of a notice, whose text is always the same, which
\* command it tells of.
Requests == [from: Members, content: Contents, number: Nat]

\* What the coordinator sends.
Actions(n) == [kind |-> "Actions", number |-> n]
Welcome(g, n) == [kind |-> "Welcome", group |-> g, number |-> n]
Notice(g, n) == [kind |-> "Notice", group |-> g, number |-> n]
Messages == [kind: {"Actions"}, number: Nat]
                \cup [kind: {"Welcome"}, group: Groups, number: Nat]
                \cup [kind: {"Notice"}, group: {"NOTES", "PRESENT"}, number: Nat]

VARIABLES
    subscribed,     \* Coordinate has run
    inbox,          \* the coordinator's outbox
    members,        \* the ids of each group: notes, present, control
    sending,        \* what the running callback has still to Send, in order
    outgoing,       \* the request a member's connect goroutine is sending
    outbox,         \* the outbox of each member
    writing,        \* what a member's consumer writes to its socket
    stalled,        \* members whose sockets accept nothing any more
    requested,      \* history: the requests, in the order sent
    received,       \* history: what was written to each member's socket
    commands,       \* history: notified commands so far
    since           \* history: commands before the member joined the group

network == <<outgoing, outbox, writing, stalled>>
vars == <<subscribed, inbox, members, sending, network, requested, received, commands, since>>

TypeOK ==
    /\ subscribed \in BOOLEAN
    /\ inbox \in Seq(Requests) /\ Len(inbox) <= Capacity
    /\ members \in [Groups -> SUBSET Members]
    /\ sending \in Seq([to: Members, message: Messages])
    /\ outgoing \in [Members -> Seq(Requests)]
    /\ outbox \in [Members -> Seq(Messages)]
    /\ writing \in [Members -> Seq(Messages)]
    /\ \A m \in Members :
          Len(outgoing[m]) <= 1 /\ Len(writing[m]) <= 1 /\ Len(outbox[m]) <= Capacity
    /\ stalled \subseteq Members
    /\ requested \in Seq(Requests)
    /\ received \in [Members -> Seq(Messages)]
    /\ commands \in Nat
    /\ since \in [Groups -> [Members -> Nat]]

Empty == [m \in Members |-> <<>>]

Init ==
    /\ subscribed = FALSE /\ inbox = <<>> /\ sending = <<>>
    /\ members = [g \in Groups |-> {}]
    /\ outgoing = Empty /\ outbox = Empty /\ writing = Empty /\ stalled = {}
    /\ requested = <<>> /\ received = Empty
    /\ commands = 0
    /\ since = [g \in Groups |-> [m \in Members |-> 0]]

-----------------------------------------------------------------------------
(* Members. *)

\* A member's connect goroutine calls Send, one request at a time.
Request(m, content) ==
    /\ outgoing[m] = <<>>
    /\ Len(requested) < MaxRequests
    /\ LET request == [from |-> m, content |-> content, number |-> Len(requested) + 1] IN
          /\ outgoing' = [outgoing EXCEPT ![m] = <<request>>]
          /\ requested' = Append(requested, request)
    /\ UNCHANGED <<subscribed, inbox, members, sending, outbox, writing, stalled,
                   received, commands, since>>

\* The Send's write to the coordinator's outbox.
Enqueue(m) ==
    /\ outgoing[m] # <<>>
    /\ Len(inbox) < Capacity
    /\ inbox' = Append(inbox, Head(outgoing[m]))
    /\ outgoing' = [outgoing EXCEPT ![m] = <<>>]
    /\ UNCHANGED <<subscribed, members, sending, outbox, writing, stalled, requested,
                   received, commands, since>>

\* The consumer of the member's outbox takes a message, and writes it.
Take(m) ==
    /\ writing[m] = <<>> /\ outbox[m] # <<>>
    /\ writing' = [writing EXCEPT ![m] = <<Head(outbox[m])>>]
    /\ outbox' = [outbox EXCEPT ![m] = Tail(@)]
    /\ UNCHANGED <<subscribed, inbox, members, sending, outgoing, stalled, requested,
                   received, commands, since>>

Written(m) ==
    /\ m \notin stalled
    /\ writing[m] # <<>>
    /\ received' = [received EXCEPT ![m] = @ \o writing[m]]
    /\ writing' = [writing EXCEPT ![m] = <<>>]
    /\ UNCHANGED <<subscribed, inbox, members, sending, outgoing, outbox, stalled,
                   requested, commands, since>>

\* The client stops reading without closing the connection: no write to its
\* socket returns any more, since none has a deadline.
Stall(m) ==
    /\ m \notin stalled
    /\ stalled' = stalled \cup {m}
    /\ UNCHANGED <<subscribed, inbox, members, sending, outgoing, outbox, writing,
                   requested, received, commands, since>>

-----------------------------------------------------------------------------
(* Coordinate, and its callback. *)

Coordinate ==
    /\ ~subscribed
    /\ subscribed' = TRUE
    /\ UNCHANGED <<inbox, members, sending, network, requested, received, commands, since>>

To(m, message) == [to |-> m, message |-> message]

\* Mutant: who has been told as a member of notes is not told again.
AnnouncementsOnce(g, n) ==
    {[i \in DOMAIN ids |-> To(ids[i], Notice(g, n))] :
        ids \in SetToSeqs(members[g] \ (IF g = "PRESENT" THEN members["NOTES"] ELSE {}))}

\* messageAll: the ids come out of the map in any order.
Announcements(g, n) ==
    {[i \in DOMAIN ids |-> To(ids[i], Notice(g, n))] : ids \in SetToSeqs(members[g])}

\* Mutant: present is inserted into notes.
InsertIntoNotes(g, m) ==
    LET h == IF g = "PRESENT" THEN "NOTES" ELSE g IN
    /\ members' = [members EXCEPT ![h] = @ \cup {m}]
    /\ since' = [since EXCEPT ![h][m] = IF m \in members[h] THEN @ ELSE commands]

Insert(g, m) ==
    /\ members' = [members EXCEPT ![g] = @ \cup {m}]
    /\ since' = [since EXCEPT ![g][m] = IF m \in members[g] THEN @ ELSE commands]

Answer(request) ==
    LET m == request.from IN
    \/ /\ request.content = "Actions"
       /\ sending' = <<To(m, Actions(request.number))>>
       /\ UNCHANGED <<members, commands, since>>
    \/ /\ request.content \in Groups
       /\ Insert(request.content, m)
       /\ sending' = <<To(m, Welcome(request.content, request.number))>>
       /\ UNCHANGED commands
    \/ /\ request.content = "other" /\ m \in members["CONTROL"]
       /\ commands' = commands + 1
       /\ \E notes \in Announcements("NOTES", commands') :
             \E present \in Announcements("PRESENT", commands') :
                sending' = notes \o present
       /\ UNCHANGED <<members, since>>
    \/ /\ request.content = "other" /\ m \notin members["CONTROL"]
       /\ UNCHANGED <<members, sending, commands, since>>

\* The consumer takes the next request and calls the callback.
Handle ==
    /\ subscribed
    /\ sending = <<>>
    /\ inbox # <<>>
    /\ Answer(Head(inbox))
    /\ inbox' = Tail(inbox)
    /\ UNCHANGED <<subscribed, network, requested, received>>

\* Mutant: what finds an outbox full is dropped.
SendNextDrops ==
    /\ sending # <<>>
    /\ LET m == Head(sending).to IN
          outbox' = [outbox EXCEPT ![m] =
                        IF Len(@) < Capacity THEN Append(@, Head(sending).message) ELSE @]
    /\ sending' = Tail(sending)
    /\ UNCHANGED <<subscribed, inbox, members, outgoing, writing, stalled, requested,
                   received, commands, since>>

\* The callback's next Send, which waits while the member's outbox is full.
SendNext ==
    /\ sending # <<>>
    /\ LET m == Head(sending).to IN
          /\ Len(outbox[m]) < Capacity
          /\ outbox' = [outbox EXCEPT ![m] = Append(@, Head(sending).message)]
    /\ sending' = Tail(sending)
    /\ UNCHANGED <<subscribed, inbox, members, outgoing, writing, stalled, requested,
                   received, commands, since>>

MemberStep(m) == Enqueue(m) \/ Take(m) \/ Written(m)
CoordinatorStep == Coordinate \/ Handle \/ SendNext

Next ==
    \/ \E m \in Members :
          \/ \E content \in Contents : Request(m, content)
          \/ Enqueue(m) \/ Take(m) \/ Written(m) \/ Stall(m)
    \/ CoordinatorStep

Spec == Init /\ [][Next]_vars

-----------------------------------------------------------------------------
\* Everything the coordinator has sent m, in order.
Mail(m) == received[m] \o writing[m] \o outbox[m]

IsNotice(message, g) == message.kind = "Notice" /\ message.group = g

\* Where m's notices of a group are: in its mail, or what the running callback
\* will still send.
Heard(m, g) == {i \in DOMAIN Mail(m) : IsNotice(Mail(m)[i], g)}
Due(m, g) == {i \in DOMAIN sending : sending[i].to = m /\ IsNotice(sending[i].message, g)}

(***************************************************************************)
(* Every member of notes and of present is told of every command given     *)
(* since it joined, once per group, in the order in which the commands     *)
(* were given; nobody else is told.  So all members see one order of       *)
(* commands, whatever the order in which each map is walked, and joining a *)
(* group twice changes nothing.                                            *)
(***************************************************************************)
CommandsReachGroups ==
    \A g \in {"NOTES", "PRESENT"}, m \in Members :
        LET mail == Mail(m)
            told == {mail[i].number : i \in Heard(m, g)}
            untold == {sending[i].message.number : i \in Due(m, g)}
        IN  /\ told \cup untold = IF m \in members[g] THEN (since[g][m] + 1)..commands ELSE {}
            /\ \A x \in told, y \in untold : x < y
            /\ \A i, j \in Heard(m, g) : i < j => mail[i].number < mail[j].number
            /\ \A i, j \in Due(m, g) : i = j

\* The requests of m that call for an answer, and the answers in its mail.
Asked(m) == {n \in DOMAIN requested : requested[n].from = m /\ requested[n].content # "other"}
Answers(m) == {i \in DOMAIN Mail(m) : Mail(m)[i].kind # "Notice"}

IsAnswerTo(message, request) ==
    message = IF request.content = "Actions"
                THEN Actions(request.number)
                ELSE Welcome(request.content, request.number)

(***************************************************************************)
(* Through both outboxes, a member's requests are answered in the order in *)
(* which it made them: its mail, notices aside, answers a prefix of them.  *)
(***************************************************************************)
AnswersInOrder ==
    \A m \in Members :
        LET mail == Mail(m) IN
        \A i \in Answers(m) :
            /\ mail[i].number \in Asked(m)
            /\ IsAnswerTo(mail[i], requested[mail[i].number])
            /\ \A j \in Answers(m) : j < i => mail[j].number < mail[i].number
            /\ \A n \in Asked(m) :
                  n < mail[i].number => \E j \in Answers(m) : j < i /\ mail[j].number = n

(***************************************************************************)
(* A member hears nothing from a group before it was welcomed to it,       *)
(* although it is inserted before the Welcome is sent.                     *)
(***************************************************************************)
IsWelcome(message, g) == message.kind = "Welcome" /\ message.group = g

WelcomeComesFirst ==
    \A m \in Members :
        LET mail == Mail(m) IN
        \A i \in DOMAIN mail : mail[i].kind = "Notice" =>
            \E j \in 1..(i - 1) : IsWelcome(mail[j], mail[i].group)

Answered(m) == \A n \in Asked(m) : \E i \in Answers(m) : Mail(m)[i].number = n

\* Nothing can move: what every guard above waits for.
AtRest ==
    /\ subscribed
    /\ sending = <<>> => inbox = <<>>
    /\ sending # <<>> => Len(outbox[Head(sending).to]) = Capacity
    /\ \A m \in Members :
          /\ outgoing[m] # <<>> => Len(inbox) = Capacity
          /\ outbox[m] # <<>> => writing[m] # <<>>
          /\ writing[m] # <<>> => m \in stalled

OnStalledMember ==
    \/ \A m \in Members : outgoing[m] = <<>> /\ Answered(m)
    \/ /\ sending # <<>>
       /\ Head(sending).to \in stalled
       /\ Len(outbox[Head(sending).to]) = Capacity

(***************************************************************************)
(* The callback sends from inside the consumer, so a full outbox holds     *)
(* everybody up, the sender of the request included.  When nothing is left *)
(* that can move, either all requests have been sent and answered, or the  *)
(* callback waits on the full outbox of a member that stopped reading: the *)
(* senders and the coordinator never come to wait for each other.          *)
(***************************************************************************)
RestsOnStalledMember == AtRest => OnStalledMember
=============================================================================
