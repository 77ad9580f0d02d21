------------------------------ MODULE Outgoing ------------------------------
(***************************************************************************)
(* What a page may expect of dispatch (js/src/core/connection.ts): messages *)
(* are numbered as they are dispatched, and 0 is the empty object that     *)
(* outgoing starts with.  Each new connection owes the latest message, sent *)
(* before or not, and those dispatched while it is up, in no particular    *)
(* order; any may be lost, and none is owed to a later connection.         *)
(***************************************************************************)
EXTENDS Naturals, Sequences

VARIABLES
    latest,         \* the last message dispatched
    connection,     \* the last connection
    up,             \* it is up
    replayed,       \* what was the latest message when it came up
    waiting,        \* the messages it owes
    sent            \* history: what was sent, on which connection

outgoingVars == <<latest, connection, up, replayed, waiting, sent>>

OutgoingInit ==
    /\ latest = 0 /\ replayed = 0 /\ connection = 0
    /\ up = FALSE /\ waiting = {} /\ sent = <<>>

\* One step dispatches one message.
Dispatch ==
    /\ latest' = latest + 1
    /\ waiting' = IF up THEN waiting \cup {latest'} ELSE waiting
    /\ UNCHANGED <<connection, up, replayed, sent>>

\* A connection may break before it is used.
Establish ==
    /\ ~up
    /\ up' \in BOOLEAN
    /\ connection' \in Nat /\ connection' > connection
    /\ replayed' = latest
    /\ waiting' = IF up' THEN {latest} ELSE {}
    /\ UNCHANGED <<latest, sent>>

Transmit(m) ==
    /\ m \in waiting
    /\ waiting' = waiting \ {m}
    /\ sent' = Append(sent, [connection |-> connection, message |-> m])
    /\ UNCHANGED <<latest, connection, up, replayed>>

Lose(m) ==
    /\ m \in waiting
    /\ waiting' = waiting \ {m}
    /\ UNCHANGED <<latest, connection, up, replayed, sent>>

Disconnect ==
    /\ up
    /\ up' = FALSE
    /\ waiting' = {}
    /\ UNCHANGED <<latest, connection, replayed, sent>>

OutgoingNext ==
    \/ Dispatch \/ Establish \/ Disconnect
    \/ \E m \in waiting : Transmit(m) \/ Lose(m)

OutgoingSpec == OutgoingInit /\ [][OutgoingNext]_outgoingVars

-----------------------------------------------------------------------------
(***************************************************************************)
(* A message is sent at most once on a connection; and a connection sends  *)
(* nothing older than what an earlier one sent: a message sent on two is   *)
(* the last one dispatched before the second came up (connection.ts:130).  *)
(***************************************************************************)
SentOnce ==
    \A i, j \in DOMAIN sent : i # j /\ sent[i].message = sent[j].message
                                => sent[i].connection # sent[j].connection

NothingOlderLater ==
    \A i, j \in DOMAIN sent : sent[i].connection < sent[j].connection
                                => sent[i].message <= sent[j].message
=============================================================================
