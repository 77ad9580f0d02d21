------------------------------ MODULE Mailboxes ------------------------------
(***************************************************************************)
(* What the actor exchange promises its members (core/actors/api.go): a    *)
(* mailbox each, read in the order in which it was written, every message  *)
(* once, and, once somebody subscribed, every message eventually, unless   *)
(* the subscriber stalls.                                                  *)
(***************************************************************************)
EXTENDS Sequences

CONSTANTS Ids, Messages

VARIABLES
    mailbox,        \* messages not delivered yet
    delivered,      \* messages handed to the subscriber, in order
    subscribed,     \* mailboxes that have a subscriber
    stalled,        \* mailboxes whose subscriber does not return
    up              \* the process runs

mailboxVars == <<mailbox, delivered, subscribed, stalled, up>>

MailboxInit ==
    /\ mailbox = [id \in Ids |-> <<>>]
    /\ delivered = [id \in Ids |-> <<>>]
    /\ subscribed = {} /\ stalled = {}
    /\ up = TRUE

Post(id, message) ==
    /\ up
    /\ mailbox' = [mailbox EXCEPT ![id] = Append(@, message)]
    /\ UNCHANGED <<delivered, subscribed, stalled, up>>

Open(id) ==
    /\ up
    /\ subscribed' = subscribed \cup {id}
    /\ UNCHANGED <<mailbox, delivered, stalled, up>>

Deliver(id) ==
    /\ up
    /\ id \in subscribed \ stalled
    /\ mailbox[id] # <<>>
    /\ mailbox' = [mailbox EXCEPT ![id] = Tail(@)]
    /\ delivered' = [delivered EXCEPT ![id] = Append(@, Head(mailbox[id]))]
    /\ UNCHANGED <<subscribed, stalled, up>>

Stall(id) ==
    /\ up
    /\ id \in subscribed
    /\ stalled' = stalled \cup {id}
    /\ UNCHANGED <<mailbox, delivered, subscribed, up>>

Crash ==
    /\ up
    /\ up' = FALSE
    /\ UNCHANGED <<mailbox, delivered, subscribed, stalled>>

MailboxNext ==
    \/ \E id \in Ids : Open(id) \/ Deliver(id) \/ Stall(id)
    \/ \E id \in Ids, message \in Messages : Post(id, message)
    \/ Crash

MailboxSafety == MailboxInit /\ [][MailboxNext]_mailboxVars

MailboxSpec == MailboxSafety /\ \A id \in Ids : WF_mailboxVars(Deliver(id))
=============================================================================
