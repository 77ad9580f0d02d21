SPECIFICATION Spec
CONSTANTS
    MaxMessages = 4
    MaxUnread = 1
    MaxMail = 1
INVARIANTS
    TypeOK
    HandledWithoutGap
    HeardIfWaited
    ForwardedInOrder
    MemberWasVerified
    WritersTakeTurns
    RestsOnlyThere
PROPERTIES
    VerifiedIsAnnounced
    MessagesFlow
    MemberCleanedUp
CHECK_DEADLOCK FALSE
