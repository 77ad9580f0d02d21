SPECIFICATION Spec
CONSTANTS
    PageTexts <- MCPageTexts
    MailTexts <- MCMailTexts
    IdLength = 1
    Connect = Connect
    MaxSockets = 2
    MaxMessages = 2
    MaxMail = 1
INVARIANTS
    ForwardedAgainIfReplayed
    OneTimeoutIfBroken
    GetsThrough
    MailIsShown
PROPERTIES
    ImplementsOutgoing
    Reconnects
    Drains
CHECK_DEADLOCK FALSE
