SPECIFICATION PoliteSpec
CONSTANTS
    MaxMessages = 6
    MaxUnread = 2
    MaxMail = 1
PROPERTIES
    ConnectAnswered
CHECK_DEADLOCK FALSE
