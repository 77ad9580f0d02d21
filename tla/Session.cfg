SPECIFICATION SessionSpec
CONSTANTS
    ClientKey = ClientKey
    ServerKey = ServerKey
    Code = Code
    Undecryptable = Undecryptable
    Nothing = Nothing
    NoKey = NoKey
    NotSent = NotSent
    EmptyKey = EmptyKey
    Malformed = Malformed
    MaxCalls = 5
INVARIANTS
    BothAgree
    NeverRefused
    NeverStuck
PROPERTIES
    ImplementsWorkflow
    HangsOnlyThen
CHECK_DEADLOCK FALSE
