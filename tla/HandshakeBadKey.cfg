SPECIFICATION Spec
CONSTANTS
    good1 = good1
    good2 = good2
    small = small
    junk = junk
    text = text
    code1 = code1
    code2 = code2
    Keys <- MCKeys
    NotPem <- MCNotPem
    Unparsable <- MCUnparsable
    TooSmall <- MCTooSmall
    Codes <- MCCodes
    NoKey = NoKey
    NotSent = NotSent
    Undecryptable = Undecryptable
    MaxCalls = 5
INVARIANTS
    BadKeyIsReported
CHECK_DEADLOCK FALSE
