SPECIFICATION Spec
CONSTANTS
    m1 = m1
    m2 = m2
    Members <- MCMembers
    Capacity = 1
    MaxRequests = 4
SYMMETRY MemberSymmetry
INVARIANTS
    CommandsReachGroups
    AnswersInOrder
    WelcomeComesFirst
    RestsOnStalledMember
CHECK_DEADLOCK FALSE
