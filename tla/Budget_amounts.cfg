SPECIFICATION Spec
CONSTANTS
    Word = 6
    MaxOutstanding = 3
    Kinds <- MCKinds
    Amounts <- MCAmounts
    LimitValues <- MCLimitValues
INVARIANTS
    TypeOK
    UsageIsHeld
PROPERTIES
    GrantsRespectLimit
