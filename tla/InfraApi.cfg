SPECIFICATION LiveSpec
CONSTANTS
    Requests = {r1, r2}
    KindSeq <- MCKindSeq
    Unknown = Unknown
    None = None
    Budget = 1
CHECK_DEADLOCK FALSE
INVARIANTS
    TypeOK
    AloneIsExact
    ErrorHasCause
PROPERTIES
    ConfigSettles
    RequestEnds
