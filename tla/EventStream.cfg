SPECIFICATION LiveSpec
CONSTANTS
    BaseInfoClients = {b1}
    ClusterClients = {c1}
    Others = {o1}
    KindSeq <- MCKindSeq
    MaxRequests = 1
    MaxChanges = 2
    Budget = 1
CHECK_DEADLOCK FALSE
INVARIANTS
    TypeOK
    PanicHasCause
PROPERTIES
    
    SendEnds
    ChangeShown
