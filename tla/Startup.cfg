SPECIFICATION LiveSpec
CONSTANTS
    Procs = {p1, p2}
    Torn = Torn
    Budget <- MCBudget
    Faults = 1
    Crashes = 1
    Edits = 1
CHECK_DEADLOCK FALSE
INVARIANTS
    TypeOK
    OneKeyPair
PROPERTIES
    AdminKept
    CleanStartCompletes
    Recovers
