SPECIFICATION QLiveSpec
CONSTANTS
    Keys = {k1, k2, k3}
    Workers = {w1, w2}
    NoKey = NoKey
INVARIANTS
    QTypeOK
    QueueInv
PROPERTIES
    EveryAddIsProcessed
    KeepsPendingWork
