SPECIFICATION Spec
CONSTANTS
    Nodes = {"n1", "n2"}
    Resources = {"memory", "cpu"}
    Pods <- MCPods
    Capacity <- MCCapacity
    Allocatable <- MCAllocatable
    Budget = 2
CHECK_DEADLOCK FALSE
INVARIANTS
    NeverOverstated
    CalmIsWhole
