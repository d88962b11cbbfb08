SPECIFICATION Spec
CONSTANTS
    Pods = {p1, p2, p3}
    Usages = {0, 18, 20, 30}
    Demands = {18, 22}
    Request <- Requests
    MetricLists <- AllLists
    MaxChanges = 1
INVARIANTS
    TypeOK
    DirectionKept
    LargestWins
PROPERTIES
    ResourceNeedsReadyPod
