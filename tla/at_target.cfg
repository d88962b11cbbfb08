SPECIFICATION Spec
CONSTANTS
    Pods = {p1, p2}
    Usages = {10, 20}
    Demands = {20}
    Request <- Requests
    MetricLists <- PodsOnly
    MaxChanges = 0
INVARIANTS
    EqualKeepsSize
