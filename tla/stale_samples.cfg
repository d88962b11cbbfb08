SPECIFICATION Spec
CONSTANTS
    Pods = {p1, p2, p3}
    Usages = {10, 20}
    Demands = {20}
    Request <- Requests
    MetricLists <- ResourceOnly
    MaxChanges = 0
INVARIANTS
    ConsideredOnly
