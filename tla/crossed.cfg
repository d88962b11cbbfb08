SPECIFICATION Spec
CONSTANTS
    defaultDownscaleForbiddenWindow = 2
    defaultUpscaleForbiddenWindow = 2
    Controllers = {c1}
    Specs <- SpecsCrossed
    Proposals = {3}
    InitialPods = {2}
    ScaleSizes = {0, 4}
    syncPeriod = 1
    MetricLag = 0
    UserOps = {}
    FaultKinds = {}
    Prompt = {"caches", "pods", "workers"}
    MaxTime = 3
    MaxUserOps = 0
    MaxFaults = 0
PROPERTIES
    EveryScaleUpWaits
