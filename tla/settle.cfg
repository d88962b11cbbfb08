SPECIFICATION FairSpec
CONSTANTS
    defaultDownscaleForbiddenWindow = 2
    defaultUpscaleForbiddenWindow = 2
    Controllers = {c1}
    Specs <- SpecsEdited
    Proposals = {3}
    InitialPods = {1, 5}
    ScaleSizes = {0, 4}
    syncPeriod = 1
    MetricLag = 0
    UserOps = {}
    FaultKinds = {"read", "metrics", "scaleLost", "scaleUnacknowledged", "statusLost", "crash"}
    Prompt = {"caches", "pods", "workers"}
    MaxTime = 9
    MaxUserOps = 0
    MaxFaults = 1
PROPERTIES
    Settles
