SPECIFICATION Spec
CONSTANTS
    defaultDownscaleForbiddenWindow = 2
    defaultUpscaleForbiddenWindow = 2
    Controllers = {c1}
    Specs <- SpecsEdited
    Proposals = {2, 4}
    InitialPods = {1}
    ScaleSizes = {0, 4}
    syncPeriod = 1
    MetricLag = 1
    UserOps = {"editSpec"}
    FaultKinds = {}
    Prompt = {"caches", "pods"}
    MaxTime = 3
    MaxUserOps = 1
    MaxFaults = 1
PROPERTIES
    UpscaleWindowHonoured
