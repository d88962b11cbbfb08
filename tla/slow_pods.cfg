SPECIFICATION Spec
CONSTANTS
    defaultDownscaleForbiddenWindow = 2
    defaultUpscaleForbiddenWindow = 2
    Controllers = {c1}
    Specs <- SpecsPatient
    Proposals = {1, 3, 4}
    InitialPods = {2}
    ScaleSizes = {0, 4}
    syncPeriod = 1
    MetricLag = 1
    UserOps = {}
    FaultKinds = {}
    Prompt = {"caches"}
    MaxTime = 5
    MaxUserOps = 1
    MaxFaults = 1
PROPERTIES
    DownscaleWindowHonoured
