SPECIFICATION Spec
CONSTANTS
    defaultDownscaleForbiddenWindow = 2
    defaultUpscaleForbiddenWindow = 2
    Controllers = {c1}
    Specs <- SpecsEdited
    Proposals <- ProposalsOverflowing
    InitialPods = {0, 2}
    ScaleSizes = {0, 4}
    syncPeriod = 1
    MetricLag = 1
    UserOps = {"editSpec", "scale"}
    FaultKinds = {"read", "metrics", "scaleLost", "scaleUnacknowledged", "statusLost", "crash"}
    Prompt = {"caches"}
    MaxTime = 3
    MaxUserOps = 1
    MaxFaults = 1
INVARIANTS
    TypeOK
    NoPhantomScale
    NeverForgotten
PROPERTIES
    UserSpecPreserved
    LastScaleTimeMonotone
    ScalesAtomically
