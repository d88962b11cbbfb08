SPECIFICATION Spec
CONSTANTS
    defaultDownscaleForbiddenWindow = 2
    defaultUpscaleForbiddenWindow = 2
    Controllers = {c1, c2}
    Specs <- SpecsReplaced
    Proposals = {3}
    InitialPods = {1}
    ScaleSizes = {0}
    syncPeriod = 2
    MetricLag = 0
    UserOps = {"editSpec", "scale", "takeOver", "deleteChpa", "createChpa", "deleteDeployment", "createDeployment"}
    FaultKinds = {}
    Prompt = {}
    MaxTime = 1
    MaxUserOps = 2
    MaxFaults = 0
SYMMETRY Swap
INVARIANTS
    CopiesAreVersions
    TimesOrdered
    DecisionsSound
    NeverForgotten
PROPERTIES
    WritesWithinLimits
    LastScaleTimeMonotone
    NeverWakesNorDisables
    NeverWritesOthers
    UserSpecPreserved
