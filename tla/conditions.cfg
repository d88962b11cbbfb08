SPECIFICATION FairSpec
CONSTANTS
    defaultDownscaleForbiddenWindow = 2
    defaultUpscaleForbiddenWindow = 2
    chpaSpec <- Steady
    Proposals = {0, 3}
    Replicas = {0, 1}
    Pods = {2, 4}
    MetricLag = 1
    Horizon = 4
INVARIANTS
    TypeOK
    StoreIntact
    MetricsExplained
PROPERTIES
    RescaleTold
    QuietWhenAble
    AbleAgain
