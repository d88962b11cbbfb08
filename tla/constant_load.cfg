SPECIFICATION FairSpec
CONSTANTS
    defaultDownscaleForbiddenWindow = 2
    defaultUpscaleForbiddenWindow = 2
    Loads <- AllLoads
    Targets = {10, 20, 33}
    Sizes <- AllSizes
    Specs <- SpecsGrowing
INVARIANTS
    TypeOK
    OverloadIsAnswered
PROPERTIES
    NeverRegrows
    ComesToRest
