SPECIFICATION FairSpec
CONSTANTS
    m1 = m1
    m2 = m2
    x1 = x1
    x2 = x2
    NoTolerance = NoTolerance
    Axes <- TwoAxes
    AxisSpecs <- AxisChoices
    Gains <- GainChoices
    MaxActions <- Caps
    Mappings <- TwoMappings
    MappingSpecs <- MappingChoices
INVARIANTS ReplayAgrees VerdictFitsActions SuccessIsComplete
PROPERTY CommandEnds
