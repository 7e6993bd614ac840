SPECIFICATION ChatSpec
CONSTANTS
    cheap = cheap
    dear = dear
    first = r1
    second = r2
    None = None
    Providers = {cheap, dear}
    Requests = {r1, r2}
    Shapes <- AllShapes
    DefaultRing <- MCDefaultRing
    TierRing <- MCTierRing
    PinRing <- MCPinRing
    Projection <- MCProjection
    Overrun = 1
    CostCap = 2
    Top = 2
    MaxEscalations = 1
    Limit = 3
INVARIANTS
    TypeOK
    OvershootBounded
    EveryCallHasItsRow
    UnescalatedRefusalUnbilled
PROPERTIES
    EveryRequestEnds
