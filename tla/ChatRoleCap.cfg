SPECIFICATION Spec
CONSTANTS
    cheap = cheap
    dear = dear
    first = r1
    second = r1
    None = None
    Providers = {cheap, dear}
    Requests = {r1}
    Shapes <- CappedShapes
    DefaultRing <- MCDefaultRing
    TierRing <- MCTierRing
    PinRing <- MCPinRing
    Projection <- MCProjection
    Overrun = 0
    CostCap = 2
    Top = 2
    MaxEscalations = 1
    Limit = 2
INVARIANTS
    RoleCapHeld
