SPECIFICATION Spec
CONSTANTS
    p1 = p1
    p2 = p2
    Idle = Idle
    Providers = {p1, p2}
    Callers = {c1, c2}
    Limits <- MCLimits
    Order <- MCOrder
    Est = 1
    Usage = {2}
    Worst = 2
    Backoffs = {2}
    Window = 1
    Day = 5
    Boot = 4
    MaxTime = 7
SYMMETRY MCSymmetry
INVARIANTS
    TypeOK
    RpmRespected
    CooldownRespected
    RpdRespected
    TpmOvershootBounded
