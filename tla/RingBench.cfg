SPECIFICATION Spec
CONSTANTS
    p1 = p1
    p2 = p2
    Idle = Idle
    Providers = {p1, p2}
    Callers = {c1, c2}
    Limits <- BenchLimits
    Order <- MCOrder
    Est = 1
    Usage = {1}
    Worst = 1
    Backoffs = {1, 3}
    Window = 2
    Day = 5
    Boot = 4
    MaxTime = 7
PROPERTY BenchHonoured
