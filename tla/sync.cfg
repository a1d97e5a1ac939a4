SPECIFICATION Spec
CONSTANTS
    p1 = p1
    p2 = p2
    NoConfig = NoConfig
    Pushes = {p1, p2}
    Panels = {1, 2}
    Target = 2
    MaxAttempts = 2
    MaxFailures = 1
    Window = 1
SYMMETRY Symmetry
INVARIANTS
    TypeOK
    SuccessMeansInForceUnlessVersionReused
    SuccessMeansVersionInForce
CHECK_DEADLOCK FALSE
