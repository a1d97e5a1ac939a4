SPECIFICATION FairSpec
CONSTANTS
    p1 = p1
    p2 = p2
    NoConfig = NoConfig
    Pushes = {p1, p2}
    Panels = {1}
    Target = 1
    MaxAttempts = 3
    MaxFailures = 3
    Window = 3
INVARIANTS
    TypeOK
    BreakerOvershootBounded
PROPERTIES
    DegradedEnds
    PushEnds
