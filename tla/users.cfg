SPECIFICATION MCSpec
CONSTANTS
    k1 = k1
    k2 = k2
    r1 = r1
    r2 = r2
    NoKey = NoKey
    Services = {"AWG", "THREE_XUI"}
    InPlace = {"THREE_XUI"}
    Keys = {k1, k2}
    Requests = {r1, r2}
SYMMETRY Symmetry
INVARIANTS
    TypeOK
    CleanRunsAgree
    SyncRestores
    CreateTellsTruth
VIEW View
