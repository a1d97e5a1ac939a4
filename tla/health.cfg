SPECIFICATION MCSpec
CONSTANTS
    n1 = n1
    Absent = Absent
    Panels = {n1}
    Limit = 3
    ListTTL = 2
    MaxCount = 4
    Images = {good, bad}  Bad = {bad}  NoImage = NoImage
    MaxReleases = 2  MaxFaults = 1
INVARIANTS
    TypeOK
    AgentTypeOK
    FallbackConsistent
    EvictedFailuresBounded
PROPERTIES
    FollowsReachability
    DeletedLeftAlone
    GoodReleaseRuns
