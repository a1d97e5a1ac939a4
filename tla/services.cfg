SPECIFICATION MCSpec
CHECK_DEADLOCK FALSE
CONSTANTS
    cpu = cpu  n1 = n1  n2 = n2  x1 = x1  x2 = x2  a1 = a1  a2 = a2
    c = c  e = e
    \* AwgPeers
    Requests = {q1, q2}  Peers = {p1, p2}  Hosts = {2, 3}
    None = None  Absent = Absent  Bare = Bare
    \* LoginRateLimit
    Ips = {i1, i2, i3}  NoIp = NoIp  NoLogin = NoLogin  Logins = {l1, l2}
    MaxAttempts = 2  MaxGlobal = 3  MaxBuckets = 2  Window = 2
    \* GeoIPIndex
    Width = 2  Countries = {ru, de}  NoCountry = NoCountry  MaxPrefixes = 3
    \* GeoIPManager
    Databases = {d1, d2}  Poor = Poor  NoDatabase = NoDatabase  Urls = 2
    \* PanelPair
    Sides = {c, e}  Kinds <- MCKinds  Versions = {1, 2}  Bodies = {"a"}
    NoSync = NoSync
    \* Alerts
    ResourceChecks = {r1, r2}  QuotaChecks = {t1, t2}  Metrics <- MCMetrics
    Users = {user}  Thresholds = {80, 100}  AlertWindow = 1
    \* ApplyConfig
    Runs = {a1, a2}  Panels = {x1, x2}  NodeSeq <- MCNodeSeq
    Services <- MCServicesOf  Nothing = Nothing
    \* Transport
    Resolvers = {v1}  Queries = {v2}  Hostnames = {h1, h2}
    Addresses = {ip1, ip2}  NoAddress = NoAddress  NoName = NoName
    \* PrFlow
    Groups = {"prt", "wake", "title"}
    Acts = {"push", "draft", "label", "review"}
    MaxHeads = 2  MaxReviewRetries = 0  MaxFinalizerRetries = 1
    MaxFailed = 1  MaxEvents = 2
INVARIANTS
    ServicesTypeOK
    AddressesDistinct
    CarefulKeepsAddresses
    AddressAttemptsBounded
    RecentAttemptsBounded
    LookupIsLongestPrefix
    ServesTheFile
    RollbackReportsPeer
    DuplicatesNeedOverlap
    ExceededMeansAlert
    SuccessMeansApplied
    CachedPairResolved
    MergesReviewedHead
PROPERTIES
    KeepsGoodDatabase
    PeerSetBackOnlyOvertaken
    AloneMeansInForce
