SPECIFICATION MCSpec
CONSTANTS
    Parts = {"write", "collect", "watch", "pick", "replica"}
    MyCalls = {c1, c2}
    MyRels = {k1, k2}
    MyDefs = {n1}
    c1 = c1
    k1 = k1
    SchemaName = schema
    MyVals = {v0, v1}
    MyBaseVal = v0
    NoVal = noval
    MyMaxRetries = 1
    MyQuantum = 2
    MyWindow = 1
    MyDelay = 0
    MyCollectors = {g1}
    MyMaxId = 3
    MyMaxClock = 5
    MyMaxHanded = 2
    MyMaxResumes = 1
    Reqs = {q1, q2}
    Replicas = {0, 1}
    MaxStaleness = 1
    SharedTimeout = 1
    MismatchOption = "full"
INVARIANTS
    SettledReads
    AssertedHashStays
    CollectedIsUnreadable
    WatchedIsRead
    RequestsReadAsAsked
    OptimizedIsRecent
CHECK_DEADLOCK FALSE
SYMMETRY Symmetry
