SPECIFICATION MCSpec
CONSTANTS
    Writers = {w1, w2}
    Calls = {"touch", "delete"}
    Keys = {k1}
    InitialKeys = {k1}
    Vals = {c0, c1}
    InitialVal = c0
    SchemaKey = schema
    NoHash = nohash
    MaxRetries = 1
    Quantization = 1
    FollowerDelay = 0
    MaxXid = 4
    MaxClock = 2
    MaxTokens = 2
    Collectors = {g1, g2}
    Window = 0
    BatchSize = 1
SYMMETRY Symmetry
CHECK_DEADLOCK FALSE
INVARIANTS
    CollectionSparesLaterRevisions
    OptimizedStalenessBounded
