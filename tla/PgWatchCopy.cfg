SPECIFICATION WatchSpec
CONSTANTS
    Writers = {w1, w2}
    Calls = {"create", "delete"}
    Keys = {k1}
    InitialKeys = {k1}
    Vals = {c0}
    InitialVal = c0
    SchemaKey = schema
    NoHash = nohash
    MaxRetries = 0
    Quantization = 1
    FollowerDelay = 0
    MaxXid = 4
    MaxClock = 1
    MaxTokens = 0
    MaxResumes = 0
SYMMETRY Symmetry
CHECK_DEADLOCK FALSE
INVARIANTS
    CaughtUpCopyIsHead
