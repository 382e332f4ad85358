SPECIFICATION WatchSpec
CONSTANTS
    Writers = {w1, w2}
    Calls = {"touch", "delete"}
    Keys = {k1}
    InitialKeys = {k1}
    Vals = {c0, c1}
    InitialVal = c0
    SchemaKey = schema
    NoHash = nohash
    MaxRetries = 0
    Quantization = 1
    FollowerDelay = 0
    MaxXid = 4
    MaxClock = 1
    MaxTokens = 0
    MaxResumes = 1
CHECK_DEADLOCK FALSE
INVARIANTS
    NoChangeIsSkipped
    CopyIsCheckpoint
PROPERTIES
    ChangesAreSent
