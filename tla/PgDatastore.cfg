SPECIFICATION MCSpec
CONSTANTS
    Writers = {w1, w2, w3}
    Calls = {"create", "touch", "delete", "assert", "schema"}
    Keys = {k1}
    InitialKeys = {}
    Vals = {c0, c1}
    InitialVal = c0
    SchemaKey = schema
    NoHash = nohash
    MaxRetries = 0
    Quantization = 2
    FollowerDelay = 0
    MaxXid = 4
    MaxClock = 0
    MaxTokens = 2
SYMMETRY Symmetry
CHECK_DEADLOCK FALSE
INVARIANTS
    HeadCoversTokens
    OneLivingRow
    SchemaStaysAsAsserted
    TokensCompareByContent
    StrictReadsAreComplete
PROPERTIES
    RepeatableReads
    CommittedRevisionIsExact
    ImplementsStore
