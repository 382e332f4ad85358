SPECIFICATION MCSpec
CONSTANTS
    r2 = r2
    Writers = {w1, w2}
    Rels = {r1, r2}
    Names = {n1}
    HashKey = hash
    Vals = {c0}
    None = none
    NoWriter = nowriter
    ResourceType <- MCResourceType
    MaxAttempts = 2
    Quantization = 2
    GCWindow = 1
    u1 = u1
    CacheWatch = cw
    Watchers = {u1, cw}
    Content <- MCContent
    BufferLength = 2
    MaxClock = 3
    MaxTokens = 2
    DefNames = {n1}
    NotFound = none
    NoRev = norev
    RevLessThan <- Before
    RevEqual <- Same
    Readers = {p1}
    MaxTrackers = 3
    MaxCycles = 1
    A = A
    B = B
    C = C
    q1 = q1
    q2 = q2
    Problems = {A, B, C}
    Graphs <- MCGraphs
    Requests = {q1, q2}
    Asks <- MCAsks
    NoCall = nocall
    NoBloom = nobloom
    Secondaries = {s1, s2}
    Primary = primary
    Total = 2
    Nobody = nobody
CHECK_DEADLOCK FALSE
INVARIANTS
    WatchedCopyIsSnapshot
    NoLostWakeup
    CachedReadsAreExact
    AnswersAreExact
    CancellationStaysLocal
    NoRecursiveCallDeadlock
    OneStreamAnswers
    ErrorsAreEarned
PROPERTIES
    MemImplementsStore
