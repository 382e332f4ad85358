SPECIFICATION Spec
CONSTANTS
    p1 = p1
    p2 = p2
    p3 = p3
    Calls = {p1, p2, p3}
    Mixes <- SomeMixes
    Schemas = {s0, s1}
    InitialSchema = s0
    None = none
    Conns = 2
    MaxAttempts = 2
    MaxInner = 1
INVARIANTS CacheIsFaithful ReadsAreExact PreconditionErrorsAreEarned
PROPERTIES CommitsAreValidated CallsEnd
