SPECIFICATION MCSpec
CONSTANTS
    Producer = producer
    Chunks <- ThreeChunks
    Scripts <- AnyScript
    Other = other
    Buffer = 2
    Tasks <- FiveTasks
    ByCaller <- TasksOfCaller
    Caller = caller
    NoTask = notask
    Runners = {r1, r2}
    Limit = 2
    Failing <- FailingTasks
    Cancellable = TRUE
    d1 = d1
    d2 = d2
    d3 = d3
    g1 = g1
    g2 = g2
    g3 = g3
    u1 = u1
    u2 = u2
    Kinds = {"plain", "preloaded", "mapper", "any", "chunks", "both", "except", "owned", "wildcards", "usersets", "mixed", "linked", "shared"}
    Subjects = {d1, d2, d3, g1, g2, g3, u1, u2}
    Contexts = {c}
    Nil = nil
    Absent = absent
    Star = star
    Err = err
    Stranger = stranger
    NoAnswer = noanswer
    ChunkSize = 2
    MaxDepth = 5
    MaxRels = 4
    schema <- MCSchema
    Relationships <- MCRelationships
    Questions <- MCQuestions
    Lookups <- MCLookups
    IdOrder <- IdsInOrder
INVARIANTS NilMeansAllRan YieldsInOrder AnswersAreTrue
PROPERTIES WaitEndsForOneTask StartAndWaitEnds IterationEnds GoroutinesEnd
CHECK_DEADLOCK FALSE
