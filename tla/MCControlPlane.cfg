SPECIFICATION StagedSpec
CONSTANTS
    w1 = w1
    w2 = w2
    r1 = r1
    r2 = r2
    k1 = k1
    k2 = k2
    Workers = {w1, w2}
    Bindings <- TwoBindings
    Heartbeats <- EveryHeartbeat
    Submissions <- MCSubmissions
    Batches <- OneByOne
    Capabilities <- OneExecutable
    g1 = g1
    Grants = {g1}
    execution_opt_in = TRUE
    MaxCalls = 1
INVARIANTS
    TypeOK
    OfferedWhenEligible
    OfferedOnlyIfAllowed
    EvidenceChained
PROPERTIES
    ContainmentIsDurable
    CallsEnd
