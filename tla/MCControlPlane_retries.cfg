SPECIFICATION StagedSpec
CONSTANTS
    w1 = w1
    w2 = w2
    r1 = r1
    r2 = r2
    k1 = k1
    k2 = k2
    Workers = {w1, w2}
    Bindings <- TwoBindings
    Heartbeats <- FewHeartbeats
    Submissions <- MCSubmissions
    Batches <- RetriesAndInventory
    Capabilities <- FullCapabilities
    g1 = g1
    Grants = {g1}
    execution_opt_in = TRUE
    MaxCalls = 1
INVARIANTS
    OneOfferPerKey
    GrantsAccountedFor
PROPERTIES
    EveryStepIsALedgerStep
