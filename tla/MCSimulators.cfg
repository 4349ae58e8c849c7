\* Two transactions and two keys, two evidence ids of two tenants, one worker
\* and one task, three decisions over two nonces; ladders of three and four
\* rungs, two attempts a rung.
SPECIFICATION Spec
CONSTANTS
    BlockedOperations = {"send"}
    BlockedActions = {"send"}
    NoAction = NoAction
    Decisions <- MCDecisions
    Actions <- MCActions
    Reservations <- MCReservations
    MaxUses = 2
    Transactions = {x1, x2}
    IdempotencyKeys = {k1, k2}
    Hinting = {"preconditions_checked"}
    NoTransaction = NoTransaction
    MaxEvents = 6
    Evidence = {ev1, ev2}
    EvidenceTenants = {"t1", "t2"}
    NoTenant = NoTenant
    EvidenceTasks <- MCEvidenceTasks
    EvidenceDecisions <- MCTaskDecisions
    EvidenceTokenSets <- MCTokenSets
    TaskPayloads <- MCTaskPayloads
    TaskDecisions <- MCTaskDecisions
    TokenSets <- MCTokenSets
    BindingSets <- MCBindingSets
    MaxMoves = 7
    QueuePayloads <- MCQueuePayloads
    QueueDecisions <- MCQueueDecisions
    QueueTokenSets <- MCQueueTokenSets
    QueueBindingSets <- MCQueueBindingSets
    QueueWorkers <- MCQueueWorkers
    MaxArtifacts = 2
    manager = manager
    executive = executive
    owner = owner
    director = director
    routine = routine
    elevated = elevated
    Roles <- MCRoles
    ActionClasses <- MCActionClasses
    ReasonCodes <- MCReasonCodes
    Aliases <- MCAliases
    Overrides <- MCOverrides
    MaxAttempts = 2
    Configured <- MCConfigured
    Answers <- MCAnswers
INVARIANTS
    FirstUseOnce
    AuthorisedOnce
    ConsumedOnceAndEvidenced
    RequiredRefsStayInTenant
    CompletedWorkWasAssigned
    HeldWithItsAuthority
    ReturnsReenrolled
    AttemptsBounded
    ForbiddenNeverClimbs
    AuthorityNeverLost
PROPERTIES
    RestsEventually
\* A finished drill, log, chain or task takes no further call, a resting task no attempt.
CHECK_DEADLOCK FALSE
