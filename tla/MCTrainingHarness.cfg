\* Two threads, four requests, one fault.
SPECIFICATION Spec
CONSTANTS
    manager = manager
    executive = executive
    owner = owner
    routine = routine
    elevated = elevated
    t1 = t1
    t2 = t2
    NoThread = NoThread
    Threads = {t1, t2}
    Tasks = {"task"}
    Roles <- MCRoles
    ActionClasses <- MCActionClasses
    ReasonCodes <- MCReasonCodes
    Aliases <- MCAliases
    Overrides <- MCOverrides
    Denials <- MCDenials
    Floor <- MCFloor
    Configurable <- MCConfigurable
    ScenarioCount = 2
    WorkingReady = TRUE
    MaxAttempts = 3
    MaxBuffers = 1
    MaxRequests = 4
    MaxFaults = 1
INVARIANTS
    TypeOK
    ProgressComputable
    LadderSurvivesRestart
    DecisionsEvidenced
PROPERTIES
    ReviewsAreFinal
    RequestsEnd
\* The requests of a behaviour are bounded.
CHECK_DEADLOCK FALSE
