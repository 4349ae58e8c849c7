\* Two requests, two messages, two workers, one fault.
SPECIFICATION Spec
CONSTANTS
    r1 = r1
    r2 = r2
    Requests = {r1, r2}
    NumWorkers = 2
    Ttl = 1
    MaxLifetime = 1
    MaxSkew = 0
    MaxTime = 1
    MaxMessages = 2
    MaxFaults = 1
SYMMETRY Symm
INVARIANTS
    ActedOnce
    TraceEvidenced
    InventoryHonest
\* The clock and the messages are bounded.
CHECK_DEADLOCK FALSE
