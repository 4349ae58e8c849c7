\* Two logins at once, three challenges, a clock of two readings, one fault.
SPECIFICATION Spec
CONSTANTS
    t1 = t1
    t2 = t2
    ann = ann
    bob = bob
    k1 = k1
    k2 = k2
    Threads = {t1, t2}
    Owners = {ann, bob}
    Keys = {k1, k2}
    NoKey = NoKey
    MaxCount = 1
    ChallengeTtl = 1
    SessionTtl = 1
    MaxTime = 1
    MaxChallenges = 3
    MaxFaults = 1
SYMMETRY Symm
INVARIANTS
    OneEndPerChallenge
    SessionEvidenced
PROPERTIES
    CounterNeverBack
\* The clock and the challenges are bounded.
CHECK_DEADLOCK FALSE
