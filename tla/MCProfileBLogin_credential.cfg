\* Two logins at once, two owners and two credentials, no fault.
SPECIFICATION Spec
CONSTANTS
    t1 = t1
    t2 = t2
    ann = ann
    bob = bob
    k1 = k1
    k2 = k2
    Threads = {t1, t2}
    Owners = {ann, bob}
    Keys = {k1, k2}
    NoKey = NoKey
    MaxCount = 1
    ChallengeTtl = 1
    SessionTtl = 1
    MaxTime = 1
    MaxChallenges = 3
    MaxFaults = 0
SYMMETRY Symm
INVARIANTS
    OneOwnerPerCredential
\* The clock and the challenges are bounded.
CHECK_DEADLOCK FALSE
