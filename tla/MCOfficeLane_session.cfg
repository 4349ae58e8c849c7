SPECIFICATION StagedSpec
CONSTANTS
    h1 = h1
    t1 = t1
    t2 = t2
    b1 = b1
    b2 = b2
    HelperResults = {h1}
    Bodies = {b1, b2}
    DefaultBody = b1
    Threads = {t1, t2}
    MaxTokens = 10
    MaxTime = 1
    PREVIEW_TTL = 1
    REQUEST_TTL = 1
    SESSION_TTL = 1

PROPERTY DecidedByActiveSession
