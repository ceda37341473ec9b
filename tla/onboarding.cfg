SPECIFICATION OnboardSpec
CONSTANTS
    Clients = {c1}
    Nodes = {n1}
    Callers = {c1, n1}
    Sockets = {}
    PoolLen = 2
    Span = 2
    Exits = {x1}
    MaxTries = 2
CHECK_DEADLOCK FALSE
INVARIANTS
    HintIsFresh
    MatchAsksIssuer
    PunchOpens
PROPERTIES
    BootstrapEnds
