SPECIFICATION Spec
CONSTANTS
    Clients = {c1, c2}
    Forwarders = {f1}
    Exits = {e1, e2}
    Chains = {h1, h2}
    Hops = 1
    NoChain = NoChain
    LeaseTime = 0
    NoPath = NoPath
    Floor = 1
    MaxClock = 1
    MaxSends = 1
SYMMETRY Symm
INVARIANTS
    NoCrossTalk
PROPERTIES
    OnlyLeasedForwards
CHECK_DEADLOCK FALSE
