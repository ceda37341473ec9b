SPECIFICATION Spec
CONSTANTS
    Floor = 2
    Peers = {p1, p2}
    Cohorts = {c1}
    Regions = {us, eu, none}
    NoRegion = none
    NoRequest = NoRequest
    Requests = {r1, r2, r3}
    Slots = 2
    Lifetime = 1
    Slo = 1
    Beating = {}
    MaxClock = 2
    MaxFaults = 1
    MaxCrashes = 1
SYMMETRY Symm
INVARIANTS
    TypeOK
    ReleasedAtFloor
    WaitersAccountedFor
    RegionsKeptApart
    NobodyLeftBehind
