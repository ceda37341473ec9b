SPECIFICATION Spec
CONSTANTS
    Floor = 2
    Peers = {p1, p2}
    Cohorts = {c1, c2}
    Regions = {us}
    NoRegion = none
    NoRequest = NoRequest
    Requests = {r1, r2}
    Slots = 1
    Lifetime = 1
    Slo = 1
    MaxClock = 2
    MaxFaults = 0
    MaxCrashes = 0
    Beating = {}
SYMMETRY Symm
PROPERTIES
    CancelsOnlyOrphans
