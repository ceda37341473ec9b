SPECIFICATION FairSpec
CONSTANTS
    Floor = 2
    Peers = {p1, p2}
    Cohorts = {c1}
    Regions = {"us", "eu", "none"}
    NoRegion = "none"
    NoRequest = NoRequest
    Requests = {r1, r2}
    Slots = 2
    Lifetime = 1
    Slo = 1
    MaxClock = 2
    MaxFaults = 1
    MaxCrashes = 1
    Beating = {}
CHECK_DEADLOCK FALSE
INVARIANT RegionsUnmixed
