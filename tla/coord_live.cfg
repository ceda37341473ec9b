SPECIFICATION FairSpec
CONSTANTS
    Floor = 2
    Peers = {p1, p2}
    Cohorts = {c1}
    Regions = {"us", "none"}
    NoRegion = "none"
    NoRequest = NoRequest
    Requests = {r1, r2}
    Slots = 2
    Lifetime = 1
    Slo = 0
    Beating = {p1}
    MaxClock = 2
    MaxFaults = 1
    MaxCrashes = 1
PROPERTIES
    EvictionsOverdue
    RequestsEnd
