SPECIFICATION TablesSpec
CONSTANTS
    Tasks = {t1, t2}
    NoLock = NoLock
    Peers = {p1}
    LastCohort = 2
    Pps = 1
    Bps = 2
    Sizes = {0, 1, 3}
    IdleSecs = 0
    MaxClock = 2
    MaxPackets = 4
SYMMETRY TaskSymmetry
CHECK_DEADLOCK FALSE
INVARIANTS
    WithinQuota
    BytesAccounted
    StaleCharges
