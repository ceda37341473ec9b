\* Two handlers of the coordinator's control plane, with a crash and a new minute.
SPECIFICATION FrontSpec
CONSTANTS
    Handlers = {h1, h2}
    Peers = {p1}
    Ips = {i1}
    Regions <- MCRegions
    Databases <- MCDatabases
    NoDatabase = NoDatabase
    Allowlist = {}
    IpQuota <- MCIpQuota
    PeerQuota <- MCPeerQuota
    Salts = {s1, s2}
    MaxMs = 1
    MaxMinutes = 1
    MaxCrashes = 1
    MaxRequests = 3
SYMMETRY Symmetric
CHECK_DEADLOCK FALSE
INVARIANT RowsInOrder
