SPECIFICATION Spec
CONSTANTS
    Daemons = {d1, d2}
    Inits = {i1}
    Clients = {c1}
    Facilities = {"both", "int"}
    Nobody = Nobody
    MaxUps = 1
CHECK_DEADLOCK FALSE
INVARIANTS
    ProxyOnlyUnprivileged
    EndsOnlyWhenTold
PROPERTIES
    SignalEnds
