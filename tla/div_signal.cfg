SPECIFICATION Spec
CONSTANTS
    Daemons = {d1}
    Inits = {}
    Clients = {c1}
    Facilities = {"both", "int", "none"}
    Nobody = Nobody
    MaxUps = 1
CHECK_DEADLOCK FALSE
INVARIANTS
    EndsOnlyWhenTold
