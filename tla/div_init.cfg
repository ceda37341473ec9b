SPECIFICATION Spec
CONSTANTS
    Daemons = {d1}
    Inits = {i1}
    Clients = {}
    Facilities = {"both"}
    Nobody = Nobody
    MaxUps = 1
CHECK_DEADLOCK FALSE
PROPERTIES
    SettingsKept
