SPECIFICATION Spec
CONSTANTS
    Codes = {i1, i2}
    Budgets = {0, 1, 2}
    Unset = Unset
    Calls = {r1, r2, r3}
    Nobody = Nobody
    NeverExpires = NeverExpires
    MaxClock = 1
    MaxRegisters = 2
    MaxCrashes = 1
    MaxFaults = 1
SYMMETRY Symm
CHECK_DEADLOCK FALSE
INVARIANTS
    NeverOverAdmitted
PROPERTIES
    ImplementsBudget
