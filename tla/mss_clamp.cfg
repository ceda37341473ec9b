SPECIFICATION Spec
CONSTANTS
    Options <- MCOptions
    DataOffsets <- MCDataOffsets
    Checks <- MCChecks
    Targets <- MCTargets
CHECK_DEADLOCK FALSE
INVARIANTS
    InBounds
    FirstMssFits
PROPERTIES
    AlignedChecksumKept
    WalkEnds
