SPECIFICATION ClientSpec
CONSTANTS
    Interval = 2
    PollEvery = 1
    Cap = 2
    Sizes = {1}
    MaxBytes = 3
    Daemons = {d1, d2}
    None = None
    MaxTokens = 2
    Rotator = d1
INVARIANTS
    BytesConserved
    KeysAgree
PROPERTIES
    ChargedWhenSaved
    LoopCancels
