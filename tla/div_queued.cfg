SPECIFICATION PlaneSpec
CONSTANTS
    Packets = {u1, u2, d1}
    NoPacket = NoPacket
    Requests = {u1, u2}
    Replies = {d1}
    Malformed = {u2}
    Bound = 1
    MaxFaults = 1
CHECK_DEADLOCK FALSE
PROPERTY QueuedFramesLeave
