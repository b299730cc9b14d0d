CONSTANTS
    Endpoint = {"e1"}
    Name = {"n"}
    Priority = {0, 1}
    Distance = {0, 1}
    Request = {"r1"}
    PeerDistance = 1
    Batch = 2
    MaxTarget = 1
    MaxConn = 2
    StreamRoom = 1
SPECIFICATION FairSpec
INVARIANTS MirrorCurrent NoChangeLost RetryAfterRemoval
PROPERTIES Converges PeerEnds
CHECK_DEADLOCK FALSE
