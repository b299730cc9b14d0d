CONSTANTS
    Window = 3
    WriteBufferSize = 2
    MaxPayload = 2
    Loads <- MCLoads
SPECIFICATION Spec
INVARIANT EOFMeansClosed
CHECK_DEADLOCK FALSE
