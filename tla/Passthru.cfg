CONSTANTS
    Window = 3
    WriteBufferSize = 2
    MaxPayload = 2
    Loads <- MCLoads
SPECIFICATION FairSpec
INVARIANTS BytesConserved AckForwarded
PROPERTIES ProxyIsByteStream PassthruEnds Delivered
CHECK_DEADLOCK FALSE
