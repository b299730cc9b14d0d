CONSTANTS
    Window = 1
    WriteBufferSize = 1
    MaxPayload = 1
    Calls <- RemovalCalls
    MaxBytes <- CloseBytes
    CloseErrs = {"ECLOSED"}
    Faults = {"shutdown"}
SPECIFICATION FairSpec
PROPERTIES ClosedIsRemoved
CHECK_DEADLOCK FALSE
