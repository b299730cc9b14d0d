CONSTANTS
    Window = 1
    WriteBufferSize = 1
    MaxPayload = 1
    Calls <- FaultCalls
    MaxBytes <- CloseBytes
    CloseErrs = {"ECLOSED"}
    Faults = {"close", "break"}
SPECIFICATION FairSpec
PROPERTIES ClosedIsRemoved FailureEnds
CHECK_DEADLOCK FALSE
