CONSTANTS
    Window = 1
    WriteBufferSize = 1
    MaxPayload = 1
    Calls <- CloseCalls
    MaxBytes <- CloseBytes
    CloseErrs = {"ECLOSED", "EAPP"}
    Faults = {"shutdown"}
SPECIFICATION Spec
INVARIANTS NoProtocolError CleanEOF CtrlScheduled ChannelsClosedOnce
PROPERTIES RemovedIsQuiet ImplementsByteStream
CHECK_DEADLOCK FALSE
