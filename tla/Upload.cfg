CONSTANTS
    Window = 2
    WriteBufferSize = 2
    MaxPayload = 1
    Calls <- UploadCalls
    MaxBytes <- UploadBytes
    CloseErrs = {"ECLOSED"}
    Faults = {}
SPECIFICATION ReaderSpec
INVARIANTS InOrder DataScheduled NoLostWakeup CreditConserved
PROPERTIES Delivery
CHECK_DEADLOCK FALSE
