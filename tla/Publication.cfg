CONSTANTS
    e1 = e1  e2 = e2  e3 = e3  r1 = r1  r2 = r2  r3 = r3
    Endpoint = {e1, e2, e3}
    Request = {r1, r2, r3}
    Concurrency <- MCConcurrency
    QueueSize <- MCQueueSize
    MaxDistance <- MCMaxDistance
    Modulus = 4
SPECIFICATION Spec
SYMMETRY Requests
INVARIANTS
    CapacityExact WaitersQueuedOnce RetryAfterRemoval SettingsCumulative
CHECK_DEADLOCK FALSE
