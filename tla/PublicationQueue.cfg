CONSTANTS
    e1 = e1  e2 = e2  e3 = e3  r1 = r1  r2 = r2  r3 = r3
    Endpoint = {e1}
    Request = {r1, r2}
    Concurrency <- OneAtATime
    QueueSize <- OneAtATime
    MaxDistance <- OneAtATime
    Modulus = 4
SPECIFICATION FairSpec
PROPERTY QueuedIsServed
CHECK_DEADLOCK FALSE
