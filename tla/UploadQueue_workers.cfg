SPECIFICATION FairSpec
CONSTANTS
    s1 = s1
    s2 = s2
    w1 = w1
    w2 = w2
    e1 = e1
    None = None
    Scans <- MCOneScan
    EndpointOf <- MCEndpointOf
    Failing <- MCOneScan
    Rejected <- MCOneScan
    Workers <- MCWorkers
    MaxUploads = 3
    MaxTime = 2
    Lease = 1
    Delays = {1}
    MaxAttempts = 2
    RetryLimits = {1}
    MaxGranted = 2
    PurgeLimits = {1}
INVARIANTS
    TypeOK
    LeaseExclusive
    DeliveredIsAccepted
    AttemptBudget
PROPERTIES
    LeaseFencing
    EventuallySettled
CHECK_DEADLOCK FALSE
