SPECIFICATION Spec
CONSTANTS
    s1 = s1
    s2 = s2
    w1 = w1
    w2 = w2
    e1 = e1
    None = None
    Scans <- MCScans
    EndpointOf <- MCEndpointOf
    Failing <- MCNone
    Rejected <- MCNone
    Workers <- MCOneWorker
    MaxUploads = 6
    MaxTime = 1
    Lease = 1
    Delays = {0}
    MaxAttempts = 1
    RetryLimits = {1}
    MaxGranted = 2
    PurgeLimits = {2}
INVARIANTS
    CausalDelivery
    OneRecoveryGeneration
    NoCircularWait
    ResyncSourceKept
PROPERTIES
    ImplementsOutbox
SYMMETRY ScanSymmetry
CHECK_DEADLOCK FALSE
