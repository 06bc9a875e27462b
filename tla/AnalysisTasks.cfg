SPECIFICATION FairSpec
CONSTANTS
    None = None
    Refused = Refused
    s1 = s1
    w1 = w1
    w2 = w2
    Scans = {s1}
    Unmergeable <- OsvRefused
    Workers = {w1, w2}
    KindsOf <- BothKinds
    MaxAttempts = 2
    MaxFaults = 3
INVARIANTS TypeOK LatestAttemptDecides ReportMatchesState AttemptsPerFault
PROPERTIES KeepsPromise ReportIsFinal EvidenceIsReported
