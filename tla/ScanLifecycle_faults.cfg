SPECIFICATION Spec
CONSTANTS
    s1 = s1
    s2 = s2
    None = None
    Scans = {s1, s2}
    Verdicts = {"SUCCESS", "FAILED"}
    Releases = {0, 1}
    Validities = {3}
    Timeout = 2
    DispatchGrace = 0
    UploadGrace = 0
    MaxTime = 4
    Refusable = {s2}
    StoreFaults = FALSE
    MaxCrashes = 1
    GivesUp = TRUE
INVARIANTS
    TypeOK
    EvidenceIsStored
    EndedIsQueued
PROPERTIES
    NoLateResult
    ResultIsFinal
