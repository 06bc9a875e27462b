SPECIFICATION FairSpec
CONSTANTS
    s1 = s1
    s2 = s2
    None = None
    Scans = {s1}
    Verdicts = {"SUCCESS", "FAILED"}
    Releases = {0}
    Validities = {2}
    Timeout = 1
    DispatchGrace = 0
    UploadGrace = 1
    MaxTime = 3
    Refusable = {}
    StoreFaults = FALSE
    MaxCrashes = 0
    GivesUp = FALSE
PROPERTIES FailureDelivered
