SPECIFICATION Spec
CONSTANTS
    None = None
    Completeness = Completeness
    software = software
    users = users
    processes = processes
    x = x
    y = y
    Sections = {software, users, processes}
    Telemetry = {processes}
    Values = {x, y}
    Observations <- MCObservations
    Retention = TRUE
    MaxScans = 3
    MaxRows = 6
    MaxRestores = 1
INVARIANTS
    ReportedAsObserved
    NeverMalformed
PROPERTIES
    SetBackOnlyByRestore
CHECK_DEADLOCK FALSE
