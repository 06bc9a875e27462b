SPECIFICATION Spec
CONSTANTS
    None = None
    Completeness = Completeness
    software = software
    users = users
    processes = processes
    x = x
    y = y
    Sections = {software, users, processes}
    Telemetry = {processes}
    Values = {x, y}
    Observations <- MCWhole
    Retention = FALSE
    MaxScans = 4
    MaxRows = 7
    MaxRestores = 1

PROPERTIES
    NeverSetBack
CHECK_DEADLOCK FALSE
