SPECIFICATION FairSpec
CONSTANTS
    None = None
    service = service
    command = command
    pl = pl
    pa = pa
    pb = pb
    x = x
    y = y
    Rotators = {service, command}
    Service = service
    Life = 3
    GrantLife = 1
    Margin = 2
    Overlap = 1
    MaxAttempts = 2
    MaxGeneration = 6
    MaxManual = 2
    MaxLost = 2
    MaxBroken = 1
    Ids = {pl, pa, pb}
    Contents = {x, y}
    Assignments <- MCAssignments
    LocalFiles <- MCLocal
    MaxCorrupt = 1
    Scheduling = TRUE
    Interval = 2
    Jitter = 0
    MaxTime = 3
INVARIANTS
    TypeOK
    LockedOutOnlyByFaults
    RestartRestores
    RevokedStaysRevoked
PROPERTIES
    StoredNeverGoesBack
    RequestIsTakenUp
