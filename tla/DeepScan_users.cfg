SPECIFICATION Spec
CONSTANTS
    Settings <- UsersSettings
    Jobs <- UsersJobs
    Fields <- MCFields
    Approved <- MCApproved
    Found <- MCFound
    Varied <- UsersVaried
    Requests <- UsersRequests
INVARIANTS
    DroppedRowsNotAuthoritative
CHECK_DEADLOCK FALSE
