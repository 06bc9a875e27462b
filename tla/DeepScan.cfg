SPECIFICATION Spec
CONSTANTS
    Settings <- MCSettings
    Jobs <- MCJobs
    Fields <- MCFields
    Approved <- MCApproved
    Found <- MCFound
    Varied <- MCVaried
    Requests <- MCRequests
INVARIANTS
    TypeOK
    AuthoritativeIsAnswered
    SuccessCoversNative
    DriftNeedsEvidence
    CompleteHidesNothing
    AdvisoriesMerged
\* A request ends with its report, or with the result of its only scan.
CHECK_DEADLOCK FALSE
