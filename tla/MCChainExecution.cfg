SPECIFICATION FairSpec
CONSTANTS
    None = None
    Steps <- MCOneStep
    RoundLimit = 2
    MaxUnread = 1
INVARIANTS
    TypeOK
    IterationCap
    StopsAfterOneRound
PROPERTIES
    ReportSpec
    CappedRunDescends
    CappedRunEnds
    DeactivationEndsLoop
    InboxZeroEndsLoop
