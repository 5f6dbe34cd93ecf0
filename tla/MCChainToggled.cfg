SPECIFICATION Spec
CONSTANTS
    None = None
    Steps <- MCOneStep
    RoundLimit = 2
    MaxUnread = 1
INVARIANTS
    RepeatsHaveLimit
