SPECIFICATION FairSpec
CONSTANTS
    a1 = a1
    a2 = a2
    None = None
    Accounts = {a1, a2}
    Interval = 2
    SafetyInterval = 3
    TickSeconds = 1
    PollTime = 2
INVARIANTS
    TypeOK
    NeverLate
PROPERTIES
    KeepsInterval
    PolledAgain
