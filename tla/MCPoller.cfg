SPECIFICATION Spec
CONSTANTS
    a1 = a1
    c1 = c1
    c2 = c2
    p1 = p1
    p2 = p2
    None = None
    Accounts = {a1}
    Chains = {c1, c2}
    Pollers = {p1, p2}
    ChainAccount <- MCChainAccount
    MaxUnread = 2
    CountWindow = 2
SYMMETRY MCPollers
INVARIANTS
    TypeOK
    LockHeldInside
    BaselineCurrent
    DispatchIsLogged
    SingleExecution
PROPERTIES
    LedgerSpec
