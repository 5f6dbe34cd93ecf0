SPECIFICATION FairSpec
CONSTANTS
    a1 = a1
    c1 = c1
    c2 = c2
    p1 = p1
    p2 = p2
    None = None
    Accounts = {a1}
    Chains = {c1}
    Pollers = {p1, p2}
    ChainAccount <- MCChainAccount
    MaxUnread = 1
    CountWindow = 2
PROPERTIES
    PollTerminates
    BaselineConverges
