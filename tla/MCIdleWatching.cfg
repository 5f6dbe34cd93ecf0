SPECIFICATION Spec
CONSTANTS
    a1 = a1
    a2 = a2
    w1 = w1
    w2 = w2
    w3 = w3
    None = None
    Accounts = {a1}
    Watchers = {w1, w2}
SYMMETRY MCSymmetry
INVARIANTS
    WatchingMeansConnected
