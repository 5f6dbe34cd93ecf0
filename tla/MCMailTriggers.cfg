SPECIFICATION Spec
CONSTANTS
    inbox = inbox
    archive = archive
    c1 = c1
    p = p
    x = x
    full = full
    empty = empty
    None = None
    DayLength = 3
    Patterns = {p, x}
    Uncompilable = {x}
    Texts = {full, empty}
    EmptyText = empty
    Contains <- MCContains
    Finds <- MCFinds
    Folders = {inbox, archive}
    Content <- MCContent
    Chains = {c1}
    ChainRows <- MCChainRows
INVARIANTS
    TypeOK
    TriggersAreReal
    VerdictIsMails
    PrintsTriggeringMail
