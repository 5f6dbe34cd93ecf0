SPECIFICATION UsersConcurrently
CONSTANTS
    None = None
    Unset = Unset
    u1 = u1
    u2 = u2
    u3 = u3
    u4 = u4
    s1 = s1
    s2 = s2
    s3 = s3
    p = p
    x = x
    d1 = d1
    d2 = d2
    q1 = q1
    Q1 = Q1
    q2 = q2
    q3 = q3
    e1 = e1
    e2 = e2
    r1 = r1
    r2 = r2
    Requests = {r1, r2}
    Users = {u1, u2, u3, u4}
    Steps = {s1, s2, s3}
    Orders <- MCOrders
    Patterns = {p, x}
    Uncompilable = {x}
    Printers = {d1, d2}
    Queues = {q1, Q1, q2, q3}
    Slugs = {q1, Q1}
    Folded <- MCFolded
    Uris = {e1, e2}
SYMMETRY MCSymmetry
INVARIANTS
    AdminRemains
