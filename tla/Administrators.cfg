SPECIFICATION AccountsSpec
CONSTANTS
    u1 = u1
    u2 = u2
    n1 = n1
    n2 = n2
    e1 = e1
    e2 = e2
    c1 = c1
    c2 = c2
    None = None
    UserIds = {u1, u2}
    Names = {n1, n2}
    Emails = {e1, e2}
    Clients = {c1, c2}
SYMMETRY Exchangeable
CHECK_DEADLOCK FALSE
INVARIANTS
    AInv
PROPERTIES
    LastAdminLostByRace
    NoLostUpdate
