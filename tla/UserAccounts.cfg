SPECIFICATION Spec
CONSTANTS
    w = w
    up = up
    m = m
    Requests = {w, up, m}
    b1 = b1
    b2 = b2
    Browsers = {b1, b2}
    s1 = s1
    Subjects = {s1}
    p1 = p1
    t1 = t1
    m1 = m1
    Stored = {p1, t1, m1}
    StoredKind <- MCStoredKind
    Mirrored = {m1}
    Calls <- MCCalls
    Managed = TRUE
    NoUser = NoUser
    NoSubject = NoSubject
    NoAssoc = NoAssoc
INVARIANTS AccountsMatchIdentities LinksWithinOwner NoWaitCycle
PROPERTIES WorkIsKept UpgradeMovesWork
CHECK_DEADLOCK FALSE
