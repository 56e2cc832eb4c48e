\* Two logins, one guarded request, two roles, one session of one tick.
SPECIFICATION Spec
CONSTANTS
    h1 = h1
    h2 = h2
    r1 = r1
    r2 = r2
    p1 = p1
    p2 = p2
    A = A
    Handlers = {h1, h2}
    Sessions = {s1}
    NoSession = NoSession
    DefaultName = USER
    SessionLife = 1
    AccessLife = 2
    RefreshLife = 3
    MaxWrong = 4
    MaxNow = 1
    QuietWrong = 0
    Checks = {c1}
    Roles = {r1, r2}
    Names = {A, USER}
    Permissions = {p1, p2}
    Grants <- MCGrants
    Wanted <- MCWanted
    Seeds <- MCSeeds
    MaxEdits = 2
SYMMETRY Symmetry
INVARIANTS
    NeverOvercounted
    LockedAtTheThird
    PassesOnLiveGrants
    RevokedForATimeOnly
PROPERTIES
    LockIsRespected
CHECK_DEADLOCK FALSE
