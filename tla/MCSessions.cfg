SPECIFICATION SessionsSpec
CONSTANTS
    Email = {e1, e2}
    Client = {c1}
    Proxied = {}
    Token = {t1, t2, t3, t4}
    NoToken = NoToken
    AuthReq = {r1, r2}
    AccessLife = 1
    RefreshLife = 2
    MaxNow = 2
    Faults = TRUE
SYMMETRY Symmetries
CHECK_DEADLOCK FALSE
INVARIANTS
    SessionsTypeOK
    ChainSingle
    OwnerKept
PROPERTIES
    LoginsSpec
    LogoutEnds
    RefreshKept
