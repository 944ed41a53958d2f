SPECIFICATION SessionsSpec
CONSTANTS
    Email = {e1}
    Client = {c1}
    Proxied = {c1}
    Token = {t1, t2}
    NoToken = NoToken
    AuthReq = {r1, r2}
    AccessLife = 1
    RefreshLife = 2
    MaxNow = 1
    Faults = FALSE
CHECK_DEADLOCK FALSE
INVARIANTS
    CookieHeld
