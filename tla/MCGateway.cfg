SPECIFICATION GatewaySpec
CONSTANTS
    Account = {a1}
    Role = {"USER", "ADMIN"}
    ChangeReq = {r1, r2}
    MaxVersion = 2
    Faults = TRUE
    Route = {"addRole", "removeRole", "claim"}
    Published = {"event"}
    AccessLife = 2
    MaxTokens = 2
    MaxNow = 2
SYMMETRY Symmetries
CHECK_DEADLOCK FALSE
INVARIANTS
    GatewayTypeOK
    RolesTypeOK
    VersionGuards
    RepeatsBounded
    RevocationBound
PROPERTIES
    CallsAuthorised
    RoleSetSpec
    AdminByAdmin
    ChangesAsked
