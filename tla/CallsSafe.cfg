SPECIFICATION CallsSpec
CONSTANTS
    u1 = u1
    u2 = u2
    SlotsPerDay = 1
    UtcOffset <- NoOffset
    MidnightOffset <- NoOffset
    User = {u1, u2}
    Date <- NoDate
    AttendReq = {}
    MaxNow = 1
    Faults = TRUE
    Event = {e1}
    Reward = {}
    NoReward = NoReward
    Condition <- EveryType
    Listed = {{}}
    RewardReq = {}
    CreatedAt <- MCCreatedAt
    ClaimReq = {c1, c2}
    Careful = {u1}
    Spared = {u1}
CHECK_DEADLOCK FALSE
SYMMETRY Symmetries
INVARIANTS
    CallsTypeOK
    AnswersTrue
PROPERTIES
    BookSpec
    ClaimSettledForever
