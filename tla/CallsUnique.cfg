SPECIFICATION CallsSpec
CONSTANTS
    u1 = u1
    u2 = u2
    SlotsPerDay = 2
    UtcOffset <- NoOffset
    MidnightOffset <- NoOffset
    User = {u1}
    Date <- NoDate
    AttendReq = {}
    MaxNow = 0
    Faults = FALSE
    Event = {e1}
    Reward = {}
    NoReward = NoReward
    Condition <- EveryType
    Listed = {{}}
    RewardReq = {}
    CreatedAt <- MCCreatedAt
    ClaimReq = {c1, c2}
    Careful = {u1}
    Spared = {}
CHECK_DEADLOCK FALSE
INVARIANTS
    CarefulUnique
