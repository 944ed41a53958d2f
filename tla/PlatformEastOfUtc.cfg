SPECIFICATION Spec
CONSTANTS
    u1 = u1
    u2 = u2
    SlotsPerDay = 2
    UtcOffset <- SlotAhead
    MidnightOffset <- SlotAhead
    User = {u1}
    Date <- NoDate
    AttendReq = {a1}
    MaxNow = 4
    Faults = FALSE
    Event = {e1}
    Reward = {}
    NoReward = NoReward
    Condition <- StreakOnly
    Listed = {{}}
    RewardReq = {}
    CreatedAt <- MCCreatedAt
    ClaimReq = {c1}
CHECK_DEADLOCK FALSE
INVARIANTS
    StreakWindow
