SPECIFICATION CallsFairSpec
CONSTANTS
    u1 = u1
    u2 = u2
    SlotsPerDay = 2
    UtcOffset <- Forward1
    MidnightOffset <- Forward1Midnight
    User = {u1, u2}
    Date <- FirstDays
    AttendReq = {a1}
    MaxNow = 1
    Faults = FALSE
    Event = {e1}
    Reward = {}
    NoReward = NoReward
    Condition <- StreakOrSample
    Listed = {{}}
    RewardReq = {}
    CreatedAt <- MCCreatedAt
    ClaimReq = {c1}
    Careful = {}
    Spared = {u1}
CHECK_DEADLOCK FALSE
INVARIANTS
    StreakDays
PROPERTIES
    ClaimStored
    EveryWaitEnds
