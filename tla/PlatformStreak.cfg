SPECIFICATION Spec
CONSTANTS
    u1 = u1
    u2 = u2
    SlotsPerDay = 2
    UtcOffset <- NoOffset
    MidnightOffset <- NoOffset
    User = {u1}
    Date <- FirstDays
    AttendReq = {a1}
    MaxNow = 3
    Faults = TRUE
    Event = {e1}
    Reward = {w1}
    NoReward = NoReward
    Condition <- StreakOrAge
    Listed = {{}}
    RewardReq = {q1}
    CreatedAt <- MCCreatedAt
    ClaimReq = {c1, c2}
CHECK_DEADLOCK FALSE
SYMMETRY Symmetries
INVARIANTS
    TypeOK
    VerdictSound
    StreakWindow
    VerdictInv
    EligibleNotRejected
    ClaimDuplicatesRaced
PROPERTIES
    LedgerSpec
