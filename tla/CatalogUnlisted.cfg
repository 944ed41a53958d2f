SPECIFICATION CatalogSpec
CONSTANTS
    Event = {e1}
    Reward = {w1, w2, w3, w4}
    NoReward = NoReward
    Condition = {"open"}
    Listed <- ShortLists
    RewardReq = {q1, q2}
    Faults = TRUE
SYMMETRY Symmetries
CHECK_DEADLOCK FALSE
INVARIANTS
    RewardsListed
