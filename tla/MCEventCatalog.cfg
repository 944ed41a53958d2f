SPECIFICATION CatalogSpec
CONSTANTS
    Event = {e1, e2}
    Reward = {w1, w2, w3}
    NoReward = NoReward
    Condition = {"open", "strict"}
    Listed <- ShortLists
    RewardReq = {q1, q2}
    Faults = TRUE
SYMMETRY Symmetries
CHECK_DEADLOCK FALSE
INVARIANTS
    CatalogTypeOK
    ListedSound
    ConfirmedListed
PROPERTIES
    CatalogGrows
