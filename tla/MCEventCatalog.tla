--------------------------- MODULE MCEventCatalog ---------------------------
\* A small instance of EventCatalog: two creations of rewards at a time, for
\* the same event or for two.
EXTENDS EventCatalog, TLC

\* Events come with no list, or with one of a single reward.
ShortLists == {{}} \cup {{w} : w \in Reward}

Symmetries ==
    Permutations(Event) \cup Permutations(Reward) \cup Permutations(RewardReq)
=============================================================================
