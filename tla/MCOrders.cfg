SPECIFICATION FairSpec
CONSTANTS
    OrderIds = {o1}
    Workers = {w1, w2}
    UserFunds = 1
    InventoryFunds = 0
    Lot = 1
    MaxPosts = 2
    FaultKinds = {"crash", "lp"}
    MaxFaults = 2
INVARIANTS StatusIsBacked RepeatedAtMost
PROPERTIES CoverEnds
CHECK_DEADLOCK FALSE
