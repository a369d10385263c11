SPECIFICATION FairSpec
CONSTANTS
    Values = {v}
    NoValue = NoValue
    Refs = {r1, r2}
    WebStatuses = {}
    MaxWeb = 0
    FaultKinds = {"chain"}
    MaxFaults = 1
    MaxSubmit = 3
PROPERTIES BothBook
INVARIANTS PaidOnce PayeeExpectsTransfer
CHECK_DEADLOCK FALSE
