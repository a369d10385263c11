SPECIFICATION Spec
CONSTANTS
    Accounts = {a, Inventory}
    Inventory = Inventory
    Amounts = {1, 2}
    Threshold = 1
    Threads = {t1}
    Workers = {w1, w2}
    Tries = 2
    None = None
    MaxSends = 2
    MaxDeposits = 2
    FaultKinds = {"web"}
    CrashAt = {"book", "retry", "refund", "refund_write", "refund_enqueue", "ack"}
    MaxFaults = 1
    a = a
    t1 = t1
    w1 = w1
    w2 = w2
SYMMETRY Symmetry
INVARIANTS RecordedOnce Reconciled
PROPERTIES ImplementsCustody
CHECK_DEADLOCK FALSE
