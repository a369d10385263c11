SPECIFICATION FairSpec
CONSTANTS
    Accounts = {a, Inventory}
    Inventory = Inventory
    Amounts = {1}
    Threshold = 1
    Threads = {t1, t2}
    Workers = {w1, w2}
    Tries = 2
    None = None
    MaxSends = 3
    MaxDeposits = 1
    FaultKinds = {"resend", "timeout"}
    CrashAt = {"book", "retry", "refund", "refund_write", "wait", "ack"}
    MaxFaults = 1
    a = a
    t1 = t1
    t2 = t2
    w1 = w1
    w2 = w2
INVARIANTS OverdraftBounded
PROPERTIES Settles Books
CHECK_DEADLOCK FALSE
