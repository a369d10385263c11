SPECIFICATION FairPubSub
CONSTANTS
    Keys = {k1, k2}
    BatchSize = 2
    Unreadable = Unreadable
    MaxEvents = 3
    MaxInterruptions = 2
PROPERTIES ImplementsFeed AllHanded
CHECK_DEADLOCK FALSE
