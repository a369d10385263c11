SPECIFICATION FairSpec
CONSTANTS
    alice = alice
    demo = demo
    People = {alice, demo}
    Demo = demo
    Nobody = Nobody
    NewPeople = {alice, demo}
    MaxSessions = 2
    MaxOps = 2
    MaxFailures = 1
    Filters = {all, sent}
    MaxLoops = 3
    MaxEntries = 1
    MaxLost = 1
INVARIANTS DisplayedIsOwn SubmittedIsComplete
PROPERTIES TokenKept Heals
CHECK_DEADLOCK FALSE
