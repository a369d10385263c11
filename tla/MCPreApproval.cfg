SPECIFICATION FairSpec
CONSTANTS
    Ids = {f}
    PayeeOps = {"closed"}
    FaultKinds = {"timeout", "crash", "expire"}
    MaxWeb = 2
    MaxFaults = 2
INVARIANTS ValidWasApproved Agreed
PROPERTIES FinalStays AnswerArrives
CHECK_DEADLOCK FALSE
