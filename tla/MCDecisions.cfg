SPECIFICATION DecisionsSpec
CONSTANTS
    Approvals = {f1, f2}
    NoApproval = NoApproval
    Payment = Payment
    MaxPresses = 2
    MaxDecisions = 2
    Members = {u1, u2}
    NoMember = NoMember
    MaxAdminPresses = 2
    Owners = {alice}
    Stranger = Stranger
    MaxTokens = 2
    MaxResets = 2
INVARIANTS SuccessIsReal DecidedOnce
PROPERTIES ImplementsConsent
CHECK_DEADLOCK FALSE
SYMMETRY Symmetry
