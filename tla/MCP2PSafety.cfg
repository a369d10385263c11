SPECIFICATION Spec
CONSTANTS
    Values = {v}
    NoValue = NoValue
    Refs = {r1}
    WebStatuses = {"needs_kyc_data", "abort"}
    MaxWeb = 2
    FaultKinds = {"timeout", "crash", "chain"}
    MaxFaults = 3
    MaxSubmit = 3
INVARIANTS ReadyIsAgreed CompletedIsBooked
PROPERTIES ImplementsSettlement
CHECK_DEADLOCK FALSE
