SPECIFICATION ExchangeSpec
CONSTANTS
    Values <- MCValues
    NoValue = NoValue
INVARIANTS NeverAmbiguous ReadyIsSigned
PROPERTY EndsOrSoftMatch
CHECK_DEADLOCK FALSE
