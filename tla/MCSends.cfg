SPECIFICATION FairSpec
CONSTANTS
    XUS = XUS
    alice = alice
    Receivers = {alice}
    Currencies = {XUS}
    NoCurrency = NoCurrency
    NoText = NoText
    Texts <- MCTexts
    Typed = {10}
    Balance <- MCBalance
    Coin = 2
    Parts = 3
    Rate = 2
    MinSend = 3
    MaxForms = 2
    MaxPresses = 2
INVARIANTS RepeatsFollowFailures SuccessIsReal
PROPERTIES ImplementsConsent Responds
CHECK_DEADLOCK FALSE
