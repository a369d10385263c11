SPECIFICATION FairSpec
CONSTANTS
    Methods = {card}
    NoMethod = NoMethod
    XUS = XUS
    XDX = XDX
    Currencies = {XUS, XDX}
    Fiats = {USD}
    Typed = {10}
    Balance <- MCBalance
    Coin = 2
    Parts = 3
    Rate = 2
    MaxForms = 3
    MaxPresses = 2
INVARIANTS ReviewIsLatest OneAtATime SuccessIsReal
PROPERTIES ImplementsConsent Responds
CHECK_DEADLOCK FALSE
