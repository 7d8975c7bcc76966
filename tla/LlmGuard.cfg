SPECIFICATION GuardSpec
CONSTANTS
    ReceiptWorkers = {w1}
    Repairs = {p1, p2}
    Households = {h1, h2}
    Budget = 2
    MaxTokens = 2
    Threshold = 2
    Window = 2
    Cooldown = 1
    MaxCooldown = 3
INVARIANTS
    GuardSound
    OvershootBounded
PROPERTY
    BreakerLawful
SYMMETRY Symmetry
CHECK_DEADLOCK FALSE
