SPECIFICATION HandleSpec
CONSTANTS
    Wallets = {w1, w2}
    Names = {n1, n2}
    NoName = nobody
    Reserved = {}
    MaxLosses = 1
CHECK_DEADLOCK FALSE
PROPERTY
    LossCostsOnlyBios
