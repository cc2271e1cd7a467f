SPECIFICATION ClientSpec
CONSTANTS
    creator = creator
    backer = backer
    Payers = {creator, backer}
    Pledges = {pledge}
    Due = delivery
    Judged = {superseded}
    Superseded = {superseded}
    Intents = {}
    MaySign <- MCMaySign
    Past = {"funding"}
    BUNDLE_CAP = 3
    SWEEP_BATCH = 2
    Calls = {c1, c2}
    POOL = 3
    Wallets = {w1, w2}
    Names = {n1, n2}
    NoName = nobody
    Reserved = {}
    MaxLosses = 1
    p1 = p1
    p2 = p2
    k1 = k1
    k2 = k2
    k3 = k3
    People = {p1, p2}
    NoOne = nobody
    Events = {k1, k2, k3}
    AddressedTo <- MCAddressedTo
    Loads = {l1}
    LIST_LIMIT = 1
CHECK_DEADLOCK FALSE
INVARIANTS
    PaidOnce
    NameNeverInherited
PROPERTIES
    NeverBlockedByHousekeeping
    DepositsSwept
    LiveNodeFound
    NoticesAreListed
