SPECIFICATION QuietSpec
CONSTANTS
    Creator = creator
    Backers = {b1, b2, b3}
    Agents = {a1}
    NoAgent = nobody
    Offers <- MCMoneyOffers
    PledgeAmounts <- MCMoneyAmounts
    FEE_BPS = 100
    BPS_DENOMINATOR = 10000
    MAX_MILESTONES = 2
    MAX_COMMISSION_LAMPORTS = 15000
    MAX_FUNDING_DURATION = 2
    MIN_WORK_WINDOW = 1
    MAX_WORK_WINDOW = 2
    DEFAULT_WORK_WINDOW = 1
    MIN_REVIEW_WINDOW = 1
    MAX_REVIEW_WINDOW = 1
    DEFAULT_REVIEW_WINDOW = 1
    MAX_SUBMISSIONS_PER_MILESTONE = 1
    CLAIM_GRACE_WINDOW = 1
    VAULT_RENT = 1
    MaxDonation = 0
    MaxTime = 7
SYMMETRY MCSymmetry
INVARIANTS
    VaultBacked
    Conservation
    FeeOncePerLamport
    NoStrandedEscrow
    WorstCaseHold
PROPERTIES
    RefundWithinDust
    ImplementsPot
