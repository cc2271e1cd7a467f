SPECIFICATION AmendSpec
CONSTANTS
    Creator = creator
    Backers = {b1}
    Agents = {a1, a2}
    NoAgent = nobody
    Offers <- MCOffers
    PledgeAmounts <- MCAmounts
    FEE_BPS = 100
    BPS_DENOMINATOR = 10000
    MAX_MILESTONES = 1
    MAX_COMMISSION_LAMPORTS = 10000
    MAX_FUNDING_DURATION = 1
    MIN_WORK_WINDOW = 1
    MAX_WORK_WINDOW = 2
    DEFAULT_WORK_WINDOW = 1
    MIN_REVIEW_WINDOW = 1
    MAX_REVIEW_WINDOW = 1
    DEFAULT_REVIEW_WINDOW = 1
    MAX_SUBMISSIONS_PER_MILESTONE = 3
    CLAIM_GRACE_WINDOW = 1
    VAULT_RENT = 1
    MaxDonation = 0
    MaxTime = 3
    Requests = {r1, r2}
    MaxEdits = 3
CONSTRAINT QuietChain
SYMMETRY MCSymmetry
PROPERTY
    EveryWordingKept
