SPECIFICATION QuietSpec
CONSTANTS
    Creator = creator
    Backers = {b1}
    Agents = {a1, a2}
    NoAgent = nobody
    Offers <- MCQueueOffers
    PledgeAmounts <- MCQueueAmounts
    FEE_BPS = 100
    BPS_DENOMINATOR = 10000
    MAX_MILESTONES = 2
    MAX_COMMISSION_LAMPORTS = 15000
    MAX_FUNDING_DURATION = 2
    MIN_WORK_WINDOW = 1
    MAX_WORK_WINDOW = 3
    DEFAULT_WORK_WINDOW = 1
    MIN_REVIEW_WINDOW = 1
    MAX_REVIEW_WINDOW = 2
    DEFAULT_REVIEW_WINDOW = 2
    MAX_SUBMISSIONS_PER_MILESTONE = 2
    CLAIM_GRACE_WINDOW = 1
    VAULT_RENT = 1
    MaxDonation = 0
    MaxTime = 8
SYMMETRY MCSymmetry
INVARIANTS
    EarnedClaimPayable
    UnresolvedExact
    SilenceAnnounced
PROPERTIES
    ClaimDurable
    ExitsWaitForClaims
