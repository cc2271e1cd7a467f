SPECIFICATION QuietSpec
CONSTANTS
    Creator = creator
    Backers = {b1}
    Agents = {a1, a2, a3}
    NoAgent = nobody
    Offers <- MCRaceOffers
    PledgeAmounts <- MCQueueAmounts
    FEE_BPS = 100
    BPS_DENOMINATOR = 10000
    MAX_MILESTONES = 1
    MAX_COMMISSION_LAMPORTS = 15000
    MAX_FUNDING_DURATION = 2
    MIN_WORK_WINDOW = 1
    MAX_WORK_WINDOW = 3
    DEFAULT_WORK_WINDOW = 1
    MIN_REVIEW_WINDOW = 1
    MAX_REVIEW_WINDOW = 2
    DEFAULT_REVIEW_WINDOW = 2
    MAX_SUBMISSIONS_PER_MILESTONE = 4
    CLAIM_GRACE_WINDOW = 1
    VAULT_RENT = 1
    MaxDonation = 0
    MaxTime = 7
SYMMETRY MCSymmetry
INVARIANTS
    QueueIntact
    OffersHonoured
PROPERTIES
    FirstDeliveredFirstJudged
    ImplementsQueues
    NewsIsMaterial
