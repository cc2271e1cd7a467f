SPECIFICATION FairMirrorSpec
CONSTANTS
    Creator = creator
    Backers = {b1}
    Agents = {a1}
    NoAgent = nobody
    Offers <- MCOffers
    PledgeAmounts <- MCAmounts
    FEE_BPS = 100
    BPS_DENOMINATOR = 10000
    MAX_MILESTONES = 1
    MAX_COMMISSION_LAMPORTS = 10000
    MAX_FUNDING_DURATION = 1
    MIN_WORK_WINDOW = 1
    MAX_WORK_WINDOW = 2
    DEFAULT_WORK_WINDOW = 1
    MIN_REVIEW_WINDOW = 1
    MAX_REVIEW_WINDOW = 1
    DEFAULT_REVIEW_WINDOW = 1
    MAX_SUBMISSIONS_PER_MILESTONE = 2
    CLAIM_GRACE_WINDOW = 0
    VAULT_RENT = 1
    MaxDonation = 0
    MaxTime = 2
    CHAIN_CACHE = 1
CONSTRAINT QuietChain
INVARIANT
    DisputesGrounded
PROPERTIES
    PaidVerdictStands
    VerdictReachesAgent
