SPECIFICATION FairSpec
CONSTANTS
    Creator = creator
    Backers = {b1, b2}
    Agents = {a1}
    NoAgent = nobody
    Offers <- MCLiveOffers
    PledgeAmounts <- MCLiveAmounts
    FEE_BPS = 100
    BPS_DENOMINATOR = 10000
    MAX_MILESTONES = 2
    MAX_COMMISSION_LAMPORTS = 15000
    MAX_FUNDING_DURATION = 2
    MIN_WORK_WINDOW = 1
    MAX_WORK_WINDOW = 3
    DEFAULT_WORK_WINDOW = 1
    MIN_REVIEW_WINDOW = 1
    MAX_REVIEW_WINDOW = 2
    DEFAULT_REVIEW_WINDOW = 1
    MAX_SUBMISSIONS_PER_MILESTONE = 1
    CLAIM_GRACE_WINDOW = 1
    VAULT_RENT = 1
    MaxDonation = 1
    MaxTime = 7
INVARIANTS
    TypeOK
    IntentRecordKept
    NothingHidden
PROPERTIES
    EscrowDrains
    DepositsReclaimed
