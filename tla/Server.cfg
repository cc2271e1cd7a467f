SPECIFICATION ServerSpec
CONSTANTS
    Creator = creator
    Backers = {b1}
    Agents = {a1, a2}
    NoAgent = nobody
    Offers <- MCOffers
    PledgeAmounts <- MCAmounts
    FEE_BPS = 100
    BPS_DENOMINATOR = 10000
    MAX_MILESTONES = 1
    MAX_COMMISSION_LAMPORTS = 10000
    MAX_FUNDING_DURATION = 1
    MIN_WORK_WINDOW = 1
    MAX_WORK_WINDOW = 3
    DEFAULT_WORK_WINDOW = 1
    MIN_REVIEW_WINDOW = 1
    MAX_REVIEW_WINDOW = 1
    DEFAULT_REVIEW_WINDOW = 1
    MAX_SUBMISSIONS_PER_MILESTONE = 3
    CLAIM_GRACE_WINDOW = 1
    VAULT_RENT = 1
    MaxDonation = 0
    MaxTime = 3
    Requests = {r1}
    MaxEdits = 4
    CHAIN_CACHE = 1
    Accounts = {w1, w2}
    NoAccount = nobody
    Attempts = {f1, f2}
    NONCE_LIFE = 1
    SESSION_LIFE = 2
    MaxChallenges = 2
    SignInHorizon = 2
    KEEP = 2
    MaxRows = 2
    MaxRuns = 3
CHECK_DEADLOCK FALSE
SYMMETRY MCSymmetry
CONSTRAINTS
    QuietChain
    WindowOfFocus
    Unseen
    OnTheRecord
INVARIANTS
    SignInSound
    BackupsHold
    CreditsArePayments
PROPERTIES
    CompleteBackfillExact
    AmendmentsKeepFaith
    HistoryStays
