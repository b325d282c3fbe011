SPECIFICATION Spec
CONSTANTS
    Deposits = {d1}
    Workers = {w1, w2}
    Assets = {"sol"}
    MAX_ATTEMPTS = 2
    Faults = {"crash", "lostConfirmation", "nameWrite"}
    TreasuryGifts = 2
    MaxWebhooks = 2
    NoDeposit = NoDeposit
SYMMETRY WorkerAndDepositSymmetry
CHECK_DEADLOCK FALSE
INVARIANTS
    ContributedHasLanded
    PaidBeforeSwept
    ContributedOnce
    AdvancedOnce
    TriesAreBounded
PROPERTIES
    FollowsLife
