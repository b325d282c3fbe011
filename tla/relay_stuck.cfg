SPECIFICATION FairSpec
CONSTANTS
    Deposits = {d1}
    Workers = {w1}
    Assets = {"sol", "usdc"}
    MAX_ATTEMPTS = 5
    Faults = {}
    TreasuryGifts = 2
    MaxWebhooks = 2
    NoDeposit = NoDeposit
CHECK_DEADLOCK FALSE
PROPERTIES
    FundedIsRelayed
