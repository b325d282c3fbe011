SPECIFICATION FairSpec
CONSTANTS
    Deposits = {d1, d2}
    Workers = {w1}
    Assets = {"sol", "usdc"}
    MAX_ATTEMPTS = 2
    Faults = {}
    TreasuryGifts = 2
    MaxWebhooks = 2
    NoDeposit = NoDeposit
CHECK_DEADLOCK FALSE
PROPERTIES
    DepositsSettle
