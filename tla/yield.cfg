SPECIFICATION ReadyFairSpec
CONSTANTS
    Keys = {admin}
    NoKey = NoKey
    Mints = {usdc}
    Groups = {group}
    Banks = {b1, b2}
    CreationFees = {0}
    WithdrawFees = {1}
    LockDays = {1}
    TreasuryAmounts = {}
    MAX_CREATION_FEE_LAMPORTS = 1
    MAX_WITHDRAW_FEE_BPS = 1
    DEFAULT_MIN_AUTO_STAKE_LOCK_DAYS = 1
    MaxAmount = 3
    Owners = {owner}
    Donors = {d1, d2}
    MaxJars = 1
    Assets = {"Sol", "Usdc"}
    AutoStakeInputs = {TRUE}
    Amounts = {1}
    DirectAmounts = {1}
    MaxNow = 2
    DAY = 1
    MAX_TIMELOCK_DURATION = 2
    BPS_DENOMINATOR = 2
    Prices = {2, 3}
    PriceOne = 2
    SharesScale = 2
    Marinade = Marinade
CHECK_DEADLOCK FALSE

    
PROPERTIES
    ImplementsEscrow
    
