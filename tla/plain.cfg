SPECIFICATION Spec
CONSTANTS
    Keys = {admin}
    NoKey = NoKey
    Mints = {usdc}
    Groups = {}
    Banks = {}
    CreationFees = {1}
    WithdrawFees = {1, 2}
    LockDays = {}
    TreasuryAmounts = {}
    MAX_CREATION_FEE_LAMPORTS = 1
    MAX_WITHDRAW_FEE_BPS = 1
    DEFAULT_MIN_AUTO_STAKE_LOCK_DAYS = 1
    MaxAmount = 25
    Owners = {owner}
    Donors = {d1, d2}
    MaxJars = 1
    Assets = {"Sol", "Usdc"}
    AutoStakeInputs = {FALSE}
    Amounts = {10, 15}
    DirectAmounts = {5}
    MaxNow = 2
    DAY = 1
    MAX_TIMELOCK_DURATION = 2
    BPS_DENOMINATOR = 10
    Prices = {2}
    PriceOne = 2
    SharesScale = 1
    Marinade = Marinade
SYMMETRY DonorSymmetry
CHECK_DEADLOCK FALSE
INVARIANTS
    ContributorsCounted
    NothingOutlivesJar
    PrincipalIsPledged
    HoldsWhatItRecords
    RefundsCovered
PROPERTIES
    LockedFundsMoveOnlyToDonors
    FeeWithinCap
    ImplementsEscrow
