SPECIFICATION Spec
CONSTANTS
    Keys = {alice, bob, carol}
    NoKey = NoKey
    Mints = {usdc}
    Groups = {group}
    Banks = {bank}
    CreationFees = {0, 1, 2}
    WithdrawFees = {0, 1, 2}
    LockDays = {}
    TreasuryAmounts = {1, 2}
    MAX_CREATION_FEE_LAMPORTS = 1
    MAX_WITHDRAW_FEE_BPS = 1
    DEFAULT_MIN_AUTO_STAKE_LOCK_DAYS = 1
    MaxAmount = 3
    PUBKEY_LEN = 2
CHECK_DEADLOCK FALSE
SYMMETRY KeySymmetry
INVARIANTS
    FeesNeverExceedCaps
PROPERTIES
    HandoverIsTwoStep
    MigrationKeepsFields
