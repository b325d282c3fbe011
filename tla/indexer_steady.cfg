SPECIFICATION LiveSpec
CONSTANTS
    Runs = {r1}
    Donors = {ann, card}
    Relayed = {card}
    Amounts = {1}
    MaxTransfers = 2
    ListsAccounts = TRUE
    MaxTx = 3
    Crashes = FALSE
    Unreadable = {1, 2, 3, 4}

CHECK_DEADLOCK FALSE
PROPERTIES
    CatchesUp
    BoardCatchesUp
