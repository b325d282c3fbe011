SPECIFICATION Spec
CONSTANTS
    Runs = {r1, r2}
    Donors = {ann, bob}
    Relayed = {}
    Amounts = {1}
    MaxTransfers = 2
    ListsAccounts = TRUE
    MaxTx = 3
    Crashes = TRUE
    Unreadable = {2}
SYMMETRY RunAndDonorSymmetry
VIEW WhatIsRead
CHECK_DEADLOCK FALSE
INVARIANTS
    NothingBehindCursors
    DonorNeverOverstated
PROPERTIES
    StatusNeverReopens
