SPECIFICATION FairSpec
CONSTANTS
    Deposits = {d1, d2}
    Slots = {1}
    None = None
INVARIANTS
    OneTimer
    ShownHasLanded
    StrayOverlayIsLate
PROPERTIES
    SettledIsShown
CHECK_DEADLOCK FALSE
