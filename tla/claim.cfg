SPECIFICATION PageSpec
CONSTANTS
    People = {o, d}
    Owner = o
    Away = {x, y}
    Titles = {t1, t2}
    MaxCalls = 2
INVARIANTS
    ClaimsCanBeSigned
CHECK_DEADLOCK FALSE
