SPECIFICATION MCSpec
CONSTANTS
    Emojis = {e1}
    FirstEmoji = e1
    Photos = {p1}
    Friends = {f1}
    LastDay = 1
    Presets = {1}
    MaxTimelock = 1
    People = {o, d}
    Owner = o
    Away = {x, y}
    Titles = {t1, t2}
    MaxCalls = 2
    None = None
SYMMETRY AwaySymmetry
VIEW WhileWatched
INVARIANTS
    OneCover
    RulesWereChecked
    CancelToldIsOver
    NobodySkipped
    BucketMatchesChain
PROPERTIES
    SendsWhatIsShown
CHECK_DEADLOCK FALSE
