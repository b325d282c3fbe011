SPECIFICATION FairSpec
CONSTANTS
    Tabs = {t1, t2}
    Wallets = {w1}
    Slugs = {s0, s1}
    Bare = s0
    MaxJars = 1
    MaxPresses = 2
    UploadAttempts = 2
    RateLimit = 1
    PollAttempts = 2
    None = None
INVARIANTS
    NoJarWithoutMetadata
    SignedIsOwnJar
PROPERTIES
    LinksAreForGood
    CreationSettles
CHECK_DEADLOCK FALSE
