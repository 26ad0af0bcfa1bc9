CONSTANTS
    Procs = {p1, p2}
    Sockets = {1, 2, 3}
    None = None
    MaxCrashes = 3
    Installs = {1, 2}
    Schemas = {"old", "current"}
    Candidates = {3, 4}
    Broken = {1, 2, 3}
    MaxTroubles = 2
    MaxVersion = 2
    Births = {0, 1, 3, 8, 9, 10, 12, 13}
    MaxMishaps = 3
SPECIFICATION HostSpec
INVARIANTS
    LeaseExclusive
    PromotionOutcome
    UpgradesSafe
PROPERTIES
    StaleRecovered
    PromotionSound
    PairKeepsAFixedSlot
    RecoveryServes
    StoreOpens
