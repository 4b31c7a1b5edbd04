\* Three keys in rotation, the last two in a lower tier; Z.AI decisions.
SPECIFICATION Spec
CONSTANTS
    r1 = r1
    r2 = r2
    Requests = {r1, r2}
    NumKeys = 3
    Strategy = "round_robin"
    CooldownStrategy = "zai"
    HeaderOwner = FALSE
    ConfigPriority <- TwoTiers
    ConfigRPM <- OneEach
    ConfigTPM <- NoLimit
    HeaderSets = {}
    Responses <- ZaiErrors
    UnlimitedRate = 2
    TicksPerMinute = 1
    DefaultReset = 2
    RotationPeriod = 2
    MaxTime = 2
    DefaultCooldown = 1
    Retryable400Cooldown = 1
    PeriodicCooldown = 2
    UsageCooldown = 3
    ForbiddenCooldown = 3
    MaxCooldownCap = 4
INVARIANTS NoFalseExhaustion PriorityKept NeverNoKeys
SYMMETRY Symmetry
