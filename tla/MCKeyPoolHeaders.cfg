\* Two keys of one tier, least loaded first, that learn from Anthropic headers; cooldowns end
\* within the bound, and every call of GetKey must end.
SPECIFICATION FairSpec
CONSTANTS
    r1 = r1
    r2 = r2
    Requests = {r1, r2}
    NumKeys = 2
    Strategy = "least_loaded"
    CooldownStrategy = "generic"
    HeaderOwner = TRUE
    ConfigPriority <- OneEach
    ConfigRPM <- OneEach
    ConfigTPM <- NoLimit
    HeaderSets <- LimitHeaders
    Responses <- PlainRateLimit
    UnlimitedRate = 2
    TicksPerMinute = 1
    DefaultReset = 1
    RotationPeriod = 2
    MaxTime = 3
    DefaultCooldown = 1
    Retryable400Cooldown = 1
    PeriodicCooldown = 2
    UsageCooldown = 3
    ForbiddenCooldown = 3
    MaxCooldownCap = 4
INVARIANTS RateBound
PROPERTY GetKeyAnswers
