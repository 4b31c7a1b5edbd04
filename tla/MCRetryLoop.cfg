CONSTANTS
    zai = zai
    openai = openai
    anthropic = anthropic
    k1 = k1
    k2 = k2
    Providers = {zai, openai, anthropic}
    KeysOf <- MCKeysOf
    DefaultProvider = anthropic
    Transparent = {anthropic}
    SameKeyRetries = 1
    KeyRetries = 1
    ProviderRetries = 1
    MaxTotalAttempts = 5
SPECIFICATION Spec
INVARIANTS ReplyIsLastAnswer AttemptsBounded KeysVisitedOnce
PROPERTIES ProvidersVisitedOnce ForbiddenPoolKeyNotRetried RequestEnds
CHECK_DEADLOCK FALSE
