\* Two goroutines of one process and one of another, the Codex app, crashes.
SPECIFICATION TokenFairSpec
CONSTANTS
    Callers = {getter, ensurer, refresher}
    Sources = {toolA, toolB}
    SourceOf <- SourceIn
    Paths = {pA}
    PathOf <- PathIn
    OpsOf <- OpsIn
    Stamps = {1, 2}
    Answers <- SomeAnswers
    MaxIssued = 2
    NoOne = NoOne
    getter = getter
    ensurer = ensurer
    refresher = refresher
    toolA = toolA
    toolB = toolB
    pA = pA
INVARIANTS
    TokenCurrent
    LoginKept
    RejectionExplained
PROPERTIES
    CallsEnd
CHECK_DEADLOCK FALSE
