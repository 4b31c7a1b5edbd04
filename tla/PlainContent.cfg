\* Two providers, the second one Bedrock; every scenario on its own.
SPECIFICATION Spec
CONSTANTS
    Texts <- MCTexts
    Raw = {"s1", "s2"}
    HasCache = TRUE
    SeveralProviders = TRUE
    MaxChunk = 5
    Order <- MCOrder
    Cloud = {"bedrock"}
    EventStreamers = {"bedrock"}
    ModelMapping <- MCMapping
    Scenarios <- MCScenarios
INVARIANTS
    AffinityDetected
CHECK_DEADLOCK FALSE
