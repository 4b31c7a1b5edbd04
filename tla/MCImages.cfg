\* Two requests of up to two calls with up to two images each, two auth files, and the Codex app.
SPECIFICATION Spec
CONSTANTS
    Callers = {q1, q2}
    Sources = {gateway}
    SourceOf <- SourceIn
    Paths = {pA, pB}
    PathOf <- PathIn
    OpsOf <- OpsIn
    Stamps = {1, 2}
    Answers = {}
    MaxIssued = 3
    NoOne = NoOne
    Requests = {q1, q2}
    Handler = gateway
    MaxN = 2
    MaxImages = 2
    Failures = {401, 429}
    q1 = q1
    q2 = q2
    gateway = gateway
    pA = pA
    pB = pB
INVARIANTS
    TokenOfOwnPath
    ImagesAnswered
SYMMETRY Symmetry
