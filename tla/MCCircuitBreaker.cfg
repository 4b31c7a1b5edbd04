\* Two requests and the health checker, a reload, and time to open, recover and open again.
SPECIFICATION FairSpec
CONSTANTS
    r1 = r1
    r2 = r2
    checker = checker
    Requests = {r1, r2}
    Checker = checker
    Configs <- ReloadedConfigs
    MaxBreakers = 2
    MaxTime = 3
INVARIANTS HalfOpenAccounted
PROPERTIES BreakerSpec HalfOpenResolves
