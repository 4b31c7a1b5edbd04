\* Two goroutines, one key, two values; all kinds of backend.
SPECIFICATION FairSpec
CONSTANTS
    Callers = {c1, c2}
    Keys = {k1}
    Values = {v1, v2}
    Nothing = Nothing
    MaxLate = 2
    Configs <- SomeConfigs
INVARIANTS
    NoUseAfterClose
    NothingLeaked
PROPERTIES
    ContractSpec
    CallsReturn
CHECK_DEADLOCK FALSE
