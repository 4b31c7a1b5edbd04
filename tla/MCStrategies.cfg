\* Every strategy but the least loaded, with two requests at a time.
SPECIFICATION Spec
CONSTANTS
    Listed <- ListedIn
    WeightOf <- WeightIn
    PriorityOf <- PriorityIn
    Models = {m1, m2}
    TargetOf <- TargetIn
    Exclusions <- ExcludedIn
    Used = {"round_robin", "shuffle", "weighted_round_robin", "failover", "model_based", "weighted_failover", "priority_weighted_failover"}
    Requests = {q1, q2}
    IndexPeriod = 6
    q1 = q1
    q2 = q2
    p1 = p1
    p2 = p2
    p3 = p3
    m1 = m1
    m2 = m2
    gone = gone
SYMMETRY AnyRequest
INVARIANTS
    FairRounds
    SmoothShares
PROPERTIES
    RefusalJustified
    TopPriority
