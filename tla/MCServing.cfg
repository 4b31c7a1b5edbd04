\* Reloads change the limit and the failover timeout while two requests are served.
SPECIFICATION ServingSpec
CONSTANTS
    p1 = p1
    p2 = p2
    Requests = {r1, r2}
    Limits = {0, 1}
    Order <- Listed
    Priority <- FirstPreferred
    Routings = {fast, slow}
    LeastLoaded = {fast, slow}
    NoRouting = NoRouting
    MaxRouters = 2
SYMMETRY Interchangeable
INVARIANTS CountExact AdmissionBound LoadsConserved LoadWithinLimit
