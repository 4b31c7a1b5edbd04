\* Two changes of the file, a request at a time, and the shutdown at any moment.
SPECIFICATION Spec
CONSTANTS
    Contents = {cA, cB, bad}
    Parsed = {cA, cB}
    Initial = cA
    Providers = {pA, pO}
    OpenAI = {pO}
    Enabled <- EnabledIn
    Flaky = {pA}
    Checked = {cA}
    MaxEdits = 2
    Requests = {q1}
    UrlOf <- UrlsIn
    KeyOf <- KeysIn
    NoKey = NoKey
    Pooled <- PooledIn
    cA = cA
    cB = cB
    bad = bad
    pA = pA
    pO = pO
    k1 = k1
    u1 = u1
    u2 = u2
INVARIANTS
    SettledOnFile
    CheckersAccounted
    NewRequestsCurrent
CHECK_DEADLOCK FALSE
