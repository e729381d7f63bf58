\* Two cancellations and a decision that finds the approval due, all at once.
SPECIFICATION Spec
CONSTANTS
    Approvals = {a1}
    Webhooks = {w1}
    Requests = {r1, r2, r3}
    Workers = {v1}
    Keys = {k1, k2}
    NoKey = NoKey
    NoHook = NoHook
    w1 = w1
    w2 = w2
    Subscribed <- OneHook
    MaxTime = 2
    MaxTTL = 1
    BatchLimit = 1
SYMMETRY Symmetry
INVARIANT
    SomeRefusalAccurate
CHECK_DEADLOCK FALSE
