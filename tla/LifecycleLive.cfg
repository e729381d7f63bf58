\* Three approvals with deadlines of their own, one replica with batches of two,
\* one request: what must eventually happen.
SPECIFICATION Spec
CONSTANTS
    Approvals = {a1, a2, a3}
    Webhooks = {}
    Requests = {r1}
    Workers = {v1}
    Keys = {k1}
    NoKey = NoKey
    NoHook = NoHook
    w1 = w1
    w2 = w2
    Subscribed <- NoSubscription
    MaxTime = 2
    MaxTTL = 2
    BatchLimit = 2
PROPERTIES
    ImplementsContract
    PendingEventuallyEnds
CHECK_DEADLOCK FALSE
