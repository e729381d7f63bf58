\* Two replicas; three approvals in pages of two, or two requests with one key.
SPECIFICATION MCSpec
CONSTANTS
    Replicas = {s1, s2}
    Servers = {s1, s2}
    Approvals = {1, 2, 3}
    BatchSize = 2
    Requests = {q1, q2}
    Keys = {k1}
    Limit = 1
    Keep = 2
    MaxWindow = 2
INVARIANTS TypeOK ServedLinksWork WindowRespected
PROPERTY StartsAndStops
CHECK_DEADLOCK FALSE
