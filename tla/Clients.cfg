\* Two callers with one retry each, two approvals, one endpoint, one page, three polls.
SPECIFICATION MCSpec
CONSTANTS
    Callers = {c1, c2}
    Operations = {o1}
    Approvals = {1, 2}
    Webhooks = {h1}
    Tabs = {t1}
    MaxRetries = 1
    Timeout = 2
    MaxStarts = 1
INVARIANTS TypeOK NobodyMisled OneApprovalPerOperation ResumedOnce
PROPERTY CallsEnd
CHECK_DEADLOCK FALSE
