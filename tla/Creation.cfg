\* Three requests with any keys and bodies, one body with a webhook and one without,
\* two months, a quota of two and two attempts.  With a quota of two the rows of two
\* months can fill it together.
SPECIFICATION MCSpec
CONSTANTS
    Requests = {1, 2, 3}
    Keys = {1, 2, 3}
    Bodies = {1, 2}
    WithWebhook = {2}
    Limit = 2
    MaxAttempts = 2
    MaxMonth = 1
INVARIANTS
    TypeOK
    QuotaRespected
    KeyNamesOneApproval
PROPERTY
    ImplementsContract
CHECK_DEADLOCK FALSE
