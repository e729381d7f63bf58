\* Three requests under one key, one of them with a body of its own, while one
\* approval of the month is left.
SPECIFICATION Spec
CONSTANTS
    Requests = {r1, r2, r3}
    Keys = {k1}
    Bodies = {b1, b2}
    WithWebhook = {b2}
    Limit = 1
    MaxAttempts = 3
    MaxMonth = 0
INVARIANT
    SomeRepeatServed
CHECK_DEADLOCK FALSE
