\* Three deliveries, one replica whose batches hold two of them, one attempt each.
SPECIFICATION Spec
CONSTANTS
    Kinds = {"webhook", "email"}
    Deliveries = {1, 2, 3}
    Workers = {w1}
    Testers = {}
    Lease = 1
    MaxAttempts = 1
    BatchLimit = 2
PROPERTY Settles
