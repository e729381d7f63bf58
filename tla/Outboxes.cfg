SPECIFICATION Spec
CONSTANTS
    Kinds = {"webhook", "email", "auth"}
    Deliveries = {1}
    Workers = {w1, w2}
    Testers = {t1}
    Lease = 2
    MaxAttempts = 2
    BatchLimit = 1
INVARIANTS TypeOK LeaseExclusive DeliveredWasAccepted SecretAsLongAsNeeded TrailMatchesEmail
PROPERTIES FinalIsFinal Settles ImplementsContract
