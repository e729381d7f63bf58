SPECIFICATION Spec
CONSTANTS
    Kinds = {"auth"}
    Deliveries = {1}
    Workers = {w1, w2}
    Testers = {}
    Lease = 2
    MaxAttempts = 2
    BatchLimit = 1
PROPERTY CodeRemovedOnDelivery
