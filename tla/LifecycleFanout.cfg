\* Two approvals and two webhooks that come and go: the outbox
\* and the safety part of the contract.
SPECIFICATION Spec
CONSTANTS
    Approvals = {a1, a2}
    Webhooks = {w1, w2}
    Requests = {r1, r2}
    Workers = {v1}
    Keys = {k1}
    NoKey = NoKey
    NoHook = NoHook
    w1 = w1
    w2 = w2
    Subscribed <- TwoHooks
    MaxTime = 1
    MaxTTL = 1
    BatchLimit = 1
SYMMETRY ApprovalSymmetry
INVARIANTS
    NoticesMatchStatus
PROPERTIES
    OutcomeIsFinal
    OutcomeIsAnnounced
    ContractSafety
CHECK_DEADLOCK FALSE
