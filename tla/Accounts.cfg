\* Two clients of one account, two codes, one TOTP secret, two changes of version;
\* a tab with two requests in flight, two webhooks, one key, two filters.
SPECIFICATION MCSpec
CONSTANTS
    Clients = {c1, c2}
    Secrets = {1}
    MaxAttempts = 2
    MaxCodes = 2
    MaxVersion = 2
    Slots = {s1, s2}
    Hooks = {h1, h2}
    ApiKeys = {k1}
    Filters = {"pending"}
    MaxSecret = 3
SYMMETRY Symmetry
INVARIANTS
    TypeOK
    OneUsableCode
    CodesGuardAccount
    ResetEndsLogins
    TwoFactorSound
    PagesSound
PROPERTY
    ImplementsContract
CHECK_DEADLOCK FALSE
