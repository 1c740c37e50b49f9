SPECIFICATION MCSpec
CONSTANTS
    Keys = {k1, k2}
    Scopes = {"chat:write"}
    ScopeChoices = {{"chat:write"}}
    Expiring = {TRUE}
    Models = {m1}
    Sessions = {s1}
    Requests = {1}
    Asks = {"auto", "none"}
    SessionTTL = 2
    CacheTTL = 1
    CacheMax = 1
    Providers = {"p"}
    Addresses = {a1, a2}
    Secrets = {x1, x2}
    Editors = {e1, e2}
SYMMETRY Symmetry
INVARIANTS
    TypeOK
    FileIsAPast
    RequiredNeedsKeys
    HandedIsDurable
    StaleIsBounded
    RegistryTypeOK
    CheckedTogether
    OffStaysOff
PROPERTIES
    KeepsLedger
    EnvironmentIsReadOnly
