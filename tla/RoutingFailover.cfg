SPECIFICATION Spec
CONSTANTS
    p1 = p1
    p2 = p2
    m1 = m1
    m2 = m2
    m3 = m3
    Models = {m1, m2, m3}
    Providers = {p1, p2}
    ProviderOf <- MCProviderOf
    Clients = {1}
    MaxAttempts = 2
    Cooldown <- MCCooldown
    MultCap = 1
    FailureCap = 1
    Minute = 1
    Wants <- MCWants
    RetryAfters = {0}
    Failures = {"upstream_server", "protocol"}
    Changing = {p1}
SYMMETRY Symmetry
CONSTRAINT FewFailing
INVARIANTS
    TypeOK
    AttemptsDiffer
