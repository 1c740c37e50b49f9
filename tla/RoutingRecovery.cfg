SPECIFICATION LiveSpec
CONSTANTS
    p1 = p1
    p2 = p2
    m1 = m1
    m2 = m2
    m3 = m3
    Models = {m1}
    Providers = {p1}
    ProviderOf <- MCSingleProviderOf
    Clients = {1, 2}
    MaxAttempts = 2
    Cooldown <- MCCooldown
    MultCap = 1
    FailureCap = 2
    Minute = 1
    Wants <- MCSingleWants
    RetryAfters = {2}
    Failures = {"rate_limited", "protocol"}
    Changing = {m1}
INVARIANTS
    CoolingNeedsProbe
PROPERTIES
    EveryRequestAnswered
    RouteComesBack
