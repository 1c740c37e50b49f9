SPECIFICATION Spec
CONSTANTS
    p = p
    p1 = p1
    p2 = p2
    Models = {p1, p2}
    Providers = {p}
    ProviderOf <- MCProviderOf
    Free = {}
    Governed = {p1}
    Reviewer = p2
    DropFloor = 2
    MaxSyncs = 1
    MaxRequests = 1
    MaxBoots = 0
    GracefulOnly = FALSE
INVARIANTS
    NoUnapprovedAuto
