SPECIFICATION LiveSpec
CONSTANTS
    p = p
    p1 = p1
    p2 = p2
    Models = {p1}
    Providers = {p}
    ProviderOf <- MCLiveProviderOf
    Free = {}
    Governed = {p1}
    Reviewer = p2
    DropFloor = 1
    MaxSyncs = 2
    MaxRequests = 1
    MaxBoots = 1
    GracefulOnly = FALSE
PROPERTIES
    RevocationTakesEffect
