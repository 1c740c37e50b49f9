SPECIFICATION MCSpec
CONSTANTS
    f = f
    f1 = f1
    f2 = f2
    f3 = f3
    Models = {f1, f2, f3}
    Providers = {f}
    ProviderOf <- MCProviderOf
    Free = {f}
    Governed = {f1}
    Reviewer = f1
    DropFloor = 3
    MaxSyncs = 0
    MaxRequests = 1
    MaxBoots = 2
    GracefulOnly = FALSE
    Configurations = {"c1", "c2"}
    Background = "loop"
    Handlers = {"h1", "h2"}
INVARIANTS
    IntegrationTypeOK
    AutoIsRoutable
    ConsentIsForThisConfig
    ReportNeedsConsent
    UsableMeansGate
PROPERTIES
    ServesAgain
