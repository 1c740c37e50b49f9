SPECIFICATION MCSpec
CONSTANTS
    Tasks = {t1}
    Items = {k1}
    Worker = "night"
    Unreliable = {"reviews", "teacher", "know"}
    Teachers = {r}
    Jobs = {"night", "admin", "other"}
    FailureLimit = 2
    Batches = {b1}
    Total = 2
    Runners = {g1, g2}
    Callers = {"night"}
    Admins = {a1, a2}
    MaxRetries = 2
    Manual = {m1}
    ValidatedAt = 1
    TrustedAt = 1
    Targets = {x1, x2}
    ProbeJobs = {p1, p2}
    Slots = 1
    HistoryLimit = 1
INVARIANTS
    ReviewsTypeOK
    ClaimedOnce
    NothingElseStranded
    FailedTeacherLeaves
    TypeOK
    ReplaysEarnNoTrust
    EvidenceCountsOnce
    RunningIsRun
    BatchAddsUp
    ProbesTypeOK
    ProbesAddUp
PROPERTIES
    KeepsVerdicts
    OnlyRestoreRevives
    EveryBatchEnds
