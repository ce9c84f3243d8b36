SPECIFICATION FairSpec
CONSTANTS
    Family = {f1}
    Subject = {s1}
    Request = {r1, r2}
    Instance = {i1}
    None = None
    TokenHash <- MCTokenHash
    Hash <- MCHash
    RefreshTtl = 3
    RotationLease = 1
    BatchSize = 2
    MaxTokens = 3
    MaxTime = 2
    MaxFaults = 1
PROPERTIES
    PendingOrphanFinalized
    InterruptedRotationRevoked
