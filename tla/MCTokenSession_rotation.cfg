SPECIFICATION Spec
CONSTANTS
    Family = {f1}
    Subject = {s1}
    Request = {r1, r2}
    Instance = {i1}
    None = None
    TokenHash <- MCTokenHash
    Hash <- MCHash
    RefreshTtl = 2
    RotationLease = 1
    BatchSize = 2
    MaxTokens = 3
    MaxTime = 3
    MaxFaults = 2
SYMMETRY MCSymmetry
INVARIANTS
    SingleUse
    CommittedBeforeReturned
    CommittedIsSpent
PROPERTIES
    ReplayRevokes
    RevocationIsFinal
