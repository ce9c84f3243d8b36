\* One request at a time, two jobs, one fault.
SPECIFICATION Spec
CONSTANTS
    s1 = s1
    s2 = s2
    i1 = i1
    i2 = i2
    Claimant = {s1, s2}
    Outsider = out
    Original = i0
    Identifier = {i0, i1, i2}
    Operation = {o1}
    Manifest <- Manifests
    Executor = {e1}
    Worker = {w1, w2}
    None = None
    MaxFaults = 1
SYMMETRY Symmetry
INVARIANTS
    AuditedBeforeTerminal
    OwnReplacement
PROPERTIES
    StatusLifecycle
    OthersKeepTheirs
CHECK_DEADLOCK FALSE
