SPECIFICATION Spec
CONSTANTS
    Instance = {i1, i2}
    Request = {r1, r2}
    Route = {"login", "staff-login", "refresh"}
    Source = {s1}
    Identifier = {a1}
    Family = {}
    None = None
    Version <- MCVersion
    Keyring <- MCKeyring
    Limit <- MCLimit
    Window <- MCWindow
    MaxTime = 1
    MaxRestarts = 1
    MaxFaults = 1
SYMMETRY MCSymmetry
CHECK_DEADLOCK FALSE
INVARIANTS
    WindowLimit
    OneLiveWindow
    FailsClosed
    MissingKeyRefuses
PROPERTIES
    RunningWindowKept
