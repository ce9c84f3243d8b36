\* One process, one repair, one previous key: with version 1 in use and
\* version 2 deployed, version 3 is blocked.  One restart and one failed call.
SPECIFICATION RotationSpec
CONSTANTS
    Instance = {i1}
    Repair = {p1}
    Version <- ThreeVersions
    FirstVersion = 1
    Unset = Unset
    MaxPreviousKeys = 1
    BatchSize = 1
    MaxRestarts = 1
    MaxFailures = 1
INVARIANTS
    KeysRetained
    NothingAfterShutdown
PROPERTIES
    RotationResumes
CHECK_DEADLOCK FALSE
