\* Two batches, one execution of the command at a time beside the reconciliation
\* jobs of two instances and two sign-ins, two faults.
SPECIFICATION SignInSpec
CONSTANTS
    Batches = 2
    Client = {c1, c2}
    Runner = {r1}
    Worker = {w1, w2}
    Retains = TRUE
    MaxAssignments = 1
    None = None
    MaxFaults = 2
INVARIANTS
    NoPartialOwnership
    AllOrNothing
    AccountFollowsReservation
    CleanedUp
    NoEarlySession
SYMMETRY Symmetry
CHECK_DEADLOCK FALSE
