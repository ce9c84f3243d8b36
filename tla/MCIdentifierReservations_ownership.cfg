\* A staff user and a member, two identifiers one of which is the member number,
\* two requests, two runs of the migration, two failed calls.
SPECIFICATION Spec
CONSTANTS
    Identifiers = 2
    Staff = {s1}
    Member = {m1}
    Number <- NumberIsFirst
    Request = {r1, r2}
    None = None
    MaxAttempts = 2
    MaxFaults = 2
SYMMETRY Symmetry
CHECK_DEADLOCK FALSE
INVARIANTS
    StaffReserved
    MigrationComplete
PROPERTIES
    NeverStolen
