SPECIFICATION Spec
CONSTANTS
    Staff = {u1}
    Member = {}
    Roles = {staffRole, adminRole}
    Family = {f1, f2}
    SignIn = {p1, p2}
    Refresh = {r1}
    SignOutAll = {q1, q2}
    Editor = {e1}
    None = None
    MaxCutoffs = 2
SYMMETRY MCSymmetry
CHECK_DEADLOCK FALSE
INVARIANTS
    StaleCredentialsRejected
