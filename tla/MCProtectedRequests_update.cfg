SPECIFICATION RequestSpec
CONSTANTS
    staffRole = staffRole
    adminRole = adminRole
    read = read
    manage = manage
    Staff = {u1}
    Member = {m1}
    Roles = {staffRole, adminRole}
    StaffPermission = {read, manage}
    Policies <- MCPolicies
    Grants <- MCGrants
    Family = {f1}
    SignIn = {p1}
    Refresh = {r1}
    SignOutAll = {}
    Editor = {e1, e2}
    Request = {q1}
    None = None
    MaxCutoffs = 2
SYMMETRY MCSymmetry
CHECK_DEADLOCK FALSE
INVARIANTS
    StaleCredentialsRejected
    PermissionsFollowRoles
    HandledWithAuthority
