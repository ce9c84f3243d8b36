------------------------ MODULE MCProtectedRequests -------------------------
(***************************************************************************)
(* Small instances of ProtectedRequests for TLC: a member, and a staff     *)
(* user who is given and loses a second permission.                        *)
(***************************************************************************)
EXTENDS ProtectedRequests, TLC

CONSTANTS staffRole, adminRole, read, manage

MCPolicies == {{}, {read}, {read, manage}}

MCGrants == staffRole :> {read} @@ adminRole :> {read, manage}

MCSymmetry == Permutations(Editor)

=============================================================================
