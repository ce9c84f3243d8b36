------------------------- MODULE MCAccountSessions --------------------------
(***************************************************************************)
(* Small instances of AccountSessions for TLC.                             *)
(***************************************************************************)
EXTENDS AccountSessions, TLC

MCSymmetry ==
    Permutations(Family) \cup Permutations(SignIn) \cup Permutations(Refresh)
    \cup Permutations(SignOutAll) \cup Permutations(Editor)
    \cup Permutations(Roles)

=============================================================================
