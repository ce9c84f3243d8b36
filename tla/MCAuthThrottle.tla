--------------------------- MODULE MCAuthThrottle ---------------------------
(***************************************************************************)
(* Small instances of AuthThrottle for TLC.                                *)
(***************************************************************************)
EXTENDS AuthThrottle, TLC

\* A first secret and its rotation, as the preflight of the rotation asks; a
\* restart may also take the rotation back.
MCKeyring == { [current |-> 1, previous |-> {}],
               [current |-> 2, previous |-> {1}] }

MCVersion == {1, 2}
MCLimit == [d \in Dimension |-> 1]
MCWindow == [d \in Dimension |-> 1]

MCSymmetry == Permutations(Request) \cup Permutations(Instance)

=============================================================================
