--------------------------- MODULE MCTokenSession ---------------------------
(***************************************************************************)
(* Small instances of TokenSession for TLC.                                *)
(***************************************************************************)
EXTENDS TokenSession, TLC

MCTokenHash == {"h1", "h2", "h3", "h4"}

MCHash == [t \in Token |-> <<"h1", "h2", "h3", "h4">>[t]]

\* Calls of rotate() are interchangeable, families are, and so are accounts.
MCSymmetry ==
    Permutations(Request) \cup Permutations(Family) \cup Permutations(Subject)

=============================================================================
