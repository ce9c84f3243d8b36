--------------------------- MODULE MCSharedSignIn ---------------------------
(* Instances of SharedSignIn for TLC. *)
EXTENDS SharedSignIn, TLC

Symmetry == Permutations(Worker) \cup Permutations(Client)

=============================================================================
