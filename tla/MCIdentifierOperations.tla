---------------------- MODULE MCIdentifierOperations ------------------------
(* Small instances of IdentifierOperations for TLC. *)
EXTENDS IdentifierOperations, TLC

CONSTANTS s1, s2, i1, i2

To(s, i) == [ action |-> "replace", subject |-> s, identifier |-> i ]

Retaining ==
    << [ action |-> "retain", subject |-> s1, identifier |-> Original ],
       To(s2, i1) >>

Reassigning == << To(s1, i1), To(s2, i2) >>

\* Both mappings under every operation id.
Manifests == [o \in Operation |-> {Retaining, Reassigning}]

\* The instances that run the job are alike.
Symmetry == Permutations(Worker)
=============================================================================
