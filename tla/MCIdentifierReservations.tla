---------------------- MODULE MCIdentifierReservations ----------------------
(* Instances of IdentifierReservations for TLC. *)
EXTENDS IdentifierReservations, TLC

\* The member number of every member is the first identifier.
NumberIsFirst == [m \in Member |-> 1]

Symmetry == Permutations(Request)

============================================================================
