--------------------------- MODULE MCKeyRotation ---------------------------
(* Instances of KeyRotation for TLC. *)
EXTENDS KeyRotation

ThreeVersions == 1 .. 3

============================================================================
