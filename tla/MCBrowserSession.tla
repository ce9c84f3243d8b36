-------------------------- MODULE MCBrowserSession --------------------------
(* Instances of BrowserSession for TLC. *)
EXTENDS BrowserSession, TLC

Symmetry == Permutations(Call)

=============================================================================
