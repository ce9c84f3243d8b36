---------------------------- MODULE Circulation -----------------------------
(***************************************************************************)
(* What lending promises, without transactions or counters kept twice: a   *)
(* copy stands on the shelf or is out with a member, and each lending or   *)
(* return moves exactly one copy.                                          *)
(***************************************************************************)
EXTENDS Naturals

CONSTANTS Book, Member, Loan, None

VARIABLES
    acquired,   \* the books in the catalogue
    shelf,      \* copies of each book that can be lent
    out         \* for each loan, the <<member, book>> it stands for, or None

Init ==
    /\ acquired = {}
    /\ shelf = [b \in Book |-> 0]
    /\ out = [l \in Loan |-> None]

\* A book enters the catalogue once, with any number of copies.
Acquire(b) ==
    /\ b \notin acquired
    /\ acquired' = acquired \cup {b}
    /\ shelf'[b] \in Nat
    /\ shelf' = [shelf EXCEPT ![b] = shelf'[b]]
    /\ UNCHANGED out

\* One copy leaves the shelf.
Lend(l, m, b) ==
    /\ out[l] = None
    /\ shelf[b] > 0
    /\ out' = [out EXCEPT ![l] = <<m, b>>]
    /\ shelf' = [shelf EXCEPT ![b] = shelf[b] - 1]
    /\ UNCHANGED acquired

\* The copy of an open loan comes back, once.
TakeBack(l, m, b) ==
    /\ out[l] = <<m, b>>
    /\ out' = [out EXCEPT ![l] = None]
    /\ shelf' = [shelf EXCEPT ![b] = shelf[b] + 1]
    /\ UNCHANGED acquired

Next ==
    \/ \E b \in Book : Acquire(b)
    \/ \E l \in Loan, m \in Member, b \in Book :
          Lend(l, m, b) \/ TakeBack(l, m, b)

Spec == Init /\ [][Next]_<<acquired, shelf, out>>

=============================================================================
