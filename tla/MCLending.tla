------------------------------ MODULE MCLending -----------------------------
(***************************************************************************)
(* Small instances of Lending for TLC.                                     *)
(***************************************************************************)
EXTENDS Lending, TLC

\* Bodies that touch no counter.
MCBookStatus ==
    { [ totalQuantity |-> None, status |-> s, categoryId |-> None ] :
      s \in ItemStatus }

MCMemberStatus ==
    { [ status |-> s, membershipTypeId |-> None, activeLoanCount |-> None ] :
      s \in {"active", "suspended"} }

MCCategoryStatus ==
    { [ status |-> s, loanPeriodDays |-> None ] : s \in ItemStatus }

MCTypeStatus ==
    { [ status |-> s, maxActiveLoans |-> None ] : s \in ItemStatus }

\* Bodies that set the total of a book.
MCBookQuantity ==
    { [ totalQuantity |-> n, status |-> None, categoryId |-> None ] :
      n \in 0 .. 2 }

MCNoPatch == {}

MCSymmetry ==
    Permutations(Book) \cup Permutations(Member) \cup Permutations(Loan)
    \cup Permutations(Call)

=============================================================================
