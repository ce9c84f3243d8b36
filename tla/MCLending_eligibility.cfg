SPECIFICATION Spec
CONSTANTS
    Book = {b1}
    Member = {m1}
    Category = {c1}
    MembershipType = {t1}
    Loan = {l1, l2}
    Call = {x1, x2}
    Editor = {e1}
    None = None
    Quantities = {2}
    StartCounts = {0}
    LoanPeriods = {1}
    LoanLimits = {2}
    BookPatch <- MCBookStatus
    MemberPatch <- MCMemberStatus
    CategoryPatch <- MCCategoryStatus
    TypePatch <- MCTypeStatus
    MaxTime = 2
SYMMETRY MCSymmetry
CHECK_DEADLOCK FALSE
PROPERTIES
    OpensOnlyIfEligible
    NoLoanWhileOverdue
