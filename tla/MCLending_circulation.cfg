SPECIFICATION Spec
CONSTANTS
    Book = {b1, b2}
    Member = {m1, m2}
    Category = {c1}
    MembershipType = {t1}
    Loan = {l1, l2, l3}
    Call = {x1, x2}
    Editor = {e1}
    None = None
    Quantities = {1, 2}
    StartCounts = {0}
    LoanPeriods = {1}
    LoanLimits = {1, 2}
    BookPatch <- MCNoPatch
    MemberPatch <- MCNoPatch
    CategoryPatch <- MCNoPatch
    TypePatch <- MCNoPatch
    MaxTime = 0
SYMMETRY MCSymmetry
CHECK_DEADLOCK FALSE
INVARIANTS
    Conservation
    CountMatchesLoans
    WithinLimit
PROPERTIES
    ImplementsCirculation
