\* One tab, a staff user and a member, three calls in flight, five in all, one
\* failure.
SPECIFICATION Spec
CONSTANTS
    Tab = {t1}
    Staff = {s1}
    Member = {m1}
    Call = {c1, c2, c3}
    None = None
    MaxCalls = 5
    MaxFaults = 1
SYMMETRY Symmetry
CHECK_DEADLOCK FALSE
INVARIANTS
    SignedOutMeansForgotten
    StaysSignedOut
    OfferedOnce
