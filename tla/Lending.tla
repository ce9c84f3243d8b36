------------------------------ MODULE Lending -------------------------------
(***************************************************************************)
(* Lending and returning books (src/src/borrowings), together with the     *)
(* services that edit the documents it reads: books, members, categories   *)
(* and membership types.                                                   *)
(*                                                                         *)
(* create() and returnBorrowing() each run in a MongoDB transaction: they  *)
(* read one snapshot, and their commit fails with a write conflict when a  *)
(* document they write was changed after that snapshot; withTransaction    *)
(* then runs the closure again.  The other handlers use no transaction:    *)
(* they read a document, and later save the fields whose value they        *)
(* changed, as absolute values.                                            *)
(***************************************************************************)
EXTENDS Naturals, FiniteSets

CONSTANTS
    Book, Member, Category, MembershipType,
    Loan,           \* bound: borrowing records ever created
    Call,           \* concurrent executions of create() and returnBorrowing()
    Editor,         \* concurrent executions of MembersService.create and PATCH
    None,           \* an unset reference, or a field a request leaves out
    Quantities,     \* inputs: totalQuantity of a new book
    StartCounts,    \* inputs: activeLoanCount of a new member
    LoanPeriods,    \* inputs: loanPeriodDays of a new category
    LoanLimits,     \* inputs: maxActiveLoans of a new membership type
    BookPatch,      \* inputs: bodies of PATCH /books/:id
    MemberPatch,    \* inputs: bodies of PATCH /members/:id
    CategoryPatch,  \* inputs: bodies of PATCH /book-categories/:id
    TypePatch,      \* inputs: bodies of PATCH /membership-types/:id
    MaxTime         \* bound: the clock stops here

ASSUME InputAssumption ==
    /\ Quantities \subseteq Nat /\ StartCounts \subseteq Nat
    /\ LoanPeriods \subseteq Nat \ {0} /\ LoanLimits \subseteq Nat
    /\ MaxTime \in Nat /\ IsFiniteSet(Loan)

\* What the update DTOs let through.
ASSUME PatchAssumption ==
    LET Maybe(S) == S \cup {None} IN
    /\ BookPatch \subseteq
          [ status : Maybe({"active", "deactivated"}),
            categoryId : Maybe(Category), totalQuantity : Maybe(Nat) ]
    /\ MemberPatch \subseteq
          [ status : Maybe({"active", "suspended", "inactive"}),
            membershipTypeId : Maybe(MembershipType), activeLoanCount : Maybe(Nat) ]
    /\ CategoryPatch \subseteq
          [ status : Maybe({"active", "deactivated"}), loanPeriodDays : Maybe(Nat) ]
    /\ TypePatch \subseteq
          [ status : Maybe({"active", "deactivated"}), maxActiveLoans : Maybe(Nat) ]

ASSUME NoneAssumption ==
    None \notin Nat \cup Book \cup Member \cup Category \cup MembershipType
                \cup Loan \cup {"active", "deactivated", "suspended", "inactive"}

\* Object ids are unique in the whole database.
ASSUME IdAssumption ==
    /\ Book \cap (Member \cup Category \cup MembershipType) = {}
    /\ Member \cap (Category \cup MembershipType) = {}
    /\ Category \cap MembershipType = {}

VARIABLES
    book, member, category, membershipType, loan,   \* the collections
    call,       \* the local state of each transactional handler
    edit,       \* the local state of each handler in Editor
    now

docs == <<book, member, category, membershipType, loan>>
vars == <<docs, call, edit, now>>

ItemStatus == {"active", "deactivated"}

BookDoc == [ status : ItemStatus \cup {"absent"},
             categoryId : Category \cup {None},
             totalQuantity : Nat, availableQuantity : Nat ]

MemberDoc == [ status : {"absent", "active", "suspended", "inactive"},
               membershipTypeId : MembershipType \cup {None},
               activeLoanCount : Nat ]

CategoryDoc == [ status : ItemStatus \cup {"absent"}, loanPeriodDays : Nat ]

TypeDoc == [ status : ItemStatus \cup {"absent"}, maxActiveLoans : Nat ]

LoanDoc == [ status : {"absent", "active", "returned"},
             memberId : Member \cup {None}, bookId : Book \cup {None},
             borrowedAt : Nat, dueAt : Nat ]

\* What a transaction read and is about to write.  "changed" collects the
\* documents that others have written since its snapshot.
CallState ==
    [ pc : {"idle", "write", "retry"}, kind : {"borrow", "return"},
      memberId : Member \cup {None}, bookId : Book \cup {None},
      loanId : Loan \cup {None},
      available : Nat, count : Nat, borrowedAt : Nat, dueAt : Nat,
      changed : SUBSET (Book \cup Member \cup Loan) ]

IdleCall ==
    [ pc |-> "idle", kind |-> "borrow", memberId |-> None, bookId |-> None,
      loanId |-> None, available |-> 0, count |-> 0, borrowedAt |-> 0,
      dueAt |-> 0, changed |-> {} ]

\* The document a PATCH handler has read and the fields it will set.
IdleEdit == [ target |-> None, writes |-> <<>> ]

TypeOK ==
    /\ book \in [Book -> BookDoc]
    /\ member \in [Member -> MemberDoc]
    /\ category \in [Category -> CategoryDoc]
    /\ membershipType \in [MembershipType -> TypeDoc]
    /\ loan \in [Loan -> LoanDoc]
    /\ call \in [Call -> CallState]
    /\ now \in Nat

Init ==
    /\ book = [b \in Book |-> [ status |-> "absent", categoryId |-> None,
                                totalQuantity |-> 0, availableQuantity |-> 0 ]]
    /\ member = [m \in Member |-> [ status |-> "absent",
                                    membershipTypeId |-> None,
                                    activeLoanCount |-> 0 ]]
    /\ category = [c \in Category |->
                      [ status |-> "absent", loanPeriodDays |-> 0 ]]
    /\ membershipType = [t \in MembershipType |->
                            [ status |-> "absent", maxActiveLoans |-> 0 ]]
    /\ loan = [l \in Loan |-> [ status |-> "absent", memberId |-> None,
                                bookId |-> None, borrowedAt |-> 0,
                                dueAt |-> 0 ]]
    /\ call = [x \in Call |-> IdleCall]
    /\ edit = [e \in Editor |-> IdleEdit]
    /\ now = 0

-----------------------------------------------------------------------------
(* Transactions *)

\* Mutant: no session is passed on, so nothing is validated.
NeverConflicts(x) == FALSE

\* Mutant: only the book is saved under the session.
ConflictsOnBook(x) == call[x].bookId \in call[x].changed

\* The write conflict of snapshot isolation: someone changed a document this
\* transaction writes after its snapshot was taken.
Conflicts(x) ==
    {call[x].bookId, call[x].memberId, call[x].loanId} \cap call[x].changed # {}

\* The other running transactions learn that these documents were written.
Touch(D, calls) ==
    [x \in Call |-> IF calls[x].pc = "write"
                    THEN [calls[x] EXCEPT !.changed = @ \cup D]
                    ELSE calls[x]]

OpenLoans(L) == {l \in L : loan[l].status = "active"}

\* Mutant: only records marked overdue count, and nothing marks them.
NoneMarkedOverdue(m, at) == FALSE

HasOverdueLoans(m, at) ==
    \E l \in OpenLoans(Loan) : loan[l].memberId = m /\ loan[l].dueAt < at

\* The parts of assertCanBorrow that ask whether a document is in use.
InUse(m, b) ==
    /\ book[b].status = "active"
    /\ LET c == category[book[b].categoryId] IN
       c.status = "active" /\ c.loanPeriodDays >= 1
    /\ member[m].status = "active"
    /\ membershipType[member[m].membershipTypeId].status = "active"

MaxActiveLoans(m) == membershipType[member[m].membershipTypeId].maxActiveLoans

\* Mutant: the limit is off by one.
CanBorrowOneMore(m, b, at) ==
    /\ InUse(m, b)
    /\ book[b].availableQuantity >= 1
    /\ member[m].activeLoanCount <= MaxActiveLoans(m)
    /\ ~HasOverdueLoans(m, at)

\* assertCanBorrow, on documents that were all found.
CanBorrow(m, b, at) ==
    /\ InUse(m, b)
    /\ book[b].availableQuantity >= 1
    /\ member[m].activeLoanCount < MaxActiveLoans(m)
    /\ ~HasOverdueLoans(m, at)

\* A first call, or the closure run again by withTransaction.
Enters(x, kind, m, b, l) ==
    \/ call[x].pc = "idle"
    \/ /\ call[x].pc = "retry" /\ call[x].kind = kind
       /\ call[x].memberId = m /\ call[x].bookId = b /\ call[x].loanId = l

\* create(): the reads of one snapshot and the policy check.  A refused
\* request ends with an exception and leaves nothing behind, so a refusal is a
\* step only for a closure that is run again.
BeginBorrow(x, m, b) ==
    /\ Enters(x, "borrow", m, b, None)
    /\ \/ /\ CanBorrow(m, b, now)
          /\ call' = [call EXCEPT ![x] =
                [ IdleCall EXCEPT !.pc = "write", !.memberId = m, !.bookId = b,
                     !.available = book[b].availableQuantity,
                     !.count = member[m].activeLoanCount,
                     !.borrowedAt = now,
                     !.dueAt = now
                         + category[book[b].categoryId].loanPeriodDays ]]
       \/ /\ ~CanBorrow(m, b, now)
          /\ call[x].pc = "retry"
          /\ call' = [call EXCEPT ![x] = IdleCall]
    /\ UNCHANGED <<docs, edit, now>>

\* create(): the new record and both counters are written and committed.
CommitBorrow(x, l) ==
    LET q == call[x] IN
    /\ q.pc = "write" /\ q.kind = "borrow"
    /\ ~Conflicts(x)
    /\ loan[l].status = "absent"
    /\ loan' = [loan EXCEPT ![l] =
          [ status |-> "active", memberId |-> q.memberId, bookId |-> q.bookId,
            borrowedAt |-> q.borrowedAt, dueAt |-> q.dueAt ]]
    /\ book' = [book EXCEPT ![q.bookId].availableQuantity = q.available - 1]
    /\ member' = [member EXCEPT ![q.memberId].activeLoanCount = q.count + 1]
    /\ call' = Touch({q.bookId, q.memberId, l},
                     [call EXCEPT ![x] = IdleCall])
    /\ UNCHANGED <<category, membershipType, edit, now>>

\* Mutant: a returned record can be returned.
ReturnableTwice(l) == loan[l].status # "absent"

\* returnBorrowing() accepts a record that is out.
Returnable(l) == loan[l].status = "active"

\* returnBorrowing(): the reads of one snapshot and the check of the record.
BeginReturn(x, l) ==
    LET m == loan[l].memberId
        b == loan[l].bookId IN
    /\ Enters(x, "return", m, b, l)
    /\ \/ /\ Returnable(l)
          /\ call' = [call EXCEPT ![x] =
                [ IdleCall EXCEPT !.pc = "write", !.kind = "return",
                     !.memberId = m, !.bookId = b, !.loanId = l,
                     !.available = book[b].availableQuantity,
                     !.count = member[m].activeLoanCount ]]
       \/ /\ ~Returnable(l)
          /\ call[x].pc = "retry"
          /\ call' = [call EXCEPT ![x] = IdleCall]
    /\ UNCHANGED <<docs, edit, now>>

\* returnBorrowing(): the record and both counters are written and committed;
\* the member's counter stops at zero.
CommitReturn(x) ==
    LET q == call[x] IN
    /\ q.pc = "write" /\ q.kind = "return"
    /\ ~Conflicts(x)
    /\ loan' = [loan EXCEPT ![q.loanId].status = "returned"]
    /\ book' = [book EXCEPT ![q.bookId].availableQuantity = q.available + 1]
    /\ member' = [member EXCEPT ![q.memberId].activeLoanCount =
                     IF q.count = 0 THEN 0 ELSE q.count - 1]
    /\ call' = Touch({q.bookId, q.memberId, q.loanId},
                     [call EXCEPT ![x] = IdleCall])
    /\ UNCHANGED <<category, membershipType, edit, now>>

\* withTransaction: a write conflict makes it run the closure again.
Retry(x) ==
    /\ call[x].pc = "write"
    /\ Conflicts(x)
    /\ call' = [call EXCEPT ![x] =
          [IdleCall EXCEPT !.pc = "retry", !.kind = call[x].kind,
              !.memberId = call[x].memberId, !.bookId = call[x].bookId,
              !.loanId = call[x].loanId]]
    /\ UNCHANGED <<docs, edit, now>>

\* The process dies, or the transaction is given up; nothing was written.
AbortCall(x) ==
    /\ call[x].pc # "idle"
    /\ call' = [call EXCEPT ![x] = IdleCall]
    /\ UNCHANGED <<docs, edit, now>>

-----------------------------------------------------------------------------
(* The catalogue services: creation *)

CreateCategory(c, days) ==
    /\ category[c].status = "absent"
    /\ category' = [category EXCEPT ![c] =
          [ status |-> "active", loanPeriodDays |-> days ]]
    /\ UNCHANGED <<book, member, membershipType, loan, call, edit, now>>

CreateMembershipType(t, limit) ==
    /\ membershipType[t].status = "absent"
    /\ membershipType' = [membershipType EXCEPT ![t] =
          [ status |-> "active", maxActiveLoans |-> limit ]]
    /\ UNCHANGED <<book, member, category, loan, call, edit, now>>

\* A book comes with all its copies available; its category is not checked.
CreateBook(b, c, quantity) ==
    /\ book[b].status = "absent"
    /\ book' = [book EXCEPT ![b] =
          [ status |-> "active", categoryId |-> c,
            totalQuantity |-> quantity, availableQuantity |-> quantity ]]
    /\ UNCHANGED <<member, category, membershipType, loan, call, edit, now>>

-----------------------------------------------------------------------------
(* Member creation and the PATCH handlers: read, later save what changed *)

\* A field is saved when the request names it with another value than was read.
Changed(value, read) == IF value = read THEN None ELSE value

\* save() sets the changed fields and leaves the others as they are by now.
Saved(doc, writes) ==
    [k \in DOMAIN doc |-> IF writes[k] = None THEN doc[k] ELSE writes[k]]

Editing(e, target, writes) ==
    /\ edit[e].target = None
    /\ edit' = [edit EXCEPT ![e] = [ target |-> target, writes |-> writes ]]
    /\ UNCHANGED <<docs, call, now>>

\* BooksService.update up to its save: a new total moves the available count
\* by the same amount and may not go below the copies that are out.
ReadBook(e, b, p) ==
    LET old == book[b]
        quantity == IF p.totalQuantity = None THEN old.totalQuantity
                                              ELSE p.totalQuantity IN
    /\ old.status # "absent"
    /\ quantity + old.availableQuantity >= old.totalQuantity
    /\ Editing(e, b,
          [ status |-> Changed(p.status, old.status),
            categoryId |-> Changed(p.categoryId, old.categoryId),
            totalQuantity |-> Changed(quantity, old.totalQuantity),
            availableQuantity |->
                Changed(old.availableQuantity + quantity - old.totalQuantity,
                        old.availableQuantity) ])

SaveBook(e, b) ==
    /\ edit[e].target = b
    /\ book' = [book EXCEPT ![b] = Saved(book[b], edit[e].writes)]
    /\ edit' = [edit EXCEPT ![e] = IdleEdit]
    /\ call' = Touch({b}, call)
    /\ UNCHANGED <<member, category, membershipType, loan, now>>

\* MembersService.create up to its save: the membership type is checked, and the
\* request may set the counter.  SaveMember inserts the document under an id no
\* other handler has.
CreateMember(e, m, t, count) ==
    /\ member[m].status = "absent"
    /\ \A other \in Editor : edit[other].target # m
    /\ membershipType[t].status = "active"
    /\ Editing(e, m, [ status |-> "active", membershipTypeId |-> t,
                       activeLoanCount |-> count ])

\* MembersService.update up to its save (identifiers and sessions aside): a new
\* membership type must be active.
ReadMember(e, m, p) ==
    LET old == member[m] IN
    /\ old.status # "absent"
    /\ p.membershipTypeId # None =>
          membershipType[p.membershipTypeId].status = "active"
    /\ Editing(e, m,
          [ status |-> Changed(p.status, old.status),
            membershipTypeId |->
                Changed(p.membershipTypeId, old.membershipTypeId),
            activeLoanCount |->
                Changed(p.activeLoanCount, old.activeLoanCount) ])

SaveMember(e, m) ==
    /\ edit[e].target = m
    /\ member' = [member EXCEPT ![m] = Saved(member[m], edit[e].writes)]
    /\ edit' = [edit EXCEPT ![e] = IdleEdit]
    /\ call' = Touch({m}, call)
    /\ UNCHANGED <<book, category, membershipType, loan, now>>

\* BookCategoriesService.update.
ReadCategory(e, c, p) ==
    LET old == category[c] IN
    /\ old.status # "absent"
    /\ Editing(e, c,
          [ status |-> Changed(p.status, old.status),
            loanPeriodDays |-> Changed(p.loanPeriodDays, old.loanPeriodDays) ])

SaveCategory(e, c) ==
    /\ edit[e].target = c
    /\ category' = [category EXCEPT ![c] = Saved(category[c], edit[e].writes)]
    /\ edit' = [edit EXCEPT ![e] = IdleEdit]
    /\ UNCHANGED <<book, member, membershipType, loan, call, now>>

\* MembershipTypesService.update.
ReadType(e, t, p) ==
    LET old == membershipType[t] IN
    /\ old.status # "absent"
    /\ Editing(e, t,
          [ status |-> Changed(p.status, old.status),
            maxActiveLoans |-> Changed(p.maxActiveLoans, old.maxActiveLoans) ])

SaveType(e, t) ==
    /\ edit[e].target = t
    /\ membershipType' = [membershipType EXCEPT ![t] =
                             Saved(membershipType[t], edit[e].writes)]
    /\ edit' = [edit EXCEPT ![e] = IdleEdit]
    /\ UNCHANGED <<book, member, category, loan, call, now>>

\* The handler ends before its save: an error or a crash.
AbortEdit(e) ==
    /\ edit[e].target # None
    /\ edit' = [edit EXCEPT ![e] = IdleEdit]
    /\ UNCHANGED <<docs, call, now>>

Tick ==
    /\ now < MaxTime
    /\ now' = now + 1
    /\ UNCHANGED <<docs, call, edit>>

CallStep(x) ==
    \/ \E m \in Member, b \in Book : BeginBorrow(x, m, b)
    \/ \E l \in Loan : CommitBorrow(x, l) \/ BeginReturn(x, l)
    \/ CommitReturn(x) \/ Retry(x) \/ AbortCall(x)

EditStep(e) ==
    \/ \E m \in Member, t \in MembershipType, n \in StartCounts :
          CreateMember(e, m, t, n)
    \/ \E b \in Book, p \in BookPatch : ReadBook(e, b, p)
    \/ \E m \in Member, p \in MemberPatch : ReadMember(e, m, p)
    \/ \E c \in Category, p \in CategoryPatch : ReadCategory(e, c, p)
    \/ \E t \in MembershipType, p \in TypePatch : ReadType(e, t, p)
    \/ \E b \in Book : SaveBook(e, b)
    \/ \E m \in Member : SaveMember(e, m)
    \/ \E c \in Category : SaveCategory(e, c)
    \/ \E t \in MembershipType : SaveType(e, t)
    \/ AbortEdit(e)

CreateStep ==
    \/ \E c \in Category, n \in LoanPeriods : CreateCategory(c, n)
    \/ \E t \in MembershipType, n \in LoanLimits : CreateMembershipType(t, n)
    \/ \E b \in Book, c \in Category, n \in Quantities : CreateBook(b, c, n)

Next ==
    \/ \E x \in Call : CallStep(x)
    \/ \E e \in Editor : EditStep(e)
    \/ CreateStep
    \/ Tick

Spec == Init /\ [][Next]_vars

-----------------------------------------------------------------------------
(* Correctness *)

\* Every copy of a book is on the shelf or out on an open loan, although the
\* available count and the records are separate documents written by
\* concurrent transactions (data-model.md: "Increment Book.availableQuantity
\* exactly once").
Conservation ==
    \A b \in Book :
        book[b].availableQuantity
          + Cardinality({l \in OpenLoans(Loan) : loan[l].bookId = b})
        = book[b].totalQuantity

\* The member's counter is the number of open loans, so the limit it is
\* compared with limits the loans themselves.
CountMatchesLoans ==
    \A m \in Member :
        member[m].activeLoanCount =
            Cardinality({l \in OpenLoans(Loan) : loan[l].memberId = m})

\* No member ever holds more books than the membership type allows, whichever
\* desks lend to him at the same time (spec.md SC-003).
WithinLimit ==
    \A m \in Member : member[m].status # "absent" =>
        Cardinality({l \in OpenLoans(Loan) : loan[l].memberId = m})
          <= MaxActiveLoans(m)

\* When a loan opens, its member and its book are still in the state the
\* policy check saw: a suspension or deactivation saved after the check and
\* before the commit prevents the loan.
OpensOnlyIfEligible ==
    [][ \A l \in Loan :
          loan[l].status = "absent" /\ loan'[l].status = "active" =>
             /\ member[loan'[l].memberId].status = "active"
             /\ book[loan'[l].bookId].status = "active"
             /\ book[loan'[l].bookId].availableQuantity >= 1 ]_vars

\* A member with an open loan that was overdue when the new one was made gets
\* no new loan (data-model.md: "New borrowing is blocked when the member has any
\* active overdue loan").
NoLoanWhileOverdue ==
    [][ \A l, k \in Loan :
          (/\ loan[l].status = "absent" /\ loan'[l].status = "active"
           /\ loan[k].status = "active"
           /\ loan[k].memberId = loan'[l].memberId)
          => loan[k].dueAt >= loan'[l].borrowedAt ]_vars

\* The collections, read as the abstract shelf and its loans.
Desk == INSTANCE Circulation WITH
    acquired <- {b \in Book : book[b].status # "absent"},
    shelf <- [b \in Book |-> book[b].availableQuantity],
    out <- [l \in Loan |-> IF loan[l].status = "active"
                           THEN <<loan[l].memberId, loan[l].bookId>>
                           ELSE None]

\* Lending through transactions that may conflict, be repeated and be abandoned
\* implements Circulation: each commit moves exactly one copy.
ImplementsCirculation == Desk!Spec

-----------------------------------------------------------------------------
(* A statement of the documentation that a concurrent PATCH of a book breaks *)

\* data-model.md: "totalQuantity cannot be reduced below active loans for the
\* book".
TotalCoversLoans ==
    \A b \in Book :
        Cardinality({l \in OpenLoans(Loan) : loan[l].bookId = b})
          <= book[b].totalQuantity

=============================================================================
