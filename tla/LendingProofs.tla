--------------------------- MODULE LendingProofs ----------------------------
(***************************************************************************)
(* Proofs about Lending: types, what a loan that opens may rely on, the    *)
(* conservation of copies, the counters of the members, their limits, and  *)
(* that lending implements Circulation.                                    *)
(***************************************************************************)
EXTENDS Lending, FiniteSetTheorems, TLAPS

-----------------------------------------------------------------------------
(* The inductive invariant *)

Maybe(S) == S \cup {None}

BookWrites == [ status : Maybe(ItemStatus), categoryId : Maybe(Category),
                totalQuantity : Maybe(Nat), availableQuantity : Maybe(Nat) ]

MemberWrites == [ status : Maybe({"active", "suspended", "inactive"}),
                  membershipTypeId : Maybe(MembershipType),
                  activeLoanCount : Maybe(Nat) ]

CategoryWrites == [ status : Maybe(ItemStatus), loanPeriodDays : Maybe(Nat) ]

TypeWrites == [ status : Maybe(ItemStatus), maxActiveLoans : Maybe(Nat) ]

EditState ==
    {IdleEdit} \cup [ target : Book, writes : BookWrites ]
    \cup [ target : Member, writes : MemberWrites ]
    \cup [ target : Category, writes : CategoryWrites ]
    \cup [ target : MembershipType, writes : TypeWrites ]

TypeExists(t) == t \in MembershipType /\ membershipType[t].status # "absent"

\* A handler that saves a document later has found it, or creates a member.
Found(d) ==
    /\ d.target \in Book => book[d.target].status # "absent"
    /\ d.target \in Member =>
          /\ \/ member[d.target].status # "absent"
             \/ /\ d.writes.status # None
                /\ d.writes.membershipTypeId # None
                /\ d.writes.activeLoanCount # None
          /\ \/ d.writes.membershipTypeId = None
             \/ TypeExists(d.writes.membershipTypeId)
    /\ d.target \in Category => category[d.target].status # "absent"
    /\ d.target \in MembershipType => membershipType[d.target].status # "absent"

EditInv ==
    /\ edit \in [Editor -> EditState]
    /\ \A e \in Editor : Found(edit[e])

BookExists(b) == b \in Book /\ book[b].status # "absent"
MemberExists(m) == m \in Member /\ member[m].status # "absent"

\* References lead to documents.
ReferenceInv ==
    /\ \A b \in Book : book[b].status # "absent" => book[b].categoryId \in Category
    /\ \A m \in Member : member[m].status # "absent" =>
          TypeExists(member[m].membershipTypeId)
    /\ \A l \in Loan : loan[l].status = "active" =>
          MemberExists(loan[l].memberId) /\ BookExists(loan[l].bookId)

\* What a transaction has read still holds of every document that nobody has
\* written since.
Snapshot(x) ==
    LET q == call[x] IN
    /\ MemberExists(q.memberId) /\ BookExists(q.bookId)
    /\ q.bookId \notin q.changed => q.available = book[q.bookId].availableQuantity
    /\ q.memberId \notin q.changed => q.count = member[q.memberId].activeLoanCount

BorrowSnapshot(x) ==
    LET q == call[x] IN
    /\ q.bookId \notin q.changed => book[q.bookId].status = "active" /\ q.available >= 1
    /\ q.memberId \notin q.changed =>
          /\ member[q.memberId].status = "active"
          /\ \A l \in Loan : loan[l].status = "active" /\ loan[l].memberId = q.memberId
                => loan[l].dueAt >= q.borrowedAt

ReturnSnapshot(x) ==
    LET q == call[x] IN
    /\ q.loanId \in Loan
    /\ q.loanId \notin q.changed =>
          /\ loan[q.loanId].status = "active"
          /\ loan[q.loanId].memberId = q.memberId
          /\ loan[q.loanId].bookId = q.bookId

CallInv ==
    \A x \in Call : call[x].pc = "write" =>
        /\ Snapshot(x)
        /\ call[x].kind = "borrow" => BorrowSnapshot(x)
        /\ call[x].kind = "return" => ReturnSnapshot(x)

LendingInv == TypeOK /\ EditInv /\ ReferenceInv /\ CallInv


\* No handler deletes a document.
NoneRemoved ==
    /\ \A b \in Book : book[b].status # "absent" => book'[b].status # "absent"
    /\ \A m \in Member : member[m].status # "absent" => member'[m].status # "absent"
    /\ \A c \in Category :
          category[c].status # "absent" => category'[c].status # "absent"
    /\ \A t \in MembershipType :
          membershipType[t].status # "absent" => membershipType'[t].status # "absent"

LEMMA InitLendingInv == Init => LendingInv
<1> SUFFICES ASSUME Init PROVE LendingInv
  OBVIOUS
<1>1. TypeOK
  BY DEF Init, TypeOK, BookDoc, MemberDoc, CategoryDoc, TypeDoc, LoanDoc,
      CallState, IdleCall, ItemStatus
<1>2. EditInv
  BY NoneAssumption DEF Init, EditInv, Found, EditState, IdleEdit
<1>3. ReferenceInv /\ CallInv
  BY NoneAssumption DEF Init, ReferenceInv, CallInv, IdleCall
<1> QED BY <1>1, <1>2, <1>3 DEF LendingInv

-----------------------------------------------------------------------------
(* Steps that write no document *)

\* The handlers beside the one that moves keep what they have read.
LEMMA OtherCallsKeep ==
    ASSUME LendingInv, NEW x \in Call, NEW q \in CallState,
           call' = [call EXCEPT ![x] = q], UNCHANGED <<docs, edit, now>>,
           q.pc = "write" => (Snapshot(x) /\ (q.kind = "borrow" => BorrowSnapshot(x))
                                /\ (q.kind = "return" => ReturnSnapshot(x)))'
    PROVE  LendingInv'
<1>1. TypeOK'
  BY DEF LendingInv, TypeOK, docs
<1>2. EditInv' /\ ReferenceInv'
  BY DEF LendingInv, EditInv, Found, ReferenceInv, BookExists, MemberExists, TypeExists,
      docs
<1>3. ASSUME NEW y \in Call, y # x, call'[y].pc = "write"
      PROVE  (/\ Snapshot(y)
              /\ call[y].kind = "borrow" => BorrowSnapshot(y)
              /\ call[y].kind = "return" => ReturnSnapshot(y))'
  <2>1. call'[y] = call[y]
    BY <1>3 DEF LendingInv, TypeOK
  <2> QED BY <1>3, <2>1 DEF LendingInv, CallInv, Snapshot, BorrowSnapshot,
             ReturnSnapshot, BookExists, MemberExists, docs
<1>4. call'[x] = q
  BY DEF LendingInv, TypeOK
<1>5. CallInv'
  BY <1>3, <1>4 DEF CallInv
<1> QED BY <1>1, <1>2, <1>5 DEF LendingInv

LEMMA IdleCallType == IdleCall \in CallState /\ IdleCall.pc = "idle"
BY DEF IdleCall, CallState

\* A refused, an abandoned and a conflicting transaction.
LEMMA EndCallKeeps ==
    ASSUME LendingInv, NEW x \in Call, Retry(x) \/ AbortCall(x)
    PROVE  LendingInv'
<1>1. CASE Retry(x)
  <2> DEFINE q == [IdleCall EXCEPT !.pc = "retry", !.kind = call[x].kind,
                     !.memberId = call[x].memberId, !.bookId = call[x].bookId,
                     !.loanId = call[x].loanId]
  <2>1. call[x] \in CallState
    BY DEF LendingInv, TypeOK
  <2>2. q \in CallState /\ q.pc = "retry"
    BY <2>1 DEF CallState, IdleCall
  <2>3. call' = [call EXCEPT ![x] = q] /\ UNCHANGED <<docs, edit, now>>
    BY <1>1 DEF Retry
  <2> HIDE DEF q
  <2> QED BY <2>2, <2>3, OtherCallsKeep
<1>2. CASE AbortCall(x)
  BY <1>2, IdleCallType, OtherCallsKeep DEF AbortCall
<1> QED BY <1>1, <1>2

\* create() up to its writes.
LEMMA BeginBorrowKeeps ==
    ASSUME LendingInv, NEW x \in Call, NEW m \in Member, NEW b \in Book,
           BeginBorrow(x, m, b)
    PROVE  LendingInv'
<1>0. /\ book[b] \in BookDoc /\ member[m] \in MemberDoc /\ now \in Nat
      /\ UNCHANGED <<docs, edit, now>>
  BY DEF LendingInv, TypeOK, BeginBorrow
<1>1. CASE CanBorrow(m, b, now)
  <2> DEFINE period == category[book[b].categoryId].loanPeriodDays
             available == book[b].availableQuantity
             count == member[m].activeLoanCount
             due == now + period
             q == [ IdleCall EXCEPT !.pc = "write", !.memberId = m, !.bookId = b,
                      !.available = available, !.count = count,
                      !.borrowedAt = now, !.dueAt = due ]
  <2>1. period \in Nat
    <3>1. book[b].categoryId \in Category
      BY <1>1 DEF CanBorrow, InUse, LendingInv, ReferenceInv
    <3> QED BY <3>1 DEF LendingInv, TypeOK, CategoryDoc
  <2>2. available \in Nat /\ count \in Nat /\ due \in Nat
    BY <1>0, <2>1 DEF BookDoc, MemberDoc
  <2>3. call' = [call EXCEPT ![x] = q]
    BY <1>1 DEF BeginBorrow
  <2>4. /\ book[b].status = "active" /\ available >= 1
        /\ member[m].status = "active"
        /\ \A l \in Loan : loan[l].status = "active" /\ loan[l].memberId = m
              => loan[l].dueAt >= now
    <3>1. ASSUME NEW l \in Loan, loan[l].status = "active", loan[l].memberId = m
          PROVE  loan[l].dueAt >= now
      <4>1. ~(loan[l].dueAt < now)
        BY <1>1, <3>1 DEF CanBorrow, HasOverdueLoans, OpenLoans
      <4>2. loan[l].dueAt \in Nat
        BY DEF LendingInv, TypeOK, LoanDoc
      <4> QED BY <1>0, <4>1, <4>2
    <3> QED BY <1>1, <3>1 DEF CanBorrow, InUse
  <2> HIDE DEF period, due
  <2>5. q \in CallState
    BY <1>0, <2>2 DEF IdleCall, CallState
  <2>6. /\ q.pc = "write" /\ q.kind = "borrow" /\ q.memberId = m /\ q.bookId = b
        /\ q.available = available /\ q.count = count /\ q.borrowedAt = now
        /\ q.changed = {}
    BY DEF IdleCall
  <2>7. call'[x] = q
    BY <2>3 DEF LendingInv, TypeOK
  <2> HIDE DEF q
  <2>8. Snapshot(x)' /\ BorrowSnapshot(x)'
    BY <1>0, <2>4, <2>6, <2>7 DEF Snapshot, BorrowSnapshot, BookExists, MemberExists, docs
  <2> QED BY <1>0, <2>3, <2>5, <2>6, <2>8, OtherCallsKeep
<1>2. CASE ~CanBorrow(m, b, now)
  BY <1>0, <1>2, IdleCallType, OtherCallsKeep DEF BeginBorrow
<1> QED BY <1>1, <1>2

\* returnBorrowing() up to its writes.
LEMMA BeginReturnKeeps ==
    ASSUME LendingInv, NEW x \in Call, NEW l \in Loan, BeginReturn(x, l)
    PROVE  LendingInv'
<1>0. UNCHANGED <<docs, edit, now>>
  BY DEF BeginReturn
<1>1. CASE Returnable(l)
  <2> DEFINE m == loan[l].memberId
             b == loan[l].bookId
             available == book[b].availableQuantity
             count == member[m].activeLoanCount
             q == [ IdleCall EXCEPT !.pc = "write", !.kind = "return",
                      !.memberId = m, !.bookId = b, !.loanId = l,
                      !.available = available, !.count = count ]
  <2>1. MemberExists(m) /\ BookExists(b) /\ loan[l].status = "active"
    BY <1>1 DEF Returnable, LendingInv, ReferenceInv
  <2>2. available \in Nat /\ count \in Nat
    BY <2>1 DEF LendingInv, TypeOK, BookDoc, MemberDoc, BookExists, MemberExists
  <2>3. call' = [call EXCEPT ![x] = q]
    BY <1>1 DEF BeginReturn
  <2>4. loan[l].memberId = m /\ loan[l].bookId = b /\ available = book[b].availableQuantity
        /\ count = member[m].activeLoanCount
    OBVIOUS
  <2> HIDE DEF m, b, available, count
  <2>5. q \in CallState
    BY <2>1, <2>2 DEF IdleCall, CallState, BookExists, MemberExists
  <2>6. /\ q.pc = "write" /\ q.kind = "return" /\ q.memberId = m /\ q.bookId = b
        /\ q.loanId = l /\ q.available = available /\ q.count = count
        /\ q.changed = {}
    BY DEF IdleCall
  <2>7. call'[x] = q
    BY <2>3 DEF LendingInv, TypeOK
  <2> HIDE DEF q
  <2>8. Snapshot(x)' /\ ReturnSnapshot(x)'
    BY <1>0, <2>1, <2>4, <2>6, <2>7 DEF Snapshot, ReturnSnapshot, BookExists,
        MemberExists, docs
  <2> QED BY <1>0, <2>3, <2>5, <2>6, <2>8, OtherCallsKeep
<1>2. CASE ~Returnable(l)
  BY <1>0, <1>2, IdleCallType, OtherCallsKeep DEF BeginReturn
<1> QED BY <1>1, <1>2

-----------------------------------------------------------------------------
(* What a step keeps of what others have read *)

LEMMA EditsKept ==
    ASSUME EditInv, NoneRemoved, UNCHANGED edit
    PROVE  EditInv'
<1>1. ASSUME NEW e \in Editor PROVE Found(edit[e])'
  BY <1>1 DEF EditInv, NoneRemoved, Found, TypeExists
<1> QED BY <1>1 DEF EditInv

LEMMA ReferencesKept ==
    ASSUME ReferenceInv, NoneRemoved,
           \A b \in Book : book'[b].status # "absent" => book'[b].categoryId \in Category,
           \A m \in Member : member'[m].status # "absent" =>
              TypeExists(member[m].membershipTypeId)',
           \A l \in Loan : loan'[l].status = "active" =>
              \/ loan'[l] = loan[l]
              \/ MemberExists(loan[l].memberId)' /\ BookExists(loan[l].bookId)'
    PROVE  ReferenceInv'
BY DEF ReferenceInv, NoneRemoved, MemberExists, BookExists

\* Who is told that documents were written.
LEMMA Touched ==
    ASSUME NEW c \in [Call -> CallState],
           NEW D \in SUBSET (Book \cup Member \cup Loan), call' = Touch(D, c)
    PROVE  /\ call' \in [Call -> CallState]
           /\ \A y \in Call :
                 \/ call'[y] = c[y] /\ c[y].pc # "write"
                 \/ /\ c[y].pc = "write"
                    /\ call'[y] = [c[y] EXCEPT !.changed = @ \cup D]
<1>1. call' = [y \in Call |-> IF c[y].pc = "write"
                              THEN [c[y] EXCEPT !.changed = @ \cup D] ELSE c[y]]
  BY DEF Touch
<1>2. ASSUME NEW y \in Call PROVE [c[y] EXCEPT !.changed = @ \cup D] \in CallState
  BY <1>2 DEF CallState
<1> QED BY <1>1, <1>2

LEMMA TouchedOthers ==
    ASSUME call \in [Call -> CallState], NEW x \in Call,
           NEW D \in SUBSET (Book \cup Member \cup Loan),
           call' = Touch(D, [call EXCEPT ![x] = IdleCall])
    PROVE  /\ call' \in [Call -> CallState]
           /\ \A y \in Call : call'[y].pc = "write" =>
                 /\ y # x /\ call[y].pc = "write"
                 /\ call'[y] = [call[y] EXCEPT !.changed = @ \cup D]
<1> DEFINE c == [call EXCEPT ![x] = IdleCall]
<1>1. c \in [Call -> CallState] /\ c[x] = IdleCall
  BY IdleCallType
<1>2. \A y \in Call \ {x} : c[y] = call[y]
  OBVIOUS
<1>3. call' = Touch(D, c)
  OBVIOUS
<1> HIDE DEF c
<1>4. /\ call' \in [Call -> CallState]
      /\ \A y \in Call :
            \/ call'[y] = c[y] /\ c[y].pc # "write"
            \/ /\ c[y].pc = "write"
               /\ call'[y] = [c[y] EXCEPT !.changed = @ \cup D]
  BY <1>1, <1>3, Touched
<1>5. ASSUME NEW y \in Call, call'[y].pc = "write"
      PROVE  /\ y # x /\ call[y].pc = "write"
             /\ call'[y] = [call[y] EXCEPT !.changed = @ \cup D]
  BY <1>1, <1>2, <1>4, <1>5, IdleCallType
<1> QED BY <1>4, <1>5

\* A handler that was told of the documents D keeps what it has read of others.
LEMMA SnapshotKept ==
    ASSUME LendingInv, NoneRemoved, NEW y \in Call, call[y].pc = "write",
           NEW D \in SUBSET (Book \cup Member \cup Loan),
           call'[y] = [call[y] EXCEPT !.changed = @ \cup D],
           \A b \in Book \ D : book'[b] = book[b],
           \A m \in Member \ D : member'[m] = member[m],
           \A l \in Loan \ D : loan'[l] = loan[l],
           \A l \in Loan : loan'[l].status = "active" /\ loan'[l].memberId \notin D
              => loan'[l] = loan[l]
    PROVE  (/\ Snapshot(y)
            /\ call[y].kind = "borrow" => BorrowSnapshot(y)
            /\ call[y].kind = "return" => ReturnSnapshot(y))'
<1> DEFINE q == call[y]
           r == call'[y]
<1>1. /\ r.kind = q.kind /\ r.memberId = q.memberId /\ r.bookId = q.bookId
      /\ r.loanId = q.loanId /\ r.available = q.available /\ r.count = q.count
      /\ r.borrowedAt = q.borrowedAt /\ r.changed = q.changed \cup D
  BY DEF LendingInv, TypeOK, CallState
<1>2. /\ Snapshot(y)
      /\ q.kind = "borrow" => BorrowSnapshot(y)
      /\ q.kind = "return" => ReturnSnapshot(y)
  BY DEF LendingInv, CallInv
<1> HIDE DEF q, r
<1>3. MemberExists(q.memberId) /\ BookExists(q.bookId)
  BY <1>2 DEF Snapshot, q
<1>4. MemberExists(call[y].memberId)' /\ BookExists(call[y].bookId)'
  BY <1>1, <1>3 DEF NoneRemoved, MemberExists, BookExists, q, r
<1>5. Snapshot(y)'
  BY <1>1, <1>2, <1>3, <1>4 DEF Snapshot, MemberExists, BookExists, q, r
<1>6. ASSUME r.kind = "borrow" PROVE BorrowSnapshot(y)'
  BY <1>1, <1>2, <1>3, <1>6 DEF Snapshot, BorrowSnapshot, MemberExists, BookExists, q, r
<1>7. ASSUME r.kind = "return" PROVE ReturnSnapshot(y)'
  BY <1>1, <1>2, <1>7 DEF ReturnSnapshot, q, r
<1> QED BY <1>5, <1>6, <1>7 DEF r

-----------------------------------------------------------------------------
(* Commits *)

\* One counter is written and everything else of the document stays.
LEMMA BookCounter ==
    ASSUME book \in [Book -> BookDoc], NEW b \in Book, NEW n \in Nat,
           book' = [book EXCEPT ![b].availableQuantity = n]
    PROVE  /\ book' \in [Book -> BookDoc]
           /\ book'[b].availableQuantity = n
           /\ \A c \in Book : /\ book'[c].status = book[c].status
                              /\ book'[c].categoryId = book[c].categoryId
                              /\ book'[c].totalQuantity = book[c].totalQuantity
                              /\ c # b => book'[c] = book[c]
<1> DEFINE d == book[b]
           new == [d EXCEPT !.availableQuantity = n]
<1>1. d \in BookDoc
  OBVIOUS
<1>2. new \in BookDoc /\ new.availableQuantity = n /\ new.status = d.status
      /\ new.categoryId = d.categoryId /\ new.totalQuantity = d.totalQuantity
  BY <1>1 DEF BookDoc
<1>3. book' = [book EXCEPT ![b] = new]
  OBVIOUS
<1> HIDE DEF new
<1> QED BY <1>2, <1>3

LEMMA MemberCounter ==
    ASSUME member \in [Member -> MemberDoc], NEW m \in Member, NEW n \in Nat,
           member' = [member EXCEPT ![m].activeLoanCount = n]
    PROVE  /\ member' \in [Member -> MemberDoc]
           /\ member'[m].activeLoanCount = n
           /\ \A k \in Member : /\ member'[k].status = member[k].status
                                /\ member'[k].membershipTypeId = member[k].membershipTypeId
                                /\ k # m => member'[k] = member[k]
<1> DEFINE d == member[m]
           new == [d EXCEPT !.activeLoanCount = n]
<1>1. d \in MemberDoc
  OBVIOUS
<1>2. new \in MemberDoc /\ new.activeLoanCount = n /\ new.status = d.status
      /\ new.membershipTypeId = d.membershipTypeId
  BY <1>1 DEF MemberDoc
<1>3. member' = [member EXCEPT ![m] = new]
  OBVIOUS
<1> HIDE DEF new
<1> QED BY <1>2, <1>3

\* Both commits: two counters and one record are written, and the documents
\* that were written are the ones the others are told of.
LEMMA CommitKeeps ==
    ASSUME LendingInv, NEW x \in Call, NEW b, NEW m, NEW l \in Loan,
           MemberExists(m), BookExists(b), NEW n \in Nat, NEW k \in Nat,
           NEW new \in LoanDoc, new.status # "active" \/ (new.memberId = m /\ new.bookId = b),
           loan' = [loan EXCEPT ![l] = new],
           book' = [book EXCEPT ![b].availableQuantity = n],
           member' = [member EXCEPT ![m].activeLoanCount = k],
           call' = Touch({b, m, l}, [call EXCEPT ![x] = IdleCall]),
           UNCHANGED <<category, membershipType, edit, now>>
    PROVE  LendingInv' /\ NoneRemoved
<1> DEFINE D == {b, m, l}
<1>1. /\ TypeOK /\ EditInv /\ ReferenceInv /\ m \in Member /\ b \in Book
      /\ book \in [Book -> BookDoc] /\ member \in [Member -> MemberDoc]
      /\ loan \in [Loan -> LoanDoc] /\ call \in [Call -> CallState]
  BY DEF LendingInv, TypeOK, MemberExists, BookExists
<1>2. D \in SUBSET (Book \cup Member \cup Loan) /\ b \in D /\ m \in D /\ l \in D
  BY <1>1
<1>3. call' = Touch(D, [call EXCEPT ![x] = IdleCall])
  OBVIOUS
<1> HIDE DEF D
<1>4. /\ book' \in [Book -> BookDoc]
      /\ \A c \in Book : /\ book'[c].status = book[c].status
                         /\ book'[c].categoryId = book[c].categoryId
                         /\ c # b => book'[c] = book[c]
  BY <1>1, BookCounter
<1>5. /\ member' \in [Member -> MemberDoc]
      /\ \A c \in Member : /\ member'[c].status = member[c].status
                           /\ member'[c].membershipTypeId = member[c].membershipTypeId
                           /\ c # m => member'[c] = member[c]
  BY <1>1, MemberCounter
<1>6. /\ loan' \in [Loan -> LoanDoc]
      /\ loan'[l] = new
      /\ \A c \in Loan : c # l => loan'[c] = loan[c]
  BY <1>1
<1>7. NoneRemoved
  BY <1>4, <1>5 DEF NoneRemoved
<1>8. EditInv'
  BY <1>1, <1>7, EditsKept
<1>9. ReferenceInv'
  <2>1. \A c \in Book : book'[c].status # "absent" => book'[c].categoryId \in Category
    BY <1>1, <1>4 DEF ReferenceInv
  <2>2. \A c \in Member : member'[c].status # "absent" =>
           TypeExists(member[c].membershipTypeId)'
    BY <1>1, <1>5 DEF ReferenceInv, TypeExists
  <2>3. \A c \in Loan : loan'[c].status = "active" =>
           \/ loan'[c] = loan[c]
           \/ MemberExists(loan[c].memberId)' /\ BookExists(loan[c].bookId)'
    BY <1>4, <1>5, <1>6 DEF MemberExists, BookExists
  <2> QED BY <1>1, <1>7, <2>1, <2>2, <2>3, ReferencesKept
<1>10. /\ call' \in [Call -> CallState]
       /\ \A y \in Call : call'[y].pc = "write" =>
             /\ y # x /\ call[y].pc = "write"
             /\ call'[y] = [call[y] EXCEPT !.changed = @ \cup D]
  BY <1>1, <1>2, <1>3, TouchedOthers
<1>11. TypeOK'
  BY <1>1, <1>4, <1>5, <1>6, <1>10 DEF TypeOK
<1>12. ASSUME NEW y \in Call, call'[y].pc = "write"
       PROVE  (/\ Snapshot(y)
               /\ call[y].kind = "borrow" => BorrowSnapshot(y)
               /\ call[y].kind = "return" => ReturnSnapshot(y))'
  <2>1. /\ \A c \in Book \ D : book'[c] = book[c]
        /\ \A c \in Member \ D : member'[c] = member[c]
        /\ \A c \in Loan \ D : loan'[c] = loan[c]
    BY <1>2, <1>4, <1>5, <1>6
  <2>2. \A c \in Loan : loan'[c].status = "active" /\ loan'[c].memberId \notin D
           => loan'[c] = loan[c]
    BY <1>2, <1>6
  <2> QED BY <1>2, <1>7, <1>10, <1>12, <2>1, <2>2, SnapshotKept
<1> QED BY <1>7, <1>8, <1>9, <1>11, <1>12 DEF LendingInv, CallInv

\* What a loan that opens was checked against is still so.
LEMMA BorrowFacts ==
    ASSUME LendingInv, NEW x \in Call, NEW l \in Loan, CommitBorrow(x, l)
    PROVE  LET m == call[x].memberId
               b == call[x].bookId IN
           /\ MemberExists(m) /\ BookExists(b)
           /\ member[m].status = "active" /\ book[b].status = "active"
           /\ book[b].availableQuantity >= 1
           /\ \A k \in Loan : loan[k].status = "active" /\ loan[k].memberId = m
                => loan[k].dueAt >= call[x].borrowedAt
           /\ loan[l].status = "absent"
           /\ loan' = [loan EXCEPT ![l] =
                 [ status |-> "active", memberId |-> m, bookId |-> b,
                   borrowedAt |-> call[x].borrowedAt, dueAt |-> call[x].dueAt ]]
           /\ book' = [book EXCEPT ![b].availableQuantity =
                          book[b].availableQuantity - 1]
           /\ member' = [member EXCEPT ![m].activeLoanCount =
                            member[m].activeLoanCount + 1]
<1>1. Snapshot(x) /\ BorrowSnapshot(x)
  BY DEF CommitBorrow, LendingInv, CallInv
<1>2. call[x].bookId \notin call[x].changed /\ call[x].memberId \notin call[x].changed
  BY DEF CommitBorrow, Conflicts
<1> QED BY <1>1, <1>2 DEF CommitBorrow, Snapshot, BorrowSnapshot

\* ... and what a loan that is closed was found to be.
LEMMA ReturnFacts ==
    ASSUME LendingInv, NEW x \in Call, CommitReturn(x)
    PROVE  LET m == call[x].memberId
               b == call[x].bookId
               l == call[x].loanId IN
           /\ MemberExists(m) /\ BookExists(b) /\ l \in Loan
           /\ loan[l].status = "active" /\ loan[l].memberId = m /\ loan[l].bookId = b
           /\ loan' = [loan EXCEPT ![l].status = "returned"]
           /\ book' = [book EXCEPT ![b].availableQuantity =
                          book[b].availableQuantity + 1]
           /\ member' = [member EXCEPT ![m].activeLoanCount =
                            IF member[m].activeLoanCount = 0 THEN 0
                            ELSE member[m].activeLoanCount - 1]
<1>1. Snapshot(x) /\ ReturnSnapshot(x)
  BY DEF CommitReturn, LendingInv, CallInv
<1>2. /\ call[x].bookId \notin call[x].changed /\ call[x].memberId \notin call[x].changed
      /\ call[x].loanId \notin call[x].changed
  BY DEF CommitReturn, Conflicts
<1> QED BY <1>1, <1>2 DEF CommitReturn, Snapshot, ReturnSnapshot

LEMMA CommitBorrowKeeps ==
    ASSUME LendingInv, NEW x \in Call, NEW l \in Loan, CommitBorrow(x, l)
    PROVE  LendingInv' /\ NoneRemoved
<1> DEFINE m == call[x].memberId
           b == call[x].bookId
           new == [ status |-> "active", memberId |-> m, bookId |-> b,
                    borrowedAt |-> call[x].borrowedAt, dueAt |-> call[x].dueAt ]
           less == book[b].availableQuantity - 1
           more == member[m].activeLoanCount + 1
<1>1. /\ MemberExists(m) /\ BookExists(b) /\ book[b].availableQuantity >= 1
      /\ loan' = [loan EXCEPT ![l] = new]
      /\ book' = [book EXCEPT ![b].availableQuantity = less]
      /\ member' = [member EXCEPT ![m].activeLoanCount = more]
  BY BorrowFacts
<1>2. /\ call' = Touch({b, m, l}, [call EXCEPT ![x] = IdleCall])
      /\ UNCHANGED <<category, membershipType, edit, now>>
  BY DEF CommitBorrow
<1>3. book[b] \in BookDoc /\ member[m] \in MemberDoc /\ call[x] \in CallState
  BY <1>1 DEF LendingInv, TypeOK, MemberExists, BookExists
<1>4. new \in LoanDoc /\ new.memberId = m /\ new.bookId = b
  BY <1>1, <1>3 DEF LoanDoc, CallState, MemberExists, BookExists
<1>5. less \in Nat /\ more \in Nat
  BY <1>1, <1>3 DEF BookDoc, MemberDoc
<1> HIDE DEF m, b, new, less, more
<1> QED BY <1>1, <1>2, <1>4, <1>5, CommitKeeps

LEMMA CommitReturnKeeps ==
    ASSUME LendingInv, NEW x \in Call, CommitReturn(x)
    PROVE  LendingInv' /\ NoneRemoved
<1> DEFINE m == call[x].memberId
           b == call[x].bookId
           l == call[x].loanId
           old == loan[l]
           new == [old EXCEPT !.status = "returned"]
           more == book[b].availableQuantity + 1
           less == IF member[m].activeLoanCount = 0 THEN 0
                   ELSE member[m].activeLoanCount - 1
<1>1. /\ MemberExists(m) /\ BookExists(b) /\ l \in Loan
      /\ loan' = [loan EXCEPT ![l].status = "returned"]
      /\ book' = [book EXCEPT ![b].availableQuantity = more]
      /\ member' = [member EXCEPT ![m].activeLoanCount = less]
  BY ReturnFacts
<1>2. /\ call' = Touch({b, m, l}, [call EXCEPT ![x] = IdleCall])
      /\ UNCHANGED <<category, membershipType, edit, now>>
  BY DEF CommitReturn
<1>3. book[b] \in BookDoc /\ member[m] \in MemberDoc /\ old \in LoanDoc
  BY <1>1 DEF LendingInv, TypeOK, MemberExists, BookExists
<1>4. new \in LoanDoc /\ new.status = "returned"
  BY <1>3 DEF LoanDoc
<1>5. less \in Nat /\ more \in Nat
  BY <1>3 DEF BookDoc, MemberDoc
<1>6. loan' = [loan EXCEPT ![l] = new]
  BY <1>1
<1> HIDE DEF m, b, l, old, new, less, more
<1> QED BY <1>1, <1>2, <1>4, <1>5, <1>6, CommitKeeps

-----------------------------------------------------------------------------
(* Creations: the documents were absent, and no handler is about them *)

LEMMA CreationKeeps ==
    ASSUME LendingInv, TypeOK', NoneRemoved, UNCHANGED <<loan, call, edit>>,
           \A b \in Book : \/ book'[b] = book[b]
                           \/ book[b].status = "absent" /\ book'[b].categoryId \in Category,
           UNCHANGED member
    PROVE  LendingInv'
<1>1. EditInv'
  BY EditsKept DEF LendingInv
<1>2. ReferenceInv'
  <2>1. \A b \in Book : book'[b].status # "absent" => book'[b].categoryId \in Category
    BY DEF LendingInv, ReferenceInv
  <2>2. \A m \in Member : member'[m].status # "absent" =>
           TypeExists(member[m].membershipTypeId)'
    BY DEF LendingInv, ReferenceInv, TypeExists, NoneRemoved
  <2> QED BY <2>1, <2>2, ReferencesKept DEF LendingInv
<1>3. ASSUME NEW y \in Call, call[y].pc = "write"
      PROVE  (/\ Snapshot(y)
              /\ call[y].kind = "borrow" => BorrowSnapshot(y)
              /\ call[y].kind = "return" => ReturnSnapshot(y))'
  <2>1. /\ Snapshot(y)
        /\ call[y].kind = "borrow" => BorrowSnapshot(y)
        /\ call[y].kind = "return" => ReturnSnapshot(y)
    BY <1>3 DEF LendingInv, CallInv
  <2>2. book'[call[y].bookId] = book[call[y].bookId]
    BY <2>1 DEF Snapshot, BookExists
  <2> QED BY <2>1, <2>2 DEF Snapshot, BorrowSnapshot, ReturnSnapshot, BookExists,
             MemberExists
<1> QED BY <1>1, <1>2, <1>3 DEF LendingInv, CallInv

LEMMA CreateCategoryKeeps ==
    ASSUME LendingInv, NEW c \in Category, NEW n \in LoanPeriods, CreateCategory(c, n)
    PROVE  LendingInv' /\ NoneRemoved
<1> DEFINE new == [ status |-> "active", loanPeriodDays |-> n ]
<1>1. new \in CategoryDoc /\ new.status = "active"
  BY InputAssumption DEF CategoryDoc, ItemStatus
<1>2. /\ category' = [category EXCEPT ![c] = new]
      /\ UNCHANGED <<book, member, membershipType, loan, call, edit, now>>
  BY DEF CreateCategory
<1> HIDE DEF new
<1>3. TypeOK' /\ NoneRemoved
  BY <1>1, <1>2 DEF LendingInv, TypeOK, NoneRemoved
<1> QED BY <1>2, <1>3, CreationKeeps

LEMMA CreateMembershipTypeKeeps ==
    ASSUME LendingInv, NEW t \in MembershipType, NEW n \in LoanLimits,
           CreateMembershipType(t, n)
    PROVE  LendingInv' /\ NoneRemoved
<1> DEFINE new == [ status |-> "active", maxActiveLoans |-> n ]
<1>1. new \in TypeDoc /\ new.status = "active"
  BY InputAssumption DEF TypeDoc, ItemStatus
<1>2. /\ membershipType' = [membershipType EXCEPT ![t] = new]
      /\ UNCHANGED <<book, member, category, loan, call, edit, now>>
  BY DEF CreateMembershipType
<1> HIDE DEF new
<1>3. TypeOK' /\ NoneRemoved
  BY <1>1, <1>2 DEF LendingInv, TypeOK, NoneRemoved
<1> QED BY <1>2, <1>3, CreationKeeps

LEMMA CreateBookKeeps ==
    ASSUME LendingInv, NEW b \in Book, NEW c \in Category, NEW n \in Quantities,
           CreateBook(b, c, n)
    PROVE  LendingInv' /\ NoneRemoved
<1> DEFINE new == [ status |-> "active", categoryId |-> c,
                    totalQuantity |-> n, availableQuantity |-> n ]
<1>1. new \in BookDoc /\ new.status = "active" /\ new.categoryId = c
  BY InputAssumption DEF BookDoc, ItemStatus
<1>2. /\ book' = [book EXCEPT ![b] = new] /\ book[b].status = "absent"
      /\ UNCHANGED <<member, category, membershipType, loan, call, edit, now>>
  BY DEF CreateBook
<1> HIDE DEF new
<1>3. TypeOK' /\ NoneRemoved
  BY <1>1, <1>2 DEF LendingInv, TypeOK, NoneRemoved
<1>4. \A k \in Book : \/ book'[k] = book[k]
                      \/ book[k].status = "absent" /\ book'[k].categoryId \in Category
  BY <1>1, <1>2 DEF LendingInv, TypeOK
<1> QED BY <1>2, <1>3, <1>4, CreationKeeps

-----------------------------------------------------------------------------
(* The editors read *)

\* A handler of Editor moves and no document is written.
LEMMA EditorMoves ==
    ASSUME LendingInv, NEW e \in Editor, NEW d \in EditState,
           edit' = [edit EXCEPT ![e] = d], Found(d), UNCHANGED <<docs, call, now>>
    PROVE  LendingInv' /\ NoneRemoved
<1>1. TypeOK' /\ ReferenceInv' /\ NoneRemoved
  BY DEF LendingInv, TypeOK, ReferenceInv, BookExists, MemberExists, TypeExists,
      NoneRemoved, docs
<1>2. edit' \in [Editor -> EditState]
  BY DEF LendingInv, EditInv
<1>3. ASSUME NEW f \in Editor PROVE Found(edit[f])'
  <2>1. edit'[f] = d \/ edit'[f] = edit[f]
    BY DEF LendingInv, EditInv
  <2>2. Found(edit[f])
    BY DEF LendingInv, EditInv
  <2> QED BY <2>1, <2>2 DEF Found, TypeExists, docs
<1>4. CallInv'
  BY DEF LendingInv, CallInv, Snapshot, BorrowSnapshot, ReturnSnapshot, BookExists,
      MemberExists, docs
<1> QED BY <1>1, <1>2, <1>3, <1>4 DEF LendingInv, EditInv

LEMMA IdleEditFound == IdleEdit \in EditState /\ Found(IdleEdit)
BY NoneAssumption DEF IdleEdit, EditState, Found

LEMMA ReadBookKeeps ==
    ASSUME LendingInv, NEW e \in Editor, NEW b \in Book, NEW p \in BookPatch,
           ReadBook(e, b, p)
    PROVE  LendingInv' /\ NoneRemoved
<1> DEFINE old == book[b]
           quantity == IF p.totalQuantity = None THEN old.totalQuantity
                                                 ELSE p.totalQuantity
           moved == old.availableQuantity + quantity - old.totalQuantity
           w == [ status |-> Changed(p.status, old.status),
                  categoryId |-> Changed(p.categoryId, old.categoryId),
                  totalQuantity |-> Changed(quantity, old.totalQuantity),
                  availableQuantity |-> Changed(moved, old.availableQuantity) ]
           d == [ target |-> b, writes |-> w ]
<1>1. /\ old.status # "absent"
      /\ quantity + old.availableQuantity >= old.totalQuantity
      /\ edit' = [edit EXCEPT ![e] = d]
      /\ UNCHANGED <<docs, call, now>>
  BY DEF ReadBook, Editing
<1>2. old \in BookDoc
  BY DEF LendingInv, TypeOK
<1>3. /\ p.status \in Maybe(ItemStatus) /\ p.categoryId \in Maybe(Category)
      /\ p.totalQuantity \in Maybe(Nat)
  BY PatchAssumption DEF Maybe, ItemStatus
<1>4. quantity \in Nat
  BY <1>2, <1>3 DEF BookDoc, Maybe
<1>5. moved \in Nat
  BY <1>1, <1>2, <1>4 DEF BookDoc
<1> HIDE DEF old, quantity, moved
<1>6. w \in BookWrites
  BY <1>3, <1>4, <1>5 DEF BookWrites, Maybe, Changed
<1> HIDE DEF w
<1>7. d \in EditState /\ d.target = b
  BY <1>6 DEF EditState
<1>8. Found(d)
  BY <1>1, <1>7, IdAssumption DEF Found, old
<1> HIDE DEF d
<1> QED BY <1>1, <1>7, <1>8, EditorMoves

LEMMA CreateMemberKeeps ==
    ASSUME LendingInv, NEW e \in Editor, NEW m \in Member, NEW t \in MembershipType,
           NEW n \in StartCounts, CreateMember(e, m, t, n)
    PROVE  LendingInv' /\ NoneRemoved
<1> DEFINE w == [ status |-> "active", membershipTypeId |-> t, activeLoanCount |-> n ]
           d == [ target |-> m, writes |-> w ]
<1>1. /\ membershipType[t].status = "active"
      /\ edit' = [edit EXCEPT ![e] = d]
      /\ UNCHANGED <<docs, call, now>>
  BY DEF CreateMember, Editing
<1>2. /\ w \in MemberWrites /\ w.status = "active" /\ w.membershipTypeId = t
      /\ w.activeLoanCount \in Nat
  BY InputAssumption DEF MemberWrites, Maybe
<1> HIDE DEF w
<1>3. d \in EditState /\ d.target = m /\ d.writes = w
  BY <1>2 DEF EditState
<1>4. Found(d)
  BY <1>1, <1>2, <1>3, IdAssumption, NoneAssumption DEF Found, TypeExists
<1> HIDE DEF d
<1> QED BY <1>1, <1>3, <1>4, EditorMoves

LEMMA ReadMemberKeeps ==
    ASSUME LendingInv, NEW e \in Editor, NEW m \in Member, NEW p \in MemberPatch,
           ReadMember(e, m, p)
    PROVE  LendingInv' /\ NoneRemoved
<1> DEFINE old == member[m]
           w == [ status |-> Changed(p.status, old.status),
                  membershipTypeId |->
                      Changed(p.membershipTypeId, old.membershipTypeId),
                  activeLoanCount |->
                      Changed(p.activeLoanCount, old.activeLoanCount) ]
           d == [ target |-> m, writes |-> w ]
<1>1. /\ old.status # "absent"
      /\ p.membershipTypeId # None => membershipType[p.membershipTypeId].status = "active"
      /\ edit' = [edit EXCEPT ![e] = d]
      /\ UNCHANGED <<docs, call, now>>
  BY DEF ReadMember, Editing
<1>2. /\ p.status \in Maybe({"active", "suspended", "inactive"})
      /\ p.membershipTypeId \in Maybe(MembershipType)
      /\ p.activeLoanCount \in Maybe(Nat)
  BY PatchAssumption DEF Maybe
<1>3. /\ w \in MemberWrites
      /\ w.membershipTypeId = None \/ w.membershipTypeId = p.membershipTypeId
  BY <1>2 DEF MemberWrites, Maybe, Changed
<1> HIDE DEF w, old
<1>4. d \in EditState /\ d.target = m /\ d.writes = w
  BY <1>3 DEF EditState
<1>5. Found(d)
  BY <1>1, <1>2, <1>3, <1>4, IdAssumption, NoneAssumption DEF Found, TypeExists, Maybe, old
<1> HIDE DEF d
<1> QED BY <1>1, <1>4, <1>5, EditorMoves

LEMMA ReadCategoryKeeps ==
    ASSUME LendingInv, NEW e \in Editor, NEW c \in Category, NEW p \in CategoryPatch,
           ReadCategory(e, c, p)
    PROVE  LendingInv' /\ NoneRemoved
<1> DEFINE old == category[c]
           w == [ status |-> Changed(p.status, old.status),
                  loanPeriodDays |-> Changed(p.loanPeriodDays, old.loanPeriodDays) ]
           d == [ target |-> c, writes |-> w ]
<1>1. /\ old.status # "absent"
      /\ edit' = [edit EXCEPT ![e] = d]
      /\ UNCHANGED <<docs, call, now>>
  BY DEF ReadCategory, Editing
<1>2. p.status \in Maybe(ItemStatus) /\ p.loanPeriodDays \in Maybe(Nat)
  BY PatchAssumption DEF Maybe, ItemStatus
<1>3. w \in CategoryWrites
  BY <1>2 DEF CategoryWrites, Maybe, Changed
<1> HIDE DEF w, old
<1>4. d \in EditState /\ d.target = c
  BY <1>3 DEF EditState
<1>5. Found(d)
  BY <1>1, <1>4, IdAssumption DEF Found, old
<1> HIDE DEF d
<1> QED BY <1>1, <1>4, <1>5, EditorMoves

LEMMA ReadTypeKeeps ==
    ASSUME LendingInv, NEW e \in Editor, NEW t \in MembershipType, NEW p \in TypePatch,
           ReadType(e, t, p)
    PROVE  LendingInv' /\ NoneRemoved
<1> DEFINE old == membershipType[t]
           w == [ status |-> Changed(p.status, old.status),
                  maxActiveLoans |-> Changed(p.maxActiveLoans, old.maxActiveLoans) ]
           d == [ target |-> t, writes |-> w ]
<1>1. /\ old.status # "absent"
      /\ edit' = [edit EXCEPT ![e] = d]
      /\ UNCHANGED <<docs, call, now>>
  BY DEF ReadType, Editing
<1>2. p.status \in Maybe(ItemStatus) /\ p.maxActiveLoans \in Maybe(Nat)
  BY PatchAssumption DEF Maybe, ItemStatus
<1>3. w \in TypeWrites
  BY <1>2 DEF TypeWrites, Maybe, Changed
<1> HIDE DEF w, old
<1>4. d \in EditState /\ d.target = t
  BY <1>3 DEF EditState
<1>5. Found(d)
  BY <1>1, <1>4, IdAssumption DEF Found, old
<1> HIDE DEF d
<1> QED BY <1>1, <1>4, <1>5, EditorMoves

-----------------------------------------------------------------------------
(* The editors save *)

\* A save sets the fields it has and leaves the others.
LEMMA SavedBook ==
    ASSUME NEW d \in BookDoc, NEW w \in BookWrites
    PROVE  /\ Saved(d, w) \in BookDoc
           /\ Saved(d, w).status = IF w.status = None THEN d.status ELSE w.status
           /\ Saved(d, w).categoryId =
                 IF w.categoryId = None THEN d.categoryId ELSE w.categoryId
           /\ Saved(d, w).totalQuantity =
                 IF w.totalQuantity = None THEN d.totalQuantity ELSE w.totalQuantity
           /\ Saved(d, w).availableQuantity =
                 IF w.availableQuantity = None THEN d.availableQuantity
                                               ELSE w.availableQuantity
<1>1. DOMAIN d = {"status", "categoryId", "totalQuantity", "availableQuantity"}
  BY DEF BookDoc
<1>2. Saved(d, w) =
        [ status |-> IF w.status = None THEN d.status ELSE w.status,
          categoryId |-> IF w.categoryId = None THEN d.categoryId ELSE w.categoryId,
          totalQuantity |->
              IF w.totalQuantity = None THEN d.totalQuantity ELSE w.totalQuantity,
          availableQuantity |->
              IF w.availableQuantity = None THEN d.availableQuantity
                                            ELSE w.availableQuantity ]
  BY <1>1 DEF Saved
<1> QED BY <1>2 DEF BookDoc, BookWrites, Maybe

LEMMA SavedMember ==
    ASSUME NEW d \in MemberDoc, NEW w \in MemberWrites
    PROVE  /\ Saved(d, w) \in MemberDoc
           /\ Saved(d, w).status = IF w.status = None THEN d.status ELSE w.status
           /\ Saved(d, w).membershipTypeId =
                 IF w.membershipTypeId = None THEN d.membershipTypeId
                                              ELSE w.membershipTypeId
           /\ Saved(d, w).activeLoanCount =
                 IF w.activeLoanCount = None THEN d.activeLoanCount
                                             ELSE w.activeLoanCount
<1>1. DOMAIN d = {"status", "membershipTypeId", "activeLoanCount"}
  BY DEF MemberDoc
<1>2. Saved(d, w) =
        [ status |-> IF w.status = None THEN d.status ELSE w.status,
          membershipTypeId |-> IF w.membershipTypeId = None THEN d.membershipTypeId
                                                            ELSE w.membershipTypeId,
          activeLoanCount |-> IF w.activeLoanCount = None THEN d.activeLoanCount
                                                          ELSE w.activeLoanCount ]
  BY <1>1 DEF Saved
<1> QED BY <1>2 DEF MemberDoc, MemberWrites, Maybe

LEMMA SavedCategory ==
    ASSUME NEW d \in CategoryDoc, NEW w \in CategoryWrites
    PROVE  /\ Saved(d, w) \in CategoryDoc
           /\ Saved(d, w).status = IF w.status = None THEN d.status ELSE w.status
<1>1. DOMAIN d = {"status", "loanPeriodDays"}
  BY DEF CategoryDoc
<1>2. Saved(d, w) =
        [ status |-> IF w.status = None THEN d.status ELSE w.status,
          loanPeriodDays |-> IF w.loanPeriodDays = None THEN d.loanPeriodDays
                                                        ELSE w.loanPeriodDays ]
  BY <1>1 DEF Saved
<1> QED BY <1>2 DEF CategoryDoc, CategoryWrites, Maybe

LEMMA SavedType ==
    ASSUME NEW d \in TypeDoc, NEW w \in TypeWrites
    PROVE  /\ Saved(d, w) \in TypeDoc
           /\ Saved(d, w).status = IF w.status = None THEN d.status ELSE w.status
           /\ Saved(d, w).maxActiveLoans =
                 IF w.maxActiveLoans = None THEN d.maxActiveLoans ELSE w.maxActiveLoans
<1>1. DOMAIN d = {"status", "maxActiveLoans"}
  BY DEF TypeDoc
<1>2. Saved(d, w) =
        [ status |-> IF w.status = None THEN d.status ELSE w.status,
          maxActiveLoans |-> IF w.maxActiveLoans = None THEN d.maxActiveLoans
                                                        ELSE w.maxActiveLoans ]
  BY <1>1 DEF Saved
<1> QED BY <1>2 DEF TypeDoc, TypeWrites, Maybe

\* What a handler is about to write fits the document it is about.
LEMMA WritesFit ==
    ASSUME EditInv, NEW e \in Editor
    PROVE  /\ edit[e].target \in Book => edit[e].writes \in BookWrites
           /\ edit[e].target \in Member => edit[e].writes \in MemberWrites
           /\ edit[e].target \in Category => edit[e].writes \in CategoryWrites
           /\ edit[e].target \in MembershipType => edit[e].writes \in TypeWrites
<1> DEFINE d == edit[e]
<1>1. d \in EditState
  BY DEF EditInv
<1> HIDE DEF d
<1>2. CASE d = IdleEdit
  BY <1>2, NoneAssumption DEF IdleEdit, d
<1>3. CASE d \in [ target : Book, writes : BookWrites ]
  BY <1>3, IdAssumption DEF d
<1>4. CASE d \in [ target : Member, writes : MemberWrites ]
  BY <1>4, IdAssumption DEF d
<1>5. CASE d \in [ target : Category, writes : CategoryWrites ]
  BY <1>5, IdAssumption DEF d
<1>6. CASE d \in [ target : MembershipType, writes : TypeWrites ]
  BY <1>6, IdAssumption DEF d
<1> QED BY <1>1, <1>2, <1>3, <1>4, <1>5, <1>6 DEF EditState

\* A handler of Editor ends.
LEMMA EditorEnds ==
    ASSUME EditInv, NoneRemoved, NEW e \in Editor, edit' = [edit EXCEPT ![e] = IdleEdit]
    PROVE  EditInv'
<1>1. edit' \in [Editor -> EditState]
  BY IdleEditFound DEF EditInv
<1>2. ASSUME NEW f \in Editor PROVE Found(edit[f])'
  <2>1. CASE f = e
    <3>1. edit'[f] = IdleEdit
      BY <2>1 DEF EditInv
    <3> QED BY <3>1, NoneAssumption DEF Found, IdleEdit
  <2>2. CASE f # e
    <3>1. edit'[f] = edit[f] /\ Found(edit[f])
      BY <2>2 DEF EditInv
    <3> QED BY <3>1 DEF NoneRemoved, Found, TypeExists
  <2> QED BY <2>1, <2>2
<1> QED BY <1>1, <1>2 DEF EditInv

\* A document of the lending desk is saved and everyone is told.
LEMMA SaveKeeps ==
    ASSUME LendingInv, NoneRemoved, NEW e \in Editor,
           edit' = [edit EXCEPT ![e] = IdleEdit], NEW D \in SUBSET (Book \cup Member),
           call' = Touch(D, call),
           \A b \in Book \ D : book'[b] = book[b],
           \A m \in Member \ D : member'[m] = member[m],
           UNCHANGED <<loan, now>>,
           book' \in [Book -> BookDoc], member' \in [Member -> MemberDoc],
           category' \in [Category -> CategoryDoc],
           membershipType' \in [MembershipType -> TypeDoc],
           \A b \in Book : book'[b].status # "absent" => book'[b].categoryId \in Category,
           \A m \in Member : member'[m].status # "absent" =>
              TypeExists(member[m].membershipTypeId)'
    PROVE  LendingInv'
<1>1. /\ call' \in [Call -> CallState]
      /\ \A y \in Call :
            \/ call'[y] = call[y] /\ call[y].pc # "write"
            \/ /\ call[y].pc = "write"
               /\ call'[y] = [call[y] EXCEPT !.changed = @ \cup D]
  <2>1. call \in [Call -> CallState]
    BY DEF LendingInv, TypeOK
  <2> QED BY <2>1, Touched
<1>2. TypeOK'
  BY <1>1 DEF LendingInv, TypeOK
<1>3. EditInv'
  BY EditorEnds DEF LendingInv
<1>4. ReferenceInv'
  <2>1. \A l \in Loan : loan'[l].status = "active" => loan'[l] = loan[l]
    OBVIOUS
  <2> QED BY <2>1, ReferencesKept DEF LendingInv
<1>5. ASSUME NEW y \in Call, call'[y].pc = "write"
      PROVE  (/\ Snapshot(y)
              /\ call[y].kind = "borrow" => BorrowSnapshot(y)
              /\ call[y].kind = "return" => ReturnSnapshot(y))'
  <2>1. call[y].pc = "write" /\ call'[y] = [call[y] EXCEPT !.changed = @ \cup D]
    BY <1>1, <1>5
  <2> QED BY <2>1, SnapshotKept
<1> QED BY <1>2, <1>3, <1>4, <1>5 DEF LendingInv, CallInv

LEMMA SaveBookKeeps ==
    ASSUME LendingInv, NEW e \in Editor, NEW b \in Book, SaveBook(e, b)
    PROVE  LendingInv' /\ NoneRemoved
<1> DEFINE w == edit[e].writes
           new == Saved(book[b], w)
<1>1. /\ edit[e].target = b
      /\ book' = [book EXCEPT ![b] = new]
      /\ edit' = [edit EXCEPT ![e] = IdleEdit]
      /\ call' = Touch({b}, call)
      /\ UNCHANGED <<member, category, membershipType, loan, now>>
  BY DEF SaveBook
<1>2. /\ TypeOK /\ EditInv /\ ReferenceInv /\ book \in [Book -> BookDoc]
      /\ book[b] \in BookDoc
  BY DEF LendingInv, TypeOK
<1>3. w \in BookWrites
  BY <1>1, <1>2, WritesFit
<1>4. book[b].status # "absent" /\ book[b].categoryId \in Category
  BY <1>1, <1>2 DEF EditInv, Found, ReferenceInv
<1>5. /\ new \in BookDoc
      /\ new.status # "absent" /\ new.categoryId \in Category
  BY <1>2, <1>3, <1>4, SavedBook DEF BookWrites, Maybe, ItemStatus
<1> HIDE DEF w, new
<1>6. /\ book' \in [Book -> BookDoc] /\ book'[b] = new
      /\ \A c \in Book : c # b => book'[c] = book[c]
  BY <1>1, <1>2, <1>5
<1>7. NoneRemoved
  BY <1>1, <1>5, <1>6 DEF NoneRemoved
<1>8. \A c \in Book : book'[c].status # "absent" => book'[c].categoryId \in Category
  BY <1>2, <1>5, <1>6 DEF ReferenceInv
<1>9. \A m \in Member : member'[m].status # "absent" =>
         TypeExists(member[m].membershipTypeId)'
  BY <1>1, <1>2 DEF ReferenceInv, TypeExists
<1> DEFINE D == {b}
<1>10. /\ D \in SUBSET (Book \cup Member) /\ call' = Touch(D, call)
       /\ \A c \in Book \ D : book'[c] = book[c]
       /\ \A c \in Member \ D : member'[c] = member[c]
  BY <1>1, <1>6
<1> HIDE DEF D
<1>11. /\ book' \in [Book -> BookDoc] /\ member' \in [Member -> MemberDoc]
       /\ category' \in [Category -> CategoryDoc]
       /\ membershipType' \in [MembershipType -> TypeDoc]
  BY <1>1, <1>2, <1>6 DEF TypeOK
<1>12. edit' = [edit EXCEPT ![e] = IdleEdit] /\ UNCHANGED <<loan, now>>
  BY <1>1
<1> QED BY <1>7, <1>8, <1>9, <1>10, <1>11, <1>12, SaveKeeps

LEMMA SaveMemberKeeps ==
    ASSUME LendingInv, NEW e \in Editor, NEW m \in Member, SaveMember(e, m)
    PROVE  LendingInv' /\ NoneRemoved
<1> DEFINE w == edit[e].writes
           new == Saved(member[m], w)
<1>1. /\ edit[e].target = m
      /\ member' = [member EXCEPT ![m] = new]
      /\ edit' = [edit EXCEPT ![e] = IdleEdit]
      /\ call' = Touch({m}, call)
      /\ UNCHANGED <<book, category, membershipType, loan, now>>
  BY DEF SaveMember
<1>2. /\ TypeOK /\ EditInv /\ ReferenceInv /\ member \in [Member -> MemberDoc]
      /\ member[m] \in MemberDoc
  BY DEF LendingInv, TypeOK
<1>3. w \in MemberWrites
  BY <1>1, <1>2, WritesFit
<1>4. /\ \/ member[m].status # "absent" /\ TypeExists(member[m].membershipTypeId)
         \/ w.status # None /\ w.membershipTypeId # None
      /\ w.membershipTypeId = None \/ TypeExists(w.membershipTypeId)
  BY <1>1, <1>2 DEF EditInv, Found, ReferenceInv
<1>5. /\ new \in MemberDoc
      /\ new.status # "absent" /\ TypeExists(new.membershipTypeId)
  <2>1. /\ new \in MemberDoc
        /\ new.status = IF w.status = None THEN member[m].status ELSE w.status
        /\ new.membershipTypeId = IF w.membershipTypeId = None
                                  THEN member[m].membershipTypeId
                                  ELSE w.membershipTypeId
    BY <1>2, <1>3, SavedMember
  <2>2. w.status \in {"active", "suspended", "inactive", None}
    BY <1>3 DEF MemberWrites, Maybe
  <2> HIDE DEF w, new
  <2> QED BY <1>4, <2>1, <2>2 DEF TypeExists
<1> HIDE DEF w, new
<1>6. /\ member' \in [Member -> MemberDoc] /\ member'[m] = new
      /\ \A c \in Member : c # m => member'[c] = member[c]
  BY <1>1, <1>2, <1>5
<1>7. NoneRemoved
  BY <1>1, <1>5, <1>6 DEF NoneRemoved
<1>8. \A b \in Book : book'[b].status # "absent" => book'[b].categoryId \in Category
  BY <1>1, <1>2 DEF ReferenceInv
<1>9. \A c \in Member : member'[c].status # "absent" =>
         TypeExists(member[c].membershipTypeId)'
  BY <1>1, <1>2, <1>5, <1>6 DEF ReferenceInv, TypeExists
<1> DEFINE D == {m}
<1>10. /\ D \in SUBSET (Book \cup Member) /\ call' = Touch(D, call)
       /\ \A c \in Book \ D : book'[c] = book[c]
       /\ \A c \in Member \ D : member'[c] = member[c]
  BY <1>1, <1>6
<1> HIDE DEF D
<1>11. /\ book' \in [Book -> BookDoc] /\ member' \in [Member -> MemberDoc]
       /\ category' \in [Category -> CategoryDoc]
       /\ membershipType' \in [MembershipType -> TypeDoc]
  BY <1>1, <1>2, <1>6 DEF TypeOK
<1>12. edit' = [edit EXCEPT ![e] = IdleEdit] /\ UNCHANGED <<loan, now>>
  BY <1>1
<1> QED BY <1>7, <1>8, <1>9, <1>10, <1>11, <1>12, SaveKeeps

\* Nobody's snapshot is about a category or a membership type.
LEMMA NobodyTold ==
    ASSUME LendingInv, UNCHANGED call
    PROVE  call' = Touch({}, call)
<1>1. ASSUME NEW y \in Call PROVE call[y] = [call[y] EXCEPT !.changed = @ \cup {}]
  BY DEF LendingInv, TypeOK, CallState
<1>2. call = [y \in Call |-> call[y]]
  BY DEF LendingInv, TypeOK
<1> QED BY <1>1, <1>2 DEF Touch

LEMMA SaveCategoryKeeps ==
    ASSUME LendingInv, NEW e \in Editor, NEW c \in Category, SaveCategory(e, c)
    PROVE  LendingInv' /\ NoneRemoved
<1> DEFINE w == edit[e].writes
           new == Saved(category[c], w)
<1>1. /\ edit[e].target = c
      /\ category' = [category EXCEPT ![c] = new]
      /\ edit' = [edit EXCEPT ![e] = IdleEdit]
      /\ UNCHANGED <<book, member, membershipType, loan, call, now>>
  BY DEF SaveCategory
<1>2. /\ TypeOK /\ EditInv /\ ReferenceInv /\ category \in [Category -> CategoryDoc]
      /\ category[c] \in CategoryDoc
  BY DEF LendingInv, TypeOK
<1>3. w \in CategoryWrites
  BY <1>1, <1>2, WritesFit
<1>4. category[c].status # "absent"
  BY <1>1, <1>2 DEF EditInv, Found
<1>5. new \in CategoryDoc /\ new.status # "absent"
  BY <1>2, <1>3, <1>4, SavedCategory DEF CategoryWrites, Maybe, ItemStatus
<1> HIDE DEF w, new
<1>6. category' \in [Category -> CategoryDoc] /\ NoneRemoved
  BY <1>1, <1>2, <1>5 DEF NoneRemoved
<1>7. /\ \A b \in Book : book'[b].status # "absent" => book'[b].categoryId \in Category
      /\ \A m \in Member : member'[m].status # "absent" =>
            TypeExists(member[m].membershipTypeId)'
  BY <1>1, <1>2 DEF ReferenceInv, TypeExists
<1> DEFINE D == {}
<1>8. /\ D \in SUBSET (Book \cup Member) /\ call' = Touch(D, call)
      /\ \A b \in Book \ D : book'[b] = book[b]
      /\ \A m \in Member \ D : member'[m] = member[m]
  BY <1>1, NobodyTold
<1> HIDE DEF D
<1>9. /\ book' \in [Book -> BookDoc] /\ member' \in [Member -> MemberDoc]
      /\ category' \in [Category -> CategoryDoc]
      /\ membershipType' \in [MembershipType -> TypeDoc]
  BY <1>1, <1>2, <1>6 DEF TypeOK
<1>10. edit' = [edit EXCEPT ![e] = IdleEdit] /\ UNCHANGED <<loan, now>>
  BY <1>1
<1> QED BY <1>6, <1>7, <1>8, <1>9, <1>10, SaveKeeps

LEMMA SaveTypeKeeps ==
    ASSUME LendingInv, NEW e \in Editor, NEW t \in MembershipType, SaveType(e, t)
    PROVE  LendingInv' /\ NoneRemoved
<1> DEFINE w == edit[e].writes
           new == Saved(membershipType[t], w)
<1>1. /\ edit[e].target = t
      /\ membershipType' = [membershipType EXCEPT ![t] = new]
      /\ edit' = [edit EXCEPT ![e] = IdleEdit]
      /\ UNCHANGED <<book, member, category, loan, call, now>>
  BY DEF SaveType
<1>2. /\ TypeOK /\ EditInv /\ ReferenceInv
      /\ membershipType \in [MembershipType -> TypeDoc] /\ membershipType[t] \in TypeDoc
  BY DEF LendingInv, TypeOK
<1>3. w \in TypeWrites
  BY <1>1, <1>2, WritesFit
<1>4. membershipType[t].status # "absent"
  BY <1>1, <1>2 DEF EditInv, Found
<1>5. new \in TypeDoc /\ new.status # "absent"
  BY <1>2, <1>3, <1>4, SavedType DEF TypeWrites, Maybe, ItemStatus
<1> HIDE DEF w, new
<1>6. membershipType' \in [MembershipType -> TypeDoc] /\ NoneRemoved
  BY <1>1, <1>2, <1>5 DEF NoneRemoved
<1>7. /\ \A b \in Book : book'[b].status # "absent" => book'[b].categoryId \in Category
      /\ \A m \in Member : member'[m].status # "absent" =>
            TypeExists(member[m].membershipTypeId)'
  BY <1>1, <1>2, <1>6 DEF ReferenceInv, TypeExists, NoneRemoved
<1> DEFINE D == {}
<1>8. /\ D \in SUBSET (Book \cup Member) /\ call' = Touch(D, call)
      /\ \A b \in Book \ D : book'[b] = book[b]
      /\ \A m \in Member \ D : member'[m] = member[m]
  BY <1>1, NobodyTold
<1> HIDE DEF D
<1>9. /\ book' \in [Book -> BookDoc] /\ member' \in [Member -> MemberDoc]
      /\ category' \in [Category -> CategoryDoc]
      /\ membershipType' \in [MembershipType -> TypeDoc]
  BY <1>1, <1>2, <1>6 DEF TypeOK
<1>10. edit' = [edit EXCEPT ![e] = IdleEdit] /\ UNCHANGED <<loan, now>>
  BY <1>1
<1> QED BY <1>6, <1>7, <1>8, <1>9, <1>10, SaveKeeps

-----------------------------------------------------------------------------
(* Every step *)

LEMMA CallStepKeeps ==
    ASSUME LendingInv, NEW x \in Call, CallStep(x)
    PROVE  LendingInv' /\ NoneRemoved
<1>1. ASSUME NEW m \in Member, NEW b \in Book, BeginBorrow(x, m, b)
      PROVE  LendingInv' /\ NoneRemoved
  BY <1>1, BeginBorrowKeeps DEF BeginBorrow, NoneRemoved, docs
<1>2. ASSUME NEW l \in Loan, CommitBorrow(x, l) PROVE LendingInv' /\ NoneRemoved
  BY <1>2, CommitBorrowKeeps
<1>3. ASSUME NEW l \in Loan, BeginReturn(x, l) PROVE LendingInv' /\ NoneRemoved
  BY <1>3, BeginReturnKeeps DEF BeginReturn, NoneRemoved, docs
<1>4. CASE CommitReturn(x)
  BY <1>4, CommitReturnKeeps
<1>5. CASE Retry(x) \/ AbortCall(x)
  BY <1>5, EndCallKeeps DEF Retry, AbortCall, NoneRemoved, docs
<1> QED BY <1>1, <1>2, <1>3, <1>4, <1>5 DEF CallStep

LEMMA EditStepKeeps ==
    ASSUME LendingInv, NEW e \in Editor, EditStep(e)
    PROVE  LendingInv' /\ NoneRemoved
<1>1. CASE AbortEdit(e)
  BY <1>1, IdleEditFound, EditorMoves DEF AbortEdit
<1> QED BY <1>1, CreateMemberKeeps, ReadBookKeeps, ReadMemberKeeps, ReadCategoryKeeps,
           ReadTypeKeeps, SaveBookKeeps, SaveMemberKeeps, SaveCategoryKeeps,
           SaveTypeKeeps DEF EditStep

LEMMA NextLendingInv == LendingInv /\ [Next]_vars => LendingInv' /\ NoneRemoved
<1> SUFFICES ASSUME LendingInv, [Next]_vars PROVE LendingInv' /\ NoneRemoved
  OBVIOUS
<1>1. CASE UNCHANGED <<docs, call, edit>> /\ now' \in Nat
  <2>1. TypeOK' /\ NoneRemoved
    BY <1>1 DEF LendingInv, TypeOK, NoneRemoved, docs
  <2>2. EditInv' /\ ReferenceInv'
    BY <1>1 DEF LendingInv, EditInv, Found, ReferenceInv, BookExists, MemberExists,
        TypeExists, docs
  <2>3. CallInv'
    BY <1>1 DEF LendingInv, CallInv, Snapshot, BorrowSnapshot, ReturnSnapshot,
        BookExists, MemberExists, docs
  <2> QED BY <2>1, <2>2, <2>3 DEF LendingInv
<1>2. CASE Tick \/ UNCHANGED vars
  BY <1>1, <1>2 DEF Tick, vars, LendingInv, TypeOK
<1>3. CASE \E x \in Call : CallStep(x)
  BY <1>3, CallStepKeeps
<1>4. CASE \E e \in Editor : EditStep(e)
  BY <1>4, EditStepKeeps
<1>5. CASE CreateStep
  BY <1>5, CreateCategoryKeeps, CreateMembershipTypeKeeps, CreateBookKeeps DEF CreateStep
<1> QED BY <1>2, <1>3, <1>4, <1>5 DEF Next

LEMMA LendingInvariant == Spec => []LendingInv
BY InitLendingInv, NextLendingInv, PTL DEF Spec

\* The collections and the handlers keep their types, whatever the handlers
\* that use no transaction save over what the others have written.
THEOREM TypeCorrect == Spec => []TypeOK
BY LendingInvariant, PTL DEF LendingInv

-----------------------------------------------------------------------------
(* Eligibility *)

\* A loan opens in one kind of step, whose facts are those of BorrowFacts.
LEMMA OpensByCommit ==
    ASSUME LendingInv, [Next]_vars, NEW l \in Loan,
           loan[l].status = "absent", loan'[l].status = "active"
    PROVE  \E x \in Call : CommitBorrow(x, l)
<1>1. loan \in [Loan -> LoanDoc] /\ loan' # loan
  BY DEF LendingInv, TypeOK
<1>2. ASSUME NEW x \in Call, NEW k \in Loan, CommitBorrow(x, k)
      PROVE  CommitBorrow(x, l)
  <2>1. loan'[l] = loan[l] \/ k = l
    BY <1>1, <1>2 DEF CommitBorrow
  <2> QED BY <1>2, <2>1
<1>3. ASSUME NEW x \in Call, CommitReturn(x) PROVE FALSE
  <2>1. /\ loan[call[x].loanId].status = "active"
        /\ loan' = [loan EXCEPT ![call[x].loanId].status = "returned"]
    BY <1>3, ReturnFacts
  <2> QED BY <1>1, <2>1
<1>4. ASSUME NEW x \in Call, CallStep(x) PROVE \E k \in Loan : CommitBorrow(x, k)
  BY <1>1, <1>3, <1>4 DEF CallStep, BeginBorrow, BeginReturn, Retry, AbortCall, docs
<1>5. ASSUME NEW e \in Editor, EditStep(e) PROVE FALSE
  BY <1>1, <1>5 DEF EditStep, CreateMember, ReadBook, ReadMember, ReadCategory, ReadType,
      Editing, SaveBook, SaveMember, SaveCategory, SaveType, AbortEdit, docs
<1>6. ~CreateStep /\ ~Tick /\ ~UNCHANGED vars
  BY <1>1 DEF CreateStep, CreateCategory, CreateMembershipType, CreateBook, Tick, vars, docs
<1> QED BY <1>2, <1>4, <1>5, <1>6 DEF Next

\* A loan opens only for a member and a book that are active at that moment,
\* and only if the book has a copy on the shelf: the write conflict of the
\* transaction covers both documents that were checked (borrowings.service.ts,
\* create), for all patches and any number of desks and editors.
THEOREM LoansOpenOnlyIfEligible == Spec => OpensOnlyIfEligible
<1> DEFINE A == \A l \in Loan :
                  loan[l].status = "absent" /\ loan'[l].status = "active" =>
                     /\ member[loan'[l].memberId].status = "active"
                     /\ book[loan'[l].bookId].status = "active"
                     /\ book[loan'[l].bookId].availableQuantity >= 1
<1>1. ASSUME LendingInv, [Next]_vars PROVE [A]_vars
  <2>1. ASSUME NEW l \in Loan, loan[l].status = "absent", loan'[l].status = "active"
        PROVE  /\ member[loan'[l].memberId].status = "active"
               /\ book[loan'[l].bookId].status = "active"
               /\ book[loan'[l].bookId].availableQuantity >= 1
    <3>1. PICK x \in Call : CommitBorrow(x, l)
      BY <1>1, <2>1, OpensByCommit
    <3>2. /\ loan'[l].memberId = call[x].memberId
          /\ loan'[l].bookId = call[x].bookId
      BY <1>1, <3>1 DEF CommitBorrow, LendingInv, TypeOK
    <3>3. /\ member[call[x].memberId].status = "active"
          /\ book[call[x].bookId].status = "active"
          /\ book[call[x].bookId].availableQuantity >= 1
      BY <1>1, <3>1, BorrowFacts
    <3> QED BY <3>2, <3>3
  <2> QED BY <2>1
<1> QED BY <1>1, LendingInvariant, PTL DEF Spec, OpensOnlyIfEligible

\* No loan opens for a member with an open loan that was overdue when the policy
\* was checked, although the other loans of the member are only read, never
\* written, by the transaction: a loan made meanwhile writes the member, too.
THEOREM NoLoansWhileOverdue == Spec => NoLoanWhileOverdue
<1> DEFINE A == \A l, k \in Loan :
                  (/\ loan[l].status = "absent" /\ loan'[l].status = "active"
                   /\ loan[k].status = "active"
                   /\ loan[k].memberId = loan'[l].memberId)
                  => loan[k].dueAt >= loan'[l].borrowedAt
<1>1. ASSUME LendingInv, [Next]_vars PROVE [A]_vars
  <2>1. ASSUME NEW l \in Loan, NEW k \in Loan,
               loan[l].status = "absent", loan'[l].status = "active",
               loan[k].status = "active", loan[k].memberId = loan'[l].memberId
        PROVE  loan[k].dueAt >= loan'[l].borrowedAt
    <3>1. PICK x \in Call : CommitBorrow(x, l)
      BY <1>1, <2>1, OpensByCommit
    <3>2. /\ loan'[l].memberId = call[x].memberId
          /\ loan'[l].borrowedAt = call[x].borrowedAt
      BY <1>1, <3>1 DEF CommitBorrow, LendingInv, TypeOK
    <3>3. loan[k].memberId = call[x].memberId => loan[k].dueAt >= call[x].borrowedAt
      BY <1>1, <2>1, <3>1, BorrowFacts
    <3> QED BY <2>1, <3>2, <3>3
  <2> QED BY <2>1
<1> QED BY <1>1, LendingInvariant, PTL DEF Spec, NoLoanWhileOverdue

-----------------------------------------------------------------------------
(* Copies and loans *)

BookLoans(b) == {l \in OpenLoans(Loan) : loan[l].bookId = b}
MemberLoans(m) == {l \in OpenLoans(Loan) : loan[l].memberId = m}

LEMMA LoansFinite ==
    ASSUME NEW b, NEW m
    PROVE  /\ IsFiniteSet(BookLoans(b)) /\ Cardinality(BookLoans(b)) \in Nat
           /\ IsFiniteSet(MemberLoans(m)) /\ Cardinality(MemberLoans(m)) \in Nat
<1>1. BookLoans(b) \in SUBSET Loan /\ MemberLoans(m) \in SUBSET Loan
  BY DEF BookLoans, MemberLoans, OpenLoans
<1>2. IsFiniteSet(BookLoans(b)) /\ IsFiniteSet(MemberLoans(m))
  BY <1>1, InputAssumption, FS_Subset
<1> QED BY <1>2, FS_CardinalityType

\* What is not in the catalogue is not out.
LEMMA AbsentHasNoLoans ==
    ASSUME LendingInv
    PROVE  /\ \A b \in Book : book[b].status = "absent" => Cardinality(BookLoans(b)) = 0
           /\ \A m \in Member : member[m].status = "absent" => Cardinality(MemberLoans(m)) = 0
<1>1. ASSUME NEW b \in Book, book[b].status = "absent" PROVE BookLoans(b) = {}
  BY <1>1 DEF LendingInv, ReferenceInv, BookExists, BookLoans, OpenLoans
<1>2. ASSUME NEW m \in Member, member[m].status = "absent" PROVE MemberLoans(m) = {}
  BY <1>2 DEF LendingInv, ReferenceInv, MemberExists, MemberLoans, OpenLoans
<1> QED BY <1>1, <1>2, FS_EmptySet

LEMMA SameLoans ==
    ASSUME UNCHANGED loan, NEW b, NEW m
    PROVE  BookLoans(b)' = BookLoans(b) /\ MemberLoans(m)' = MemberLoans(m)
BY DEF BookLoans, MemberLoans, OpenLoans

\* A loan that opens is one more of its book and of its member ...
LEMMA LoanOpened ==
    ASSUME LendingInv, NEW x \in Call, NEW l \in Loan, CommitBorrow(x, l),
           NEW b \in Book, NEW m \in Member
    PROVE  /\ Cardinality(BookLoans(b)') = Cardinality(BookLoans(b))
                                           + IF b = call[x].bookId THEN 1 ELSE 0
           /\ Cardinality(MemberLoans(m)') = Cardinality(MemberLoans(m))
                                             + IF m = call[x].memberId THEN 1 ELSE 0
<1> DEFINE new == [ status |-> "active", memberId |-> call[x].memberId,
                    bookId |-> call[x].bookId, borrowedAt |-> call[x].borrowedAt,
                    dueAt |-> call[x].dueAt ]
<1>1. loan' = [loan EXCEPT ![l] = new] /\ loan[l].status = "absent"
  BY BorrowFacts
<1>2. /\ new.status = "active" /\ new.memberId = call[x].memberId
      /\ new.bookId = call[x].bookId
  OBVIOUS
<1> HIDE DEF new
<1>3. loan'[l] = new /\ \A k \in Loan : k # l => loan'[k] = loan[k]
  BY <1>1 DEF LendingInv, TypeOK
<1>4. l \notin BookLoans(b) /\ l \notin MemberLoans(m)
  BY <1>1 DEF BookLoans, MemberLoans, OpenLoans
<1>5. BookLoans(b)' = IF b = call[x].bookId THEN BookLoans(b) \cup {l} ELSE BookLoans(b)
  BY <1>1, <1>2, <1>3 DEF BookLoans, OpenLoans
<1>6. MemberLoans(m)' = IF m = call[x].memberId THEN MemberLoans(m) \cup {l}
                                                ELSE MemberLoans(m)
  BY <1>1, <1>2, <1>3 DEF MemberLoans, OpenLoans
<1>7. /\ Cardinality(BookLoans(b) \cup {l}) = Cardinality(BookLoans(b)) + 1
      /\ Cardinality(MemberLoans(m) \cup {l}) = Cardinality(MemberLoans(m)) + 1
  BY <1>4, LoansFinite, FS_AddElement
<1>8. Cardinality(BookLoans(b)) \in Nat /\ Cardinality(MemberLoans(m)) \in Nat
  BY LoansFinite
<1> QED BY <1>5, <1>6, <1>7, <1>8

\* ... and one that is closed is one less.
LEMMA LoanClosed ==
    ASSUME LendingInv, NEW x \in Call, CommitReturn(x), NEW b \in Book, NEW m \in Member
    PROVE  /\ Cardinality(BookLoans(b)) = Cardinality(BookLoans(b)')
                                          + IF b = call[x].bookId THEN 1 ELSE 0
           /\ Cardinality(MemberLoans(m)) = Cardinality(MemberLoans(m)')
                                            + IF m = call[x].memberId THEN 1 ELSE 0
<1> DEFINE l == call[x].loanId
<1>1. /\ l \in Loan /\ loan[l].status = "active"
      /\ loan[l].memberId = call[x].memberId /\ loan[l].bookId = call[x].bookId
      /\ loan' = [loan EXCEPT ![l].status = "returned"]
  BY ReturnFacts
<1> HIDE DEF l
<1>2. loan'[l].status = "returned" /\ \A k \in Loan : k # l => loan'[k] = loan[k]
  BY <1>1 DEF LendingInv, TypeOK, LoanDoc
<1>3. BookLoans(b)' = IF b = call[x].bookId THEN BookLoans(b) \ {l} ELSE BookLoans(b)
  BY <1>1, <1>2 DEF BookLoans, OpenLoans
<1>4. MemberLoans(m)' = IF m = call[x].memberId THEN MemberLoans(m) \ {l}
                                                ELSE MemberLoans(m)
  BY <1>1, <1>2 DEF MemberLoans, OpenLoans
<1>5. /\ b = call[x].bookId => l \in BookLoans(b)
      /\ m = call[x].memberId => l \in MemberLoans(m)
  BY <1>1 DEF BookLoans, MemberLoans, OpenLoans
<1>6. /\ l \in BookLoans(b) =>
            Cardinality(BookLoans(b) \ {l}) = Cardinality(BookLoans(b)) - 1
      /\ l \in MemberLoans(m) =>
            Cardinality(MemberLoans(m) \ {l}) = Cardinality(MemberLoans(m)) - 1
  BY LoansFinite, FS_RemoveElement
<1>7. Cardinality(BookLoans(b)) \in Nat /\ Cardinality(MemberLoans(m)) \in Nat
  BY LoansFinite
<1> QED BY <1>3, <1>4, <1>5, <1>6, <1>7

\* The steps that write a book, a member or a loan.
LEMMA Writers ==
    ASSUME [Next]_vars
    PROVE  \/ \E x \in Call, l \in Loan : CommitBorrow(x, l)
           \/ \E x \in Call : CommitReturn(x)
           \/ \E b \in Book, c \in Category, n \in Quantities : CreateBook(b, c, n)
           \/ \E e \in Editor, b \in Book : SaveBook(e, b)
           \/ \E e \in Editor, m \in Member : SaveMember(e, m)
           \/ UNCHANGED <<book, member, loan>>
<1>1. ASSUME NEW x \in Call, CallStep(x)
      PROVE  \/ \E l \in Loan : CommitBorrow(x, l)
             \/ CommitReturn(x)
             \/ UNCHANGED <<book, member, loan>>
  BY <1>1 DEF CallStep, BeginBorrow, BeginReturn, Retry, AbortCall, docs
<1>2. ASSUME NEW e \in Editor, EditStep(e)
      PROVE  \/ \E b \in Book : SaveBook(e, b)
             \/ \E m \in Member : SaveMember(e, m)
             \/ UNCHANGED <<book, member, loan>>
  BY <1>2 DEF EditStep, CreateMember, ReadBook, ReadMember, ReadCategory, ReadType,
      Editing, SaveCategory, SaveType, AbortEdit, docs
<1>3. CASE CreateStep
  BY <1>3 DEF CreateStep, CreateCategory, CreateMembershipType
<1>4. CASE Tick \/ UNCHANGED vars
  BY <1>4 DEF Tick, vars, docs
<1> QED BY <1>1, <1>2, <1>3, <1>4 DEF Next

\* The steps that change what a handler of Editor is about to write.
LEMMA Editors ==
    ASSUME EditInv, [Next]_vars, NEW e \in Editor
    PROVE  \/ edit'[e] = edit[e] \/ edit'[e] = IdleEdit
           \/ \E m \in Member, t \in MembershipType, n \in StartCounts :
                 CreateMember(e, m, t, n)
           \/ \E b \in Book, p \in BookPatch : ReadBook(e, b, p)
           \/ \E m \in Member, p \in MemberPatch : ReadMember(e, m, p)
           \/ \E c \in Category, p \in CategoryPatch : ReadCategory(e, c, p)
           \/ \E t \in MembershipType, p \in TypePatch : ReadType(e, t, p)
<1>0. edit \in [Editor -> EditState]
  BY DEF EditInv
<1>1. ASSUME NEW x \in Call, CallStep(x) PROVE UNCHANGED edit
  BY <1>1 DEF CallStep, BeginBorrow, CommitBorrow, BeginReturn, CommitReturn, Retry,
      AbortCall
<1>2. CASE CreateStep \/ Tick \/ UNCHANGED vars
  BY <1>2 DEF CreateStep, CreateCategory, CreateMembershipType, CreateBook, Tick, vars
<1>3. ASSUME NEW f \in Editor, EditStep(f), f # e PROVE edit'[e] = edit[e]
  BY <1>0, <1>3 DEF EditStep, CreateMember, ReadBook, ReadMember, ReadCategory, ReadType,
      Editing, SaveBook, SaveMember, SaveCategory, SaveType, AbortEdit
<1>4. CASE EditStep(e)
  <2>1. CASE (\E b \in Book : SaveBook(e, b)) \/ (\E m \in Member : SaveMember(e, m))
               \/ (\E c \in Category : SaveCategory(e, c))
               \/ (\E t \in MembershipType : SaveType(e, t)) \/ AbortEdit(e)
    BY <1>0, <2>1 DEF SaveBook, SaveMember, SaveCategory, SaveType, AbortEdit
  <2> QED BY <1>4, <2>1 DEF EditStep
<1> QED BY <1>1, <1>2, <1>3, <1>4 DEF Next

-----------------------------------------------------------------------------
(* Conservation *)

\* The case that is proved: no PATCH sets the total of a book.  One that does
\* saves an available count computed from an earlier read.
TotalsKept == \A p \in BookPatch : p.totalQuantity = None

BookEdits ==
    \A e \in Editor : edit[e].target \in Book =>
        /\ edit[e].writes.totalQuantity = None
        /\ edit[e].writes.availableQuantity = None

ConservationInv == LendingInv /\ BookEdits /\ Conservation

LEMMA BookEditsKept ==
    ASSUME TotalsKept, LendingInv, BookEdits, [Next]_vars
    PROVE  BookEdits'
<1> SUFFICES ASSUME NEW e \in Editor, edit'[e].target \in Book
             PROVE  /\ edit'[e].writes.totalQuantity = None
                    /\ edit'[e].writes.availableQuantity = None
  BY DEF BookEdits
<1>0. EditInv /\ edit \in [Editor -> EditState]
  BY DEF LendingInv, EditInv
<1>1. CASE edit'[e] = edit[e] \/ edit'[e] = IdleEdit
  BY <1>1, NoneAssumption DEF BookEdits, IdleEdit
<1>2. ASSUME NEW b \in Book, NEW p \in BookPatch, ReadBook(e, b, p)
      PROVE  /\ edit'[e].writes.totalQuantity = None
             /\ edit'[e].writes.availableQuantity = None
  <2> DEFINE old == book[b]
             moved == old.availableQuantity + old.totalQuantity - old.totalQuantity
  <2>1. p.totalQuantity = None /\ old \in BookDoc
    BY DEF TotalsKept, LendingInv, TypeOK
  <2>2. edit'[e].writes =
          [ status |-> Changed(p.status, old.status),
            categoryId |-> Changed(p.categoryId, old.categoryId),
            totalQuantity |-> Changed(old.totalQuantity, old.totalQuantity),
            availableQuantity |-> Changed(moved, old.availableQuantity) ]
    BY <1>0, <1>2, <2>1 DEF ReadBook, Editing
  <2>3. moved = old.availableQuantity
    BY <2>1 DEF BookDoc
  <2> QED BY <2>2, <2>3 DEF Changed
<1>3. CASE \E m \in Member, t \in MembershipType, n \in StartCounts :
              CreateMember(e, m, t, n)
  BY <1>0, <1>3, IdAssumption DEF CreateMember, Editing
<1>4. CASE \E m \in Member, p \in MemberPatch : ReadMember(e, m, p)
  BY <1>0, <1>4, IdAssumption DEF ReadMember, Editing
<1>5. CASE \E c \in Category, p \in CategoryPatch : ReadCategory(e, c, p)
  BY <1>0, <1>5, IdAssumption DEF ReadCategory, Editing
<1>6. CASE \E t \in MembershipType, p \in TypePatch : ReadType(e, t, p)
  BY <1>0, <1>6, IdAssumption DEF ReadType, Editing
<1> QED BY <1>0, <1>1, <1>2, <1>3, <1>4, <1>5, <1>6, Editors

\* What becomes of the counts of a book.
BookCounts(b) == /\ book'[b].availableQuantity = book[b].availableQuantity
                 /\ book'[b].totalQuantity = book[b].totalQuantity

LEMMA SaveBookCounts ==
    ASSUME LendingInv, BookEdits, NEW e \in Editor, NEW b \in Book, SaveBook(e, b),
           NEW c \in Book
    PROVE  BookCounts(c)
<1>1. /\ edit[e].target = b /\ book \in [Book -> BookDoc] /\ EditInv
      /\ book' = [book EXCEPT ![b] = Saved(book[b], edit[e].writes)]
  BY DEF SaveBook, LendingInv, TypeOK
<1>2. edit[e].writes \in BookWrites
  BY <1>1, WritesFit
<1>3. /\ Saved(book[b], edit[e].writes).availableQuantity = book[b].availableQuantity
      /\ Saved(book[b], edit[e].writes).totalQuantity = book[b].totalQuantity
  BY <1>1, <1>2, SavedBook DEF BookEdits
<1> QED BY <1>1, <1>3 DEF BookCounts

LEMMA CommitBorrowCounts ==
    ASSUME LendingInv, NEW x \in Call, NEW l \in Loan, CommitBorrow(x, l), NEW c \in Book
    PROVE  /\ book'[c].availableQuantity + (IF c = call[x].bookId THEN 1 ELSE 0)
                = book[c].availableQuantity
           /\ book'[c].totalQuantity = book[c].totalQuantity
<1> DEFINE b == call[x].bookId
           n == book[b].availableQuantity - 1
<1>1. /\ b \in Book /\ book[b].availableQuantity >= 1 /\ book \in [Book -> BookDoc]
      /\ book' = [book EXCEPT ![b].availableQuantity = n]
  BY BorrowFacts DEF BookExists, LendingInv, TypeOK
<1>2. book[b].availableQuantity \in Nat /\ book[c].availableQuantity \in Nat
  BY <1>1 DEF BookDoc
<1>3. n \in Nat /\ n + 1 = book[b].availableQuantity
  BY <1>1, <1>2
<1> HIDE DEF b, n
<1>4. /\ book'[b].availableQuantity = n
      /\ \A k \in Book : /\ book'[k].totalQuantity = book[k].totalQuantity
                         /\ k # b => book'[k] = book[k]
  BY <1>1, <1>3, BookCounter
<1> QED BY <1>2, <1>3, <1>4 DEF b

LEMMA CommitReturnCounts ==
    ASSUME LendingInv, NEW x \in Call, CommitReturn(x), NEW c \in Book
    PROVE  /\ book'[c].availableQuantity = book[c].availableQuantity
                                           + (IF c = call[x].bookId THEN 1 ELSE 0)
           /\ book'[c].totalQuantity = book[c].totalQuantity
<1> DEFINE b == call[x].bookId
           n == book[b].availableQuantity + 1
<1>1. /\ b \in Book /\ book \in [Book -> BookDoc]
      /\ book' = [book EXCEPT ![b].availableQuantity = n]
  BY ReturnFacts DEF BookExists, LendingInv, TypeOK
<1>2. book[b].availableQuantity \in Nat /\ book[c].availableQuantity \in Nat
  BY <1>1 DEF BookDoc
<1>3. n \in Nat /\ n = book[b].availableQuantity + 1
  BY <1>1, <1>2
<1> HIDE DEF b, n
<1>4. /\ book'[b].availableQuantity = n
      /\ \A k \in Book : /\ book'[k].totalQuantity = book[k].totalQuantity
                         /\ k # b => book'[k] = book[k]
  BY <1>1, <1>3, BookCounter
<1> QED BY <1>2, <1>3, <1>4 DEF b

LEMMA ConservationKept ==
    ASSUME LendingInv, BookEdits, Conservation, [Next]_vars
    PROVE  Conservation'
<1> SUFFICES ASSUME NEW c \in Book
             PROVE  book'[c].availableQuantity + Cardinality(BookLoans(c)')
                    = book'[c].totalQuantity
  BY DEF Conservation, BookLoans
<1>0. /\ book[c].availableQuantity + Cardinality(BookLoans(c)) = book[c].totalQuantity
      /\ Cardinality(BookLoans(c)) \in Nat /\ book[c].availableQuantity \in Nat
      /\ book[c].totalQuantity \in Nat
  BY LoansFinite DEF Conservation, BookLoans, LendingInv, TypeOK, BookDoc
<1>1. CASE \E x \in Call, l \in Loan : CommitBorrow(x, l)
  <2>1. PICK x \in Call, l \in Loan : CommitBorrow(x, l)
    BY <1>1
  <2>2. PICK m \in Member : TRUE
    BY <2>1, BorrowFacts DEF MemberExists
  <2>3. Cardinality(BookLoans(c)') = Cardinality(BookLoans(c))
                                     + IF c = call[x].bookId THEN 1 ELSE 0
    BY <2>1, <2>2, LoanOpened
  <2>4. /\ book'[c].availableQuantity + (IF c = call[x].bookId THEN 1 ELSE 0)
             = book[c].availableQuantity
        /\ book'[c].totalQuantity = book[c].totalQuantity
    BY <2>1, CommitBorrowCounts
  <2>5. book'[c].availableQuantity \in Nat
    BY <2>1, CommitBorrowKeeps DEF LendingInv, TypeOK, BookDoc
  <2> QED BY <1>0, <2>3, <2>4, <2>5
<1>2. CASE \E x \in Call : CommitReturn(x)
  <2>1. PICK x \in Call : CommitReturn(x)
    BY <1>2
  <2>2. PICK m \in Member : TRUE
    BY <2>1, ReturnFacts DEF MemberExists
  <2>3. Cardinality(BookLoans(c)) = Cardinality(BookLoans(c)')
                                    + IF c = call[x].bookId THEN 1 ELSE 0
    BY <2>1, <2>2, LoanClosed
  <2>4. /\ book'[c].availableQuantity = book[c].availableQuantity
                                        + (IF c = call[x].bookId THEN 1 ELSE 0)
        /\ book'[c].totalQuantity = book[c].totalQuantity
    BY <2>1, CommitReturnCounts
  <2>5. Cardinality(BookLoans(c)') \in Nat
    <3>1. LendingInv'
      BY <2>1, CommitReturnKeeps
    <3>2. (Cardinality(BookLoans(c)) \in Nat)'
      <4>1. BookLoans(c)' \in SUBSET Loan
        BY DEF BookLoans, OpenLoans
      <4> QED BY <4>1, InputAssumption, FS_Subset, FS_CardinalityType
    <3> QED BY <3>2
  <2> QED BY <1>0, <2>3, <2>4, <2>5
<1>3. CASE \E b \in Book, k \in Category, n \in Quantities : CreateBook(b, k, n)
  <2>1. PICK b \in Book, k \in Category, n \in Quantities : CreateBook(b, k, n)
    BY <1>3
  <2>2. BookLoans(c)' = BookLoans(c)
    BY <2>1, SameLoans DEF CreateBook
  <2>3. CASE c = b
    <3>1. Cardinality(BookLoans(c)) = 0
      BY <2>1, <2>3, AbsentHasNoLoans DEF CreateBook
    <3>2. book'[c].availableQuantity = n /\ book'[c].totalQuantity = n /\ n \in Nat
      BY <2>1, <2>3, InputAssumption DEF CreateBook, LendingInv, TypeOK
    <3> QED BY <2>2, <3>1, <3>2
  <2>4. CASE c # b
    BY <1>0, <2>1, <2>2, <2>4 DEF CreateBook, LendingInv, TypeOK
  <2> QED BY <2>3, <2>4
<1>4. CASE \E e \in Editor, b \in Book : SaveBook(e, b)
  <2>1. PICK e \in Editor, b \in Book : SaveBook(e, b)
    BY <1>4
  <2>2. BookLoans(c)' = BookLoans(c) /\ BookCounts(c)
    BY <2>1, SameLoans, SaveBookCounts DEF SaveBook
  <2> QED BY <1>0, <2>2 DEF BookCounts
<1>5. CASE UNCHANGED <<book, loan>>
  BY <1>0, <1>5, SameLoans
<1> QED BY <1>1, <1>2, <1>3, <1>4, <1>5, Writers DEF SaveMember

LEMMA ConservationInvariant == ASSUME TotalsKept PROVE Spec => []ConservationInv
<1>1. Init => BookEdits /\ Conservation
  <2> SUFFICES ASSUME Init PROVE BookEdits /\ Conservation
    OBVIOUS
  <2>1. BookEdits
    BY NoneAssumption DEF Init, BookEdits, IdleEdit
  <2>2. ASSUME NEW b \in Book
        PROVE  /\ book[b].availableQuantity = 0 /\ book[b].totalQuantity = 0
               /\ Cardinality(BookLoans(b)) = 0
    BY InitLendingInv, AbsentHasNoLoans DEF Init
  <2> QED BY <2>1, <2>2 DEF Conservation, BookLoans
<1>2. ConservationInv /\ [Next]_vars => ConservationInv'
  BY NextLendingInv, BookEditsKept, ConservationKept DEF ConservationInv
<1> QED BY <1>1, <1>2, InitLendingInv, PTL DEF Spec, ConservationInv

\* Every copy of a book is on the shelf or out on an open loan, for any number of
\* desks lending and taking back at once, conflicts, retries and crashes, and
\* beside PATCH requests that set statuses and categories (create and
\* returnBorrowing save the available count they have read, plus or minus one).
THEOREM CopiesConserved == ASSUME TotalsKept PROVE Spec => []Conservation
BY ConservationInvariant, PTL DEF ConservationInv

-----------------------------------------------------------------------------
(* Lending implements Circulation *)

Acquired == {b \in Book : book[b].status # "absent"}
Shelf == [b \in Book |-> book[b].availableQuantity]
Out == [l \in Loan |-> IF loan[l].status = "active"
                       THEN <<loan[l].memberId, loan[l].bookId>> ELSE None]

LEMMA CommitBorrowLends ==
    ASSUME LendingInv, NEW x \in Call, NEW l \in Loan, CommitBorrow(x, l)
    PROVE  \E m \in Member, b \in Book : Desk!Lend(l, m, b)
<1>0. PICK m \in Member, b \in Book : m = call[x].memberId /\ b = call[x].bookId
  BY BorrowFacts DEF MemberExists, BookExists
<1> DEFINE new == [ status |-> "active", memberId |-> m, bookId |-> b,
                    borrowedAt |-> call[x].borrowedAt, dueAt |-> call[x].dueAt ]
<1>1. /\ book[b].availableQuantity >= 1
      /\ loan[l].status = "absent" /\ loan' = [loan EXCEPT ![l] = new]
      /\ loan \in [Loan -> LoanDoc] /\ book \in [Book -> BookDoc]
  BY <1>0, BorrowFacts DEF LendingInv, TypeOK
<1>2. new.status = "active" /\ new.memberId = m /\ new.bookId = b
  OBVIOUS
<1>3. \A c \in Book : /\ book'[c].availableQuantity + (IF c = b THEN 1 ELSE 0)
                            = book[c].availableQuantity
                      /\ book[c].availableQuantity \in Nat
                      /\ book'[c].availableQuantity \in Nat
  BY <1>0, CommitBorrowCounts, CommitBorrowKeeps DEF LendingInv, TypeOK, BookDoc
<1>4. \A c \in Book : book'[c].status = book[c].status
  <2>1. book' = [book EXCEPT ![b].availableQuantity = book[b].availableQuantity - 1]
    BY <1>0, BorrowFacts
  <2>2. book[b].availableQuantity - 1 \in Nat
    BY <1>1, <1>3
  <2> QED BY <1>1, <2>1, <2>2, BookCounter
<1> HIDE DEF new
<1>5. Out[l] = None /\ Shelf[b] > 0
  BY <1>1, <1>3 DEF Out, Shelf
<1>6. Out' = [Out EXCEPT ![l] = <<m, b>>]
  BY <1>1, <1>2 DEF Out
<1>7. Shelf' = [Shelf EXCEPT ![b] = Shelf[b] - 1]
  <2>1. \A c \in Book : book'[c].availableQuantity =
           IF c = b THEN book[c].availableQuantity - 1 ELSE book[c].availableQuantity
    BY <1>3
  <2> QED BY <1>1, <2>1 DEF Shelf
<1>8. Acquired' = Acquired
  BY <1>4 DEF Acquired
<1>9. Desk!Lend(l, m, b)
  BY <1>5, <1>6, <1>7, <1>8 DEF Desk!Lend, Out, Shelf, Acquired
<1> QED BY <1>9

LEMMA CommitReturnTakesBack ==
    ASSUME LendingInv, NEW x \in Call, CommitReturn(x)
    PROVE  \E l \in Loan, m \in Member, b \in Book : Desk!TakeBack(l, m, b)
<1>0. PICK m \in Member, b \in Book, l \in Loan :
         m = call[x].memberId /\ b = call[x].bookId /\ l = call[x].loanId
  BY ReturnFacts DEF MemberExists, BookExists
<1>1. /\ loan[l].status = "active" /\ loan[l].memberId = m /\ loan[l].bookId = b
      /\ loan' = [loan EXCEPT ![l].status = "returned"]
      /\ loan \in [Loan -> LoanDoc] /\ book \in [Book -> BookDoc]
  BY <1>0, ReturnFacts DEF LendingInv, TypeOK
<1>2. \A c \in Book : /\ book'[c].availableQuantity = book[c].availableQuantity
                                                      + (IF c = b THEN 1 ELSE 0)
                      /\ book[c].availableQuantity \in Nat
  BY <1>0, <1>1, CommitReturnCounts DEF BookDoc
<1>3. \A c \in Book : book'[c].status = book[c].status
  <2>1. book' = [book EXCEPT ![b].availableQuantity = book[b].availableQuantity + 1]
    BY <1>0, ReturnFacts
  <2>2. book[b].availableQuantity + 1 \in Nat
    BY <1>1, <1>2
  <2> QED BY <1>1, <2>1, <2>2, BookCounter
<1>4. loan'[l].status = "returned" /\ \A k \in Loan : k # l => loan'[k] = loan[k]
  BY <1>1 DEF LoanDoc
<1>5. Out[l] = <<m, b>>
  BY <1>1 DEF Out
<1>6. Out' = [Out EXCEPT ![l] = None]
  BY <1>1, <1>4 DEF Out
<1>7. Shelf' = [Shelf EXCEPT ![b] = Shelf[b] + 1]
  <2>1. \A c \in Book : book'[c].availableQuantity =
           IF c = b THEN book[c].availableQuantity + 1 ELSE book[c].availableQuantity
    BY <1>2
  <2> QED BY <1>1, <2>1 DEF Shelf
<1>8. Acquired' = Acquired
  BY <1>3 DEF Acquired
<1>9. Desk!TakeBack(l, m, b)
  BY <1>5, <1>6, <1>7, <1>8 DEF Desk!TakeBack, Out, Shelf, Acquired
<1> QED BY <1>9

LEMMA CreateBookAcquires ==
    ASSUME LendingInv, NEW b \in Book, NEW c \in Category, NEW n \in Quantities,
           CreateBook(b, c, n)
    PROVE  Desk!Acquire(b)
<1> DEFINE new == [ status |-> "active", categoryId |-> c,
                    totalQuantity |-> n, availableQuantity |-> n ]
<1>1. /\ book[b].status = "absent" /\ book' = [book EXCEPT ![b] = new]
      /\ book \in [Book -> BookDoc] /\ loan' = loan
  BY DEF CreateBook, LendingInv, TypeOK
<1>2. new.status = "active" /\ new.availableQuantity = n /\ n \in Nat
  BY InputAssumption
<1> HIDE DEF new
<1>3. b \notin Acquired /\ Acquired' = Acquired \cup {b}
  BY <1>1, <1>2 DEF Acquired
<1>4. Shelf'[b] \in Nat /\ Shelf' = [Shelf EXCEPT ![b] = Shelf'[b]]
  BY <1>1, <1>2 DEF Shelf
<1>5. Out' = Out
  BY <1>1 DEF Out
<1> QED BY <1>3, <1>4, <1>5 DEF Desk!Acquire, Out, Shelf, Acquired

LEMMA StepOnDesk ==
    ASSUME LendingInv, BookEdits, [Next]_vars
    PROVE  Desk!Next \/ UNCHANGED <<Acquired, Shelf, Out>>
<1>1. CASE \E x \in Call, l \in Loan : CommitBorrow(x, l)
  BY <1>1, CommitBorrowLends DEF Desk!Next
<1>2. CASE \E x \in Call : CommitReturn(x)
  BY <1>2, CommitReturnTakesBack DEF Desk!Next
<1>3. CASE \E b \in Book, c \in Category, n \in Quantities : CreateBook(b, c, n)
  BY <1>3, CreateBookAcquires DEF Desk!Next
<1>4. ASSUME NEW e \in Editor, NEW b \in Book, SaveBook(e, b)
      PROVE  UNCHANGED <<Acquired, Shelf, Out>>
  <2>1. /\ edit[e].target = b /\ book[b].status # "absent" /\ loan' = loan
        /\ \A c \in Book : c # b => book'[c] = book[c]
    BY <1>4 DEF SaveBook, LendingInv, EditInv, Found, TypeOK
  <2>2. NoneRemoved
    BY <1>4, SaveBookKeeps
  <2>3. Acquired' = Acquired
    BY <2>1, <2>2 DEF Acquired, NoneRemoved
  <2>4. Shelf' = Shelf
    BY <1>4, SaveBookCounts DEF BookCounts, Shelf
  <2> QED BY <2>1, <2>3, <2>4 DEF Out
<1>5. CASE UNCHANGED <<book, loan>>
  BY <1>5 DEF Acquired, Shelf, Out
<1> QED BY <1>1, <1>2, <1>3, <1>4, <1>5, Writers DEF SaveMember

\* Lending implements Circulation as long as no PATCH sets the total of a book:
\* however transactions conflict, are run again or are given up, each commit
\* moves exactly one copy between the shelf and a loan, and nothing else does.
THEOREM LendingImplementsCirculation == ASSUME TotalsKept PROVE Spec => ImplementsCirculation
<1>1. Init => Desk!Init
  BY DEF Init, Desk!Init
<1>2. ConservationInv /\ [Next]_vars => [Desk!Next]_<<Acquired, Shelf, Out>>
  BY StepOnDesk DEF ConservationInv
<1>3. ConservationInv /\ [Next]_vars =>
        [Desk!Next]_<< {b \in Book : book[b].status # "absent"},
                       [b \in Book |-> book[b].availableQuantity],
                       [l \in Loan |-> IF loan[l].status = "active"
                                       THEN <<loan[l].memberId, loan[l].bookId>>
                                       ELSE None] >>
  BY <1>2 DEF Acquired, Shelf, Out
<1> QED BY <1>1, <1>3, ConservationInvariant, PTL DEF Spec, ImplementsCirculation, Desk!Spec

-----------------------------------------------------------------------------
(* The members' counters *)

\* The case that is proved: no request sets a member's counter, except to zero
\* when the member is created.
CountsKept == /\ \A p \in MemberPatch : p.activeLoanCount = None
              /\ StartCounts \subseteq {0}

\* A member that is being created has one creator, whose counter is zero; the
\* handlers that edit a member leave the counter alone.
CreatorInv ==
    \A e, f \in Editor :
        /\ edit[e].target \in Member
        /\ edit[f].target = edit[e].target
        /\ member[edit[e].target].status = "absent"
        => f = e

CountEdits ==
    \A e \in Editor : edit[e].target \in Member =>
        edit[e].writes.activeLoanCount =
            IF member[edit[e].target].status = "absent" THEN 0 ELSE None

CountInv == LendingInv /\ CreatorInv /\ CountEdits /\ CountMatchesLoans

\* Which members exist changes by a save only.
LEMMA MemberStatuses ==
    ASSUME LendingInv, [Next]_vars, NEW m \in Member,
           ~\E e \in Editor : SaveMember(e, m)
    PROVE  member'[m].status = member[m].status
<1>0. member \in [Member -> MemberDoc]
  BY DEF LendingInv, TypeOK
<1>1. ASSUME NEW x \in Call, NEW l \in Loan, CommitBorrow(x, l)
      PROVE  member'[m].status = member[m].status
  <2> DEFINE k == call[x].memberId
             n == member[k].activeLoanCount + 1
  <2>1. k \in Member /\ member' = [member EXCEPT ![k].activeLoanCount = n]
    BY <1>1, BorrowFacts DEF MemberExists
  <2>2. n \in Nat
    BY <1>0, <2>1 DEF MemberDoc
  <2> HIDE DEF k, n
  <2> QED BY <1>0, <2>1, <2>2, MemberCounter
<1>2. ASSUME NEW x \in Call, CommitReturn(x)
      PROVE  member'[m].status = member[m].status
  <2> DEFINE k == call[x].memberId
             n == IF member[k].activeLoanCount = 0 THEN 0
                  ELSE member[k].activeLoanCount - 1
  <2>1. k \in Member /\ member' = [member EXCEPT ![k].activeLoanCount = n]
    BY <1>2, ReturnFacts DEF MemberExists
  <2>2. n \in Nat
    BY <1>0, <2>1 DEF MemberDoc
  <2> HIDE DEF k, n
  <2> QED BY <1>0, <2>1, <2>2, MemberCounter
<1>3. ASSUME NEW e \in Editor, NEW k \in Member, SaveMember(e, k)
      PROVE  member'[m].status = member[m].status
  <2>1. k # m
    BY <1>3
  <2> QED BY <1>0, <1>3, <2>1 DEF SaveMember
<1> QED BY <1>1, <1>2, <1>3, Writers DEF CreateBook, SaveBook

\* An editor of a member has read it or creates it, or is what it was.
LEMMA MemberEditors ==
    ASSUME LendingInv, [Next]_vars, NEW e \in Editor, edit'[e].target \in Member,
           NEW m, m = edit'[e].target
    PROVE  \/ edit'[e] = edit[e]
           \/ \E t \in MembershipType, n \in StartCounts : CreateMember(e, m, t, n)
           \/ \E p \in MemberPatch : ReadMember(e, m, p)
<1>0. EditInv /\ edit \in [Editor -> EditState]
  BY DEF LendingInv, EditInv
<1>1. CASE edit'[e] = IdleEdit
  BY <1>1, NoneAssumption DEF IdleEdit
<1>2. CASE \E b \in Book, p \in BookPatch : ReadBook(e, b, p)
  BY <1>0, <1>2, IdAssumption DEF ReadBook, Editing
<1>3. CASE \E c \in Category, p \in CategoryPatch : ReadCategory(e, c, p)
  BY <1>0, <1>3, IdAssumption DEF ReadCategory, Editing
<1>4. CASE \E t \in MembershipType, p \in TypePatch : ReadType(e, t, p)
  BY <1>0, <1>4, IdAssumption DEF ReadType, Editing
<1>5. ASSUME NEW k \in Member, NEW t \in MembershipType, NEW n \in StartCounts,
             CreateMember(e, k, t, n)
      PROVE  k = m
  BY <1>0, <1>5 DEF CreateMember, Editing
<1>6. ASSUME NEW k \in Member, NEW p \in MemberPatch, ReadMember(e, k, p)
      PROVE  k = m
  BY <1>0, <1>6 DEF ReadMember, Editing
<1> QED BY <1>0, <1>1, <1>2, <1>3, <1>4, <1>5, <1>6, Editors

LEMMA CreatorKept ==
    ASSUME LendingInv, CreatorInv, [Next]_vars
    PROVE  CreatorInv'
<1>0. EditInv /\ edit \in [Editor -> EditState]
  BY DEF LendingInv, EditInv
<1> SUFFICES ASSUME NEW e \in Editor, NEW f \in Editor, edit'[e].target \in Member,
                    edit'[f].target = edit'[e].target,
                    member'[edit'[e].target].status = "absent"
             PROVE  f = e
  BY DEF CreatorInv
<1>1. PICK m \in Member : m = edit'[e].target /\ m = edit'[f].target
  OBVIOUS
<1>2. member[m].status = "absent"
  BY <1>1, NextLendingInv DEF NoneRemoved
<1>3. ASSUME NEW g \in Editor, NEW p \in MemberPatch, ReadMember(g, m, p) PROVE FALSE
  BY <1>2, <1>3 DEF ReadMember
<1>4. CASE edit'[e] = edit[e] /\ edit'[f] = edit[f]
  BY <1>1, <1>2, <1>4 DEF CreatorInv
<1>5. ASSUME NEW g \in Editor, NEW h \in Editor, edit'[h].target = m,
             NEW t \in MembershipType, NEW n \in StartCounts, CreateMember(g, m, t, n)
      PROVE  h = g
  <2>1. edit[h].target # m /\ edit' = [edit EXCEPT ![g] =
             [ target |-> m, writes |-> [ status |-> "active", membershipTypeId |-> t,
                                          activeLoanCount |-> n ] ]]
    BY <1>5 DEF CreateMember, Editing
  <2> QED BY <1>0, <1>5, <2>1
<1>6. CASE \E t \in MembershipType, n \in StartCounts : CreateMember(e, m, t, n)
  BY <1>1, <1>5, <1>6
<1>7. CASE \E t \in MembershipType, n \in StartCounts : CreateMember(f, m, t, n)
  BY <1>1, <1>5, <1>7
<1> QED BY <1>1, <1>3, <1>4, <1>6, <1>7, MemberEditors

\* A save of a member leaves the counter as it is.
LEMMA SaveMemberCounts ==
    ASSUME LendingInv, CountEdits, CountMatchesLoans,
           NEW e \in Editor, NEW k \in Member, SaveMember(e, k), NEW m \in Member
    PROVE  member'[m].activeLoanCount = member[m].activeLoanCount
<1>1. /\ edit[e].target = k /\ member \in [Member -> MemberDoc] /\ EditInv
      /\ member' = [member EXCEPT ![k] = Saved(member[k], edit[e].writes)]
  BY DEF SaveMember, LendingInv, TypeOK
<1>2. edit[e].writes \in MemberWrites
  BY <1>1, WritesFit
<1>3. Saved(member[k], edit[e].writes).activeLoanCount =
         IF edit[e].writes.activeLoanCount = None THEN member[k].activeLoanCount
                                                  ELSE edit[e].writes.activeLoanCount
  BY <1>1, <1>2, SavedMember
<1>4. member[k].status = "absent" => member[k].activeLoanCount = 0
  BY AbsentHasNoLoans DEF CountMatchesLoans, MemberLoans
<1>5. Saved(member[k], edit[e].writes).activeLoanCount = member[k].activeLoanCount
  BY <1>1, <1>3, <1>4 DEF CountEdits
<1> QED BY <1>1, <1>5

LEMMA CountEditsKept ==
    ASSUME CountsKept, LendingInv, CreatorInv, CountEdits, [Next]_vars
    PROVE  CountEdits'
<1>0. EditInv /\ edit \in [Editor -> EditState]
  BY DEF LendingInv, EditInv
<1> SUFFICES ASSUME NEW e \in Editor, edit'[e].target \in Member
             PROVE  edit'[e].writes.activeLoanCount =
                       IF member'[edit'[e].target].status = "absent" THEN 0 ELSE None
  BY DEF CountEdits
<1>1. PICK m \in Member : m = edit'[e].target
  OBVIOUS
<1>2. CASE edit'[e] = edit[e]
  <2>1. CASE \E f \in Editor : SaveMember(f, m)
    <3>1. PICK f \in Editor : SaveMember(f, m)
      BY <2>1
    <3>2. edit[f].target = m /\ edit[e].target = m /\ edit'[f] = IdleEdit
      BY <1>0, <1>1, <1>2, <3>1 DEF SaveMember
    <3>3. f # e
      BY <1>1, <3>2, NoneAssumption DEF IdleEdit
    <3>4. member[m].status # "absent"
      BY <3>2, <3>3 DEF CreatorInv
    <3>5. member'[m].status # "absent"
      BY <3>4, NextLendingInv DEF NoneRemoved
    <3> QED BY <1>1, <1>2, <3>4, <3>5 DEF CountEdits
  <2>2. CASE ~\E f \in Editor : SaveMember(f, m)
    BY <1>1, <1>2, <2>2, MemberStatuses DEF CountEdits
  <2> QED BY <2>1, <2>2
<1>3. CASE \E t \in MembershipType, n \in StartCounts : CreateMember(e, m, t, n)
  BY <1>0, <1>1, <1>3 DEF CreateMember, Editing, docs, CountsKept
<1>4. CASE \E p \in MemberPatch : ReadMember(e, m, p)
  <2>1. PICK p \in MemberPatch : ReadMember(e, m, p)
    BY <1>4
  <2>2. /\ member'[m].status # "absent"
        /\ edit'[e].writes.activeLoanCount =
              Changed(p.activeLoanCount, member[m].activeLoanCount)
    BY <1>0, <2>1 DEF ReadMember, Editing, docs
  <2>3. p.activeLoanCount = None
    BY DEF CountsKept
  <2> QED BY <1>1, <2>2, <2>3 DEF Changed
<1> QED BY <1>1, <1>2, <1>3, <1>4, MemberEditors

LEMMA CommitBorrowMember ==
    ASSUME LendingInv, NEW x \in Call, NEW l \in Loan, CommitBorrow(x, l), NEW m \in Member
    PROVE  member'[m].activeLoanCount = member[m].activeLoanCount
                                        + (IF m = call[x].memberId THEN 1 ELSE 0)
<1> DEFINE k == call[x].memberId
           n == member[k].activeLoanCount + 1
<1>1. /\ k \in Member /\ member \in [Member -> MemberDoc]
      /\ member' = [member EXCEPT ![k].activeLoanCount = n]
  BY BorrowFacts DEF MemberExists, LendingInv, TypeOK
<1>2. n \in Nat /\ n = member[k].activeLoanCount + 1 /\ member[m].activeLoanCount \in Nat
  BY <1>1 DEF MemberDoc
<1> HIDE DEF k, n
<1>3. member'[k].activeLoanCount = n /\ (m # k => member'[m] = member[m])
  BY <1>1, <1>2, MemberCounter
<1> QED BY <1>2, <1>3 DEF k

LEMMA CommitReturnMember ==
    ASSUME LendingInv, NEW x \in Call, CommitReturn(x), NEW m \in Member,
           member[m].activeLoanCount # 0
    PROVE  member[m].activeLoanCount = member'[m].activeLoanCount
                                       + (IF m = call[x].memberId THEN 1 ELSE 0)
<1> DEFINE k == call[x].memberId
           n == IF member[k].activeLoanCount = 0 THEN 0
                ELSE member[k].activeLoanCount - 1
<1>1. /\ k \in Member /\ member \in [Member -> MemberDoc]
      /\ member' = [member EXCEPT ![k].activeLoanCount = n]
  BY ReturnFacts DEF MemberExists, LendingInv, TypeOK
<1>2. /\ n \in Nat /\ member[m].activeLoanCount \in Nat
      /\ m = k => n + 1 = member[m].activeLoanCount
  BY <1>1 DEF MemberDoc
<1> HIDE DEF k, n
<1>3. member'[k].activeLoanCount = n /\ (m # k => member'[m] = member[m])
  BY <1>1, <1>2, MemberCounter
<1> QED BY <1>2, <1>3 DEF k

LEMMA CountsMatchKept ==
    ASSUME LendingInv, CountEdits, CountMatchesLoans, [Next]_vars
    PROVE  CountMatchesLoans'
<1> SUFFICES ASSUME NEW m \in Member
             PROVE  member'[m].activeLoanCount = Cardinality(MemberLoans(m)')
  BY DEF CountMatchesLoans, MemberLoans
<1>0. /\ member[m].activeLoanCount = Cardinality(MemberLoans(m))
      /\ Cardinality(MemberLoans(m)) \in Nat
  BY LoansFinite DEF CountMatchesLoans, MemberLoans
<1>1. CASE \E x \in Call, l \in Loan : CommitBorrow(x, l)
  <2>1. PICK x \in Call, l \in Loan : CommitBorrow(x, l)
    BY <1>1
  <2>2. PICK b \in Book : TRUE
    BY <2>1, BorrowFacts DEF BookExists
  <2> QED BY <1>0, <2>1, <2>2, LoanOpened, CommitBorrowMember
<1>2. CASE \E x \in Call : CommitReturn(x)
  <2>1. PICK x \in Call : CommitReturn(x)
    BY <1>2
  <2>2. PICK b \in Book : TRUE
    BY <2>1, ReturnFacts DEF BookExists
  <2>3. Cardinality(MemberLoans(m)) = Cardinality(MemberLoans(m)')
                                      + IF m = call[x].memberId THEN 1 ELSE 0
    BY <2>1, <2>2, LoanClosed
  <2>4. Cardinality(MemberLoans(m)') \in Nat
    <3>1. MemberLoans(m)' \in SUBSET Loan
      BY DEF MemberLoans, OpenLoans
    <3> QED BY <3>1, InputAssumption, FS_Subset, FS_CardinalityType
  <2>5. member'[m].activeLoanCount \in Nat
    BY <2>1, CommitReturnKeeps DEF LendingInv, TypeOK, MemberDoc
  <2>6. CASE member[m].activeLoanCount # 0
    <3>1. member[m].activeLoanCount = member'[m].activeLoanCount
                                      + (IF m = call[x].memberId THEN 1 ELSE 0)
      BY <2>1, <2>6, CommitReturnMember
    <3> QED BY <1>0, <2>3, <2>4, <2>5, <3>1
  <2>7. CASE member[m].activeLoanCount = 0
    <3>1. m # call[x].memberId /\ Cardinality(MemberLoans(m)') = 0
      BY <1>0, <2>3, <2>4, <2>7
    <3>2. member'[m] = member[m]
      <4>1. /\ call[x].memberId \in Member
            /\ member' = [member EXCEPT ![call[x].memberId].activeLoanCount =
                              IF member[call[x].memberId].activeLoanCount = 0 THEN 0
                              ELSE member[call[x].memberId].activeLoanCount - 1]
        BY <2>1, ReturnFacts DEF MemberExists
      <4> QED BY <3>1, <4>1 DEF LendingInv, TypeOK
    <3> QED BY <2>7, <3>1, <3>2
  <2> QED BY <2>6, <2>7
<1>3. CASE \E e \in Editor, k \in Member : SaveMember(e, k)
  <2>1. PICK e \in Editor, k \in Member : SaveMember(e, k)
    BY <1>3
  <2>2. MemberLoans(m)' = MemberLoans(m)
    BY <2>1, SameLoans DEF SaveMember
  <2> QED BY <1>0, <2>1, <2>2, SaveMemberCounts
<1>4. CASE UNCHANGED <<member, loan>>
  BY <1>0, <1>4, SameLoans
<1> QED BY <1>1, <1>2, <1>3, <1>4, Writers DEF CreateBook, SaveBook

LEMMA CountInvariant == ASSUME CountsKept PROVE Spec => []CountInv
<1>1. Init => CreatorInv /\ CountEdits /\ CountMatchesLoans
  <2> SUFFICES ASSUME Init PROVE CreatorInv /\ CountEdits /\ CountMatchesLoans
    OBVIOUS
  <2>1. CreatorInv /\ CountEdits
    BY NoneAssumption DEF Init, CreatorInv, CountEdits, IdleEdit
  <2>2. ASSUME NEW m \in Member
        PROVE  member[m].activeLoanCount = 0 /\ Cardinality(MemberLoans(m)) = 0
    BY InitLendingInv, AbsentHasNoLoans DEF Init
  <2> QED BY <2>1, <2>2 DEF CountMatchesLoans, MemberLoans
<1>2. CountInv /\ [Next]_vars => CountInv'
  BY NextLendingInv, CreatorKept, CountEditsKept, CountsMatchKept DEF CountInv
<1> QED BY <1>1, <1>2, InitLendingInv, PTL DEF Spec, CountInv

\* The counter of a member is the number of open loans, although the counter and
\* the loans are documents of their own: for any number of desks and beside PATCH
\* requests that set statuses and membership types (create and returnBorrowing
\* save the counter they have read, plus or minus one).
THEOREM CountsMatchLoans == ASSUME CountsKept PROVE Spec => []CountMatchesLoans
BY CountInvariant, PTL DEF CountInv

-----------------------------------------------------------------------------
(* The limits of the membership types *)

\* The case that is proved: no PATCH moves a member to another membership type,
\* and none sets the limit of a type, which may lower it below what is out.
LimitsKept == /\ \A p \in MemberPatch : p.membershipTypeId = None
              /\ \A p \in TypePatch : p.maxActiveLoans = None

LimitEdits ==
    \A e \in Editor :
        /\ edit[e].target \in Member =>
              \/ member[edit[e].target].status = "absent"
              \/ edit[e].writes.membershipTypeId = None
        /\ edit[e].target \in MembershipType => edit[e].writes.maxActiveLoans = None

\* A borrower that nobody has written since is below the limit.
BelowLimit ==
    \A x \in Call :
        /\ call[x].pc = "write" /\ call[x].kind = "borrow"
        /\ call[x].memberId \notin call[x].changed
        => call[x].count < MaxActiveLoans(call[x].memberId)

LEMMA LimitEditsKept ==
    ASSUME LimitsKept, LendingInv, CreatorInv, LimitEdits, [Next]_vars
    PROVE  LimitEdits'
<1>0. EditInv /\ edit \in [Editor -> EditState]
  BY DEF LendingInv, EditInv
<1>1. ASSUME NEW e \in Editor, edit'[e].target \in Member
      PROVE  \/ member'[edit'[e].target].status = "absent"
             \/ edit'[e].writes.membershipTypeId = None
  <2>1. PICK m \in Member : m = edit'[e].target
    BY <1>1
  <2>2. CASE edit'[e] = edit[e]
    <3>1. CASE \E f \in Editor : SaveMember(f, m)
      <4>1. PICK f \in Editor : SaveMember(f, m)
        BY <3>1
      <4>2. edit[f].target = m /\ edit[e].target = m /\ edit'[f] = IdleEdit
        BY <1>0, <2>1, <2>2, <4>1 DEF SaveMember
      <4>3. f # e
        BY <2>1, <4>2, NoneAssumption DEF IdleEdit
      <4>4. member[m].status # "absent"
        BY <4>2, <4>3 DEF CreatorInv
      <4> QED BY <2>1, <2>2, <4>4 DEF LimitEdits
    <3>2. CASE ~\E f \in Editor : SaveMember(f, m)
      BY <2>1, <2>2, <3>2, MemberStatuses DEF LimitEdits
    <3> QED BY <3>1, <3>2
  <2>3. CASE \E t \in MembershipType, n \in StartCounts : CreateMember(e, m, t, n)
    BY <2>1, <2>3 DEF CreateMember, Editing, docs
  <2>4. CASE \E p \in MemberPatch : ReadMember(e, m, p)
    <3>1. PICK p \in MemberPatch : ReadMember(e, m, p)
      BY <2>4
    <3>2. edit'[e].writes.membershipTypeId =
             Changed(p.membershipTypeId, member[m].membershipTypeId)
      BY <1>0, <3>1 DEF ReadMember, Editing
    <3>3. p.membershipTypeId = None
      BY DEF LimitsKept
    <3> QED BY <3>2, <3>3 DEF Changed
  <2> QED BY <1>1, <2>1, <2>2, <2>3, <2>4, MemberEditors
<1>2. ASSUME NEW e \in Editor, edit'[e].target \in MembershipType
      PROVE  edit'[e].writes.maxActiveLoans = None
  <2>1. CASE edit'[e] = edit[e]
    BY <1>2, <2>1 DEF LimitEdits
  <2>2. CASE edit'[e] = IdleEdit
    BY <1>2, <2>2, NoneAssumption DEF IdleEdit
  <2>3. ASSUME NEW t \in MembershipType, NEW p \in TypePatch, ReadType(e, t, p)
        PROVE  edit'[e].writes.maxActiveLoans = None
    <3>1. edit'[e].writes.maxActiveLoans =
             Changed(p.maxActiveLoans, membershipType[t].maxActiveLoans)
      BY <1>0, <2>3 DEF ReadType, Editing
    <3>2. p.maxActiveLoans = None
      BY DEF LimitsKept
    <3> QED BY <3>1, <3>2 DEF Changed
  <2>4. CASE \E m \in Member, t \in MembershipType, n \in StartCounts :
                CreateMember(e, m, t, n)
    BY <1>0, <1>2, <2>4, IdAssumption DEF CreateMember, Editing
  <2>5. CASE \E b \in Book, p \in BookPatch : ReadBook(e, b, p)
    BY <1>0, <1>2, <2>5, IdAssumption DEF ReadBook, Editing
  <2>6. CASE \E m \in Member, p \in MemberPatch : ReadMember(e, m, p)
    BY <1>0, <1>2, <2>6, IdAssumption DEF ReadMember, Editing
  <2>7. CASE \E c \in Category, p \in CategoryPatch : ReadCategory(e, c, p)
    BY <1>0, <1>2, <2>7, IdAssumption DEF ReadCategory, Editing
  <2> QED BY <1>0, <2>1, <2>2, <2>3, <2>4, <2>5, <2>6, <2>7, Editors
<1> QED BY <1>1, <1>2 DEF LimitEdits

\* The limit of a type that exists is fixed ...
LEMMA TypeLimitsStay ==
    ASSUME LendingInv, LimitEdits, [Next]_vars, NEW t \in MembershipType,
           membershipType[t].status # "absent"
    PROVE  membershipType'[t].maxActiveLoans = membershipType[t].maxActiveLoans
<1>0. membershipType \in [MembershipType -> TypeDoc] /\ EditInv
  BY DEF LendingInv, TypeOK
<1>1. ASSUME NEW e \in Editor, NEW k \in MembershipType, SaveType(e, k)
      PROVE  membershipType'[t].maxActiveLoans = membershipType[t].maxActiveLoans
  <2>1. /\ edit[e].target = k
        /\ membershipType' =
              [membershipType EXCEPT ![k] = Saved(membershipType[k], edit[e].writes)]
    BY <1>1 DEF SaveType
  <2>2. edit[e].writes \in TypeWrites /\ edit[e].writes.maxActiveLoans = None
    BY <1>0, <2>1, WritesFit DEF LimitEdits
  <2>3. Saved(membershipType[k], edit[e].writes).maxActiveLoans
           = membershipType[k].maxActiveLoans
    BY <1>0, <2>2, SavedType
  <2> QED BY <1>0, <2>1, <2>3
<1>2. ASSUME NEW x \in Call, CallStep(x) PROVE UNCHANGED membershipType
  BY <1>2 DEF CallStep, BeginBorrow, CommitBorrow, BeginReturn, CommitReturn, Retry,
      AbortCall, docs
<1>3. ASSUME NEW e \in Editor, EditStep(e)
      PROVE  UNCHANGED membershipType \/ \E k \in MembershipType : SaveType(e, k)
  BY <1>3 DEF EditStep, CreateMember, ReadBook, ReadMember, ReadCategory, ReadType,
      Editing, SaveBook, SaveMember, SaveCategory, AbortEdit, docs
<1>4. ASSUME NEW k \in MembershipType, NEW n \in LoanLimits, CreateMembershipType(k, n)
      PROVE  membershipType'[t] = membershipType[t]
  BY <1>0, <1>4 DEF CreateMembershipType
<1>5. CASE Tick \/ UNCHANGED vars
  BY <1>5 DEF Tick, vars, docs
<1>6. CASE CreateStep
  BY <1>4, <1>6 DEF CreateStep, CreateCategory, CreateBook
<1> QED BY <1>1, <1>2, <1>3, <1>5, <1>6 DEF Next

\* ... and so is the type of a member that exists.
LEMMA MemberTypesStay ==
    ASSUME LendingInv, LimitEdits, [Next]_vars, NEW m \in Member,
           member[m].status # "absent"
    PROVE  member'[m].membershipTypeId = member[m].membershipTypeId
<1>0. member \in [Member -> MemberDoc] /\ EditInv
  BY DEF LendingInv, TypeOK
<1>1. ASSUME NEW x \in Call, NEW l \in Loan, CommitBorrow(x, l)
      PROVE  member'[m].membershipTypeId = member[m].membershipTypeId
  <2> DEFINE k == call[x].memberId
             n == member[k].activeLoanCount + 1
  <2>1. k \in Member /\ member' = [member EXCEPT ![k].activeLoanCount = n]
    BY <1>1, BorrowFacts DEF MemberExists
  <2>2. n \in Nat
    BY <1>0, <2>1 DEF MemberDoc
  <2> HIDE DEF k, n
  <2> QED BY <1>0, <2>1, <2>2, MemberCounter
<1>2. ASSUME NEW x \in Call, CommitReturn(x)
      PROVE  member'[m].membershipTypeId = member[m].membershipTypeId
  <2> DEFINE k == call[x].memberId
             n == IF member[k].activeLoanCount = 0 THEN 0
                  ELSE member[k].activeLoanCount - 1
  <2>1. k \in Member /\ member' = [member EXCEPT ![k].activeLoanCount = n]
    BY <1>2, ReturnFacts DEF MemberExists
  <2>2. n \in Nat
    BY <1>0, <2>1 DEF MemberDoc
  <2> HIDE DEF k, n
  <2> QED BY <1>0, <2>1, <2>2, MemberCounter
<1>3. ASSUME NEW e \in Editor, NEW k \in Member, SaveMember(e, k)
      PROVE  member'[m].membershipTypeId = member[m].membershipTypeId
  <2>1. /\ edit[e].target = k
        /\ member' = [member EXCEPT ![k] = Saved(member[k], edit[e].writes)]
    BY <1>3 DEF SaveMember
  <2>2. edit[e].writes \in MemberWrites
    BY <1>0, <2>1, WritesFit
  <2>3. k = m => Saved(member[k], edit[e].writes).membershipTypeId
                    = member[k].membershipTypeId
    BY <1>0, <2>1, <2>2, SavedMember DEF LimitEdits
  <2> QED BY <1>0, <2>1, <2>3
<1> QED BY <1>1, <1>2, <1>3, Writers DEF CreateBook, SaveBook

LEMMA LimitsStay ==
    ASSUME LendingInv, LimitEdits, [Next]_vars, NEW m \in Member,
           member[m].status # "absent"
    PROVE  MaxActiveLoans(m)' = MaxActiveLoans(m)
<1>1. TypeExists(member[m].membershipTypeId)
  BY DEF LendingInv, ReferenceInv
<1>2. /\ member'[m].membershipTypeId = member[m].membershipTypeId
      /\ member[m].membershipTypeId \in MembershipType
  BY <1>1, MemberTypesStay DEF TypeExists
<1> QED BY <1>1, <1>2, TypeLimitsStay DEF TypeExists, MaxActiveLoans

\* A transaction that is about to write has just begun, or was.
LEMMA Writing ==
    ASSUME LendingInv, [Next]_vars, NEW x \in Call, call'[x].pc = "write"
    PROVE  \/ \E m \in Member, b \in Book : BeginBorrow(x, m, b)
           \/ \E l \in Loan : BeginReturn(x, l) /\ call'[x].kind = "return"
           \/ /\ call[x].pc = "write" /\ call'[x].kind = call[x].kind
              /\ call'[x].memberId = call[x].memberId
              /\ call'[x].count = call[x].count
              /\ call[x].changed \subseteq call'[x].changed
<1>0. call \in [Call -> CallState] /\ EditInv /\ TypeOK
  BY DEF LendingInv, TypeOK
<1> DEFINE Goes == /\ call[x].pc = "write" /\ call'[x].kind = call[x].kind
                   /\ call'[x].memberId = call[x].memberId
                   /\ call'[x].count = call[x].count
                   /\ call[x].changed \subseteq call'[x].changed
<1>1. ASSUME NEW D, call'[x] = [call[x] EXCEPT !.changed = @ \cup D], call[x].pc = "write"
      PROVE  Goes
  BY <1>0, <1>1 DEF CallState
<1>2. CASE call'[x] = call[x]
  BY <1>2
<1>3. ASSUME NEW y \in Call, NEW l \in Loan, CommitBorrow(y, l) PROVE Goes
  <2> DEFINE D == {call[y].bookId, call[y].memberId, l}
  <2>1. D \in SUBSET (Book \cup Member \cup Loan)
    BY <1>3, BorrowFacts DEF BookExists, MemberExists
  <2>2. call' = Touch(D, [call EXCEPT ![y] = IdleCall])
    BY <1>3 DEF CommitBorrow
  <2> HIDE DEF D
  <2>3. call[x].pc = "write" /\ call'[x] = [call[x] EXCEPT !.changed = @ \cup D]
    BY <1>0, <2>1, <2>2, TouchedOthers
  <2> QED BY <1>1, <2>3
<1>4. ASSUME NEW y \in Call, CommitReturn(y) PROVE Goes
  <2> DEFINE D == {call[y].bookId, call[y].memberId, call[y].loanId}
  <2>1. D \in SUBSET (Book \cup Member \cup Loan)
    BY <1>4, ReturnFacts DEF BookExists, MemberExists
  <2>2. call' = Touch(D, [call EXCEPT ![y] = IdleCall])
    BY <1>4 DEF CommitReturn
  <2> HIDE DEF D
  <2>3. call[x].pc = "write" /\ call'[x] = [call[x] EXCEPT !.changed = @ \cup D]
    BY <1>0, <2>1, <2>2, TouchedOthers
  <2> QED BY <1>1, <2>3
<1>5. ASSUME NEW D \in SUBSET (Book \cup Member \cup Loan), call' = Touch(D, call)
      PROVE  Goes
  <2>1. \/ call'[x] = call[x] /\ call[x].pc # "write"
        \/ call[x].pc = "write" /\ call'[x] = [call[x] EXCEPT !.changed = @ \cup D]
    BY <1>0, <1>5, Touched
  <2> QED BY <1>1, <2>1
<1>6. ASSUME NEW y \in Call, CallStep(y), y # x
      PROVE  \/ call'[x] = call[x]
             \/ (\E l \in Loan : CommitBorrow(y, l)) \/ CommitReturn(y)
  BY <1>0, <1>6 DEF CallStep, BeginBorrow, BeginReturn, Retry, AbortCall
<1>7. CASE CallStep(x)
  <2>1. ASSUME Retry(x) \/ AbortCall(x) PROVE FALSE
    <3> DEFINE q == [IdleCall EXCEPT !.pc = "retry", !.kind = call[x].kind,
                       !.memberId = call[x].memberId, !.bookId = call[x].bookId,
                       !.loanId = call[x].loanId]
    <3>1. call' = [call EXCEPT ![x] = q] \/ call' = [call EXCEPT ![x] = IdleCall]
      BY <2>1 DEF Retry, AbortCall
    <3>2. q.pc = "retry"
      BY DEF IdleCall
    <3> HIDE DEF q
    <3> QED BY <1>0, <3>1, <3>2, IdleCallType
  <2>2. ASSUME NEW l \in Loan, BeginReturn(x, l) PROVE call'[x].kind = "return"
    <3> DEFINE m == loan[l].memberId
               b == loan[l].bookId
               available == book[b].availableQuantity
               count == member[m].activeLoanCount
               q == [ IdleCall EXCEPT !.pc = "write", !.kind = "return",
                        !.memberId = m, !.bookId = b, !.loanId = l,
                        !.available = available, !.count = count ]
    <3>1. call' = [call EXCEPT ![x] = q] \/ call' = [call EXCEPT ![x] = IdleCall]
      BY <2>2 DEF BeginReturn
    <3> HIDE DEF available, count, m, b
    <3>2. q.kind = "return"
      BY DEF IdleCall
    <3> HIDE DEF q
    <3> QED BY <1>0, <3>1, <3>2, IdleCallType
  <2> QED BY <1>3, <1>4, <1>7, <2>1, <2>2 DEF CallStep
<1>8. ASSUME NEW e \in Editor, EditStep(e)
      PROVE  \/ UNCHANGED call
             \/ \E b \in Book : call' = Touch({b}, call)
             \/ \E m \in Member : call' = Touch({m}, call)
  BY <1>8 DEF EditStep, CreateMember, ReadBook, ReadMember, ReadCategory, ReadType,
      Editing, SaveBook, SaveMember, SaveCategory, SaveType, AbortEdit
<1>9. CASE \E b \in Book : call' = Touch({b}, call)
  BY <1>5, <1>9
<1>10. CASE \E m \in Member : call' = Touch({m}, call)
  BY <1>5, <1>10
<1>11. CASE CreateStep \/ Tick \/ UNCHANGED vars
  BY <1>2, <1>11 DEF CreateStep, CreateCategory, CreateMembershipType, CreateBook, Tick, vars
<1> QED BY <1>2, <1>3, <1>4, <1>6, <1>7, <1>8, <1>9, <1>10, <1>11 DEF Next

LEMMA BelowLimitKept ==
    ASSUME LendingInv, LimitEdits, BelowLimit, [Next]_vars
    PROVE  BelowLimit'
<1> SUFFICES ASSUME NEW x \in Call, call'[x].pc = "write", call'[x].kind = "borrow",
                    call'[x].memberId \notin call'[x].changed
             PROVE  (call[x].count < MaxActiveLoans(call[x].memberId))'
  BY DEF BelowLimit
<1>0. call \in [Call -> CallState]
  BY DEF LendingInv, TypeOK
<1>1. ASSUME NEW m \in Member, NEW b \in Book, BeginBorrow(x, m, b)
      PROVE  (call[x].count < MaxActiveLoans(call[x].memberId))'
  <2>1. CanBorrow(m, b, now)
    <3>1. ~CanBorrow(m, b, now) => call' = [call EXCEPT ![x] = IdleCall]
      BY <1>1 DEF BeginBorrow
    <3> QED BY <1>0, <3>1, IdleCallType
  <2> DEFINE period == category[book[b].categoryId].loanPeriodDays
             available == book[b].availableQuantity
             count == member[m].activeLoanCount
             due == now + period
             q == [ IdleCall EXCEPT !.pc = "write", !.memberId = m, !.bookId = b,
                      !.available = available, !.count = count,
                      !.borrowedAt = now, !.dueAt = due ]
  <2>2. call'[x].memberId = m /\ call'[x].count = member[m].activeLoanCount
    <3>1. call' = [call EXCEPT ![x] = q]
      BY <1>1, <2>1 DEF BeginBorrow
    <3> HIDE DEF available, due
    <3>2. q.memberId = m /\ q.count = count
      BY DEF IdleCall
    <3> HIDE DEF q
    <3> QED BY <1>0, <3>1, <3>2
  <2>3. UNCHANGED <<member, membershipType>>
    BY <1>1 DEF BeginBorrow, docs
  <2> QED BY <2>1, <2>2, <2>3 DEF CanBorrow, MaxActiveLoans
<1>2. CASE /\ call[x].pc = "write" /\ call'[x].kind = call[x].kind
           /\ call'[x].memberId = call[x].memberId
           /\ call'[x].count = call[x].count
           /\ call[x].changed \subseteq call'[x].changed
  <2>1. call[x].count < MaxActiveLoans(call[x].memberId)
    BY <1>2 DEF BelowLimit
  <2>2. PICK m \in Member : m = call[x].memberId /\ member[m].status # "absent"
    BY <1>2 DEF LendingInv, CallInv, Snapshot, MemberExists
  <2>3. MaxActiveLoans(m)' = MaxActiveLoans(m)
    BY <2>2, LimitsStay
  <2> QED BY <1>2, <2>1, <2>2, <2>3 DEF MaxActiveLoans
<1> QED BY <1>1, <1>2, Writing

LEMMA WithinLimitKept ==
    ASSUME CountInv, LimitEdits, BelowLimit, WithinLimit, [Next]_vars
    PROVE  WithinLimit'
<1>0. LendingInv /\ LendingInv' /\ CountEdits /\ CountMatchesLoans
  BY NextLendingInv DEF CountInv
<1> SUFFICES ASSUME NEW m \in Member, member'[m].status # "absent"
             PROVE  Cardinality(MemberLoans(m)') <= MaxActiveLoans(m)'
  BY DEF WithinLimit, MemberLoans, MaxActiveLoans
<1>1. MaxActiveLoans(m)' \in Nat
  <2>1. TypeExists(member[m].membershipTypeId)'
    BY <1>0 DEF LendingInv, ReferenceInv
  <2> QED BY <1>0, <2>1 DEF TypeExists, MaxActiveLoans, LendingInv, TypeOK, TypeDoc
<1>2. CASE member[m].status = "absent"
  <2>1. PICK e \in Editor : SaveMember(e, m)
    BY <1>0, <1>2, MemberStatuses
  <2>2. MemberLoans(m)' = MemberLoans(m)
    BY <2>1, SameLoans DEF SaveMember
  <2>3. Cardinality(MemberLoans(m)) = 0
    BY <1>0, <1>2, AbsentHasNoLoans
  <2> QED BY <1>1, <2>2, <2>3
<1>3. CASE member[m].status # "absent"
  <2>1. /\ MaxActiveLoans(m)' = MaxActiveLoans(m)
        /\ Cardinality(MemberLoans(m)) <= MaxActiveLoans(m)
        /\ Cardinality(MemberLoans(m)) \in Nat
        /\ member[m].activeLoanCount = Cardinality(MemberLoans(m))
    BY <1>0, <1>3, LimitsStay, LoansFinite
       DEF WithinLimit, MemberLoans, MaxActiveLoans, CountMatchesLoans
  <2>2. CASE \E x \in Call, l \in Loan : CommitBorrow(x, l)
    <3>1. PICK x \in Call, l \in Loan : CommitBorrow(x, l)
      BY <2>2
    <3>2. PICK b \in Book : TRUE
      BY <1>0, <3>1, BorrowFacts DEF BookExists
    <3>3. Cardinality(MemberLoans(m)') = Cardinality(MemberLoans(m))
                                         + IF m = call[x].memberId THEN 1 ELSE 0
      BY <1>0, <3>1, <3>2, LoanOpened
    <3>4. CASE m = call[x].memberId
      <4>1. /\ call[x].pc = "write" /\ call[x].kind = "borrow"
            /\ call[x].memberId \notin call[x].changed
        BY <3>1 DEF CommitBorrow, Conflicts
      <4>2. call[x].count = member[m].activeLoanCount
        BY <1>0, <3>4, <4>1 DEF LendingInv, CallInv, Snapshot
      <4>3. call[x].count < MaxActiveLoans(call[x].memberId)
        BY <4>1 DEF BelowLimit
      <4>4. member[m].activeLoanCount < MaxActiveLoans(m)
        BY <3>4, <4>2, <4>3 DEF MaxActiveLoans
      <4> QED BY <1>1, <2>1, <3>3, <3>4, <4>4
    <3>5. CASE m # call[x].memberId
      BY <2>1, <3>3, <3>5
    <3> QED BY <3>4, <3>5
  <2>3. CASE \E x \in Call : CommitReturn(x)
    <3>1. PICK x \in Call : CommitReturn(x)
      BY <2>3
    <3>2. PICK b \in Book : TRUE
      BY <1>0, <3>1, ReturnFacts DEF BookExists
    <3>3. Cardinality(MemberLoans(m)) = Cardinality(MemberLoans(m)')
                                        + IF m = call[x].memberId THEN 1 ELSE 0
      BY <1>0, <3>1, <3>2, LoanClosed
    <3>4. Cardinality(MemberLoans(m)') \in Nat
      <4>1. MemberLoans(m)' \in SUBSET Loan
        BY DEF MemberLoans, OpenLoans
      <4> QED BY <4>1, InputAssumption, FS_Subset, FS_CardinalityType
    <3> QED BY <1>1, <2>1, <3>3, <3>4
  <2>4. CASE UNCHANGED loan
    BY <2>1, <2>4, SameLoans
  <2> QED BY <2>2, <2>3, <2>4, Writers DEF CreateBook, SaveBook, SaveMember
<1> QED BY <1>2, <1>3

\* No member holds more books than the membership type allows, whichever desks
\* lend to the member at the same time (assertCanBorrow compares the counter read
\* in the transaction, and the commit writes the member).
THEOREM LimitsHold == ASSUME CountsKept, LimitsKept PROVE Spec => []WithinLimit
<1>1. Init => LimitEdits /\ BelowLimit /\ WithinLimit
  BY NoneAssumption DEF Init, LimitEdits, BelowLimit, WithinLimit, IdleEdit, IdleCall
<1>2. CountInv /\ CountInv' /\ LimitEdits /\ BelowLimit /\ WithinLimit /\ [Next]_vars
        => LimitEdits' /\ BelowLimit' /\ WithinLimit'
  BY LimitEditsKept, BelowLimitKept, WithinLimitKept DEF CountInv
<1> QED BY <1>1, <1>2, CountInvariant, PTL DEF Spec

=============================================================================
