------------------------ MODULE ReconciliationProofs ------------------------
(***************************************************************************)
(* Theorems about what the reconciliation job works on, IdentifierOper-    *)
(* ations, and about the keys and processes it depends on, KeyRotation.    *)
(*                                                                         *)
(* IdentifierOperations: the inductive invariant says what a request and a *)
(* job may still believe about the operation they work on: the outcome     *)
(* they are about to write is terminal, its event is on record before they *)
(* write it, and the status a job moves an operation from is one it can be *)
(* moved from.  Each action is shown to replace at most one request, one   *)
(* job and one operation document by a legal successor.                    *)
(*                                                                         *)
(* KeyRotation: the inductive invariant ties the processes, the repairs    *)
(* and the operator together: a process that is up signs with a configured *)
(* version, and what a preflight has seen covers what is in use.           *)
(***************************************************************************)
EXTENDS IdentifierOperations, KeyRotation, FiniteSetTheorems, TLAPS

\* A document whose status, event and expiry fit the events on record.
AuditedDoc(o, d, recorded) ==
    /\ d.status \in Terminal => /\ d.terminalEvent = d.status
                                /\ <<o, d.status>> \in recorded
    /\ d.expires => d.status \in Terminal

\* The step a document may take.
LegalStep(b, d) ==
    /\ d.status # b.status =>
          \/ b.status = "absent" /\ d.status \in {"pending", "completed"}
          \/ Allowed(b.status, d.status)
    /\ b.status \in Terminal => /\ d.terminalEvent = b.terminalEvent
                                /\ d.result = b.result

\* What a request knows where it stands.
RequestOK(x, recorded) ==
    /\ x.pc # "idle" => /\ x.op \in Operation
                        /\ x.manifest \in Manifest[x.op]
                        /\ x.at \in 1..Len(x.manifest)
    /\ x.pc = "start" => x.from \in {"pending", "failed-retryable"}
    /\ x.pc = "finalize" => x.from \in {"applying", "compensating"}
    /\ x.pc \in {"finalize", "record", "finish"} => x.outcome \in Terminal
    /\ x.pc = "finish" => <<x.op, x.outcome>> \in recorded

\* What a job knows where it stands.
JobOK(j, recorded) ==
    /\ j.pc # "idle" => j.op \in Operation
    /\ j.pc = "attach" => j.read.status \notin Terminal \cup {"absent"}
    /\ j.pc \in {"recover", "mark"} =>
          j.read.status \in {"applying", "compensating"}
    /\ j.pc = "move" => j.read.status \in {"pending", "failed-retryable",
                                           "applying", "compensating"}
    /\ j.pc \in {"record", "finish"} => j.outcome \in Terminal
    /\ j.pc = "finish" => <<j.op, j.outcome>> \in recorded

\* The reservation of an account the conflict is not about.
OthersOK(i, r) ==
    r.subject = Outsider => /\ r.status = "active"
                            /\ i # Original
                            /\ r.pendingOp = None
                            /\ r.lastOp = None

OperationInv ==
    /\ TypeOK
    /\ \A o \in Operation : AuditedDoc(o, op[o], events)
    /\ \A e \in Executor : RequestOK(executor[e], events)
    /\ \A w \in Worker : JobOK(worker[w], events)
    /\ \A i \in Identifier : OthersOK(i, reservation[i])

-----------------------------------------------------------------------------
(* What a step replaces *)

\* At most one request goes on, to a state it may be in.
RequestStep ==
    \/ executor' = executor
    \/ \E e \in Executor : \E x \in ExecutorState :
          /\ executor' = [executor EXCEPT ![e] = x]
          /\ RequestOK(x, events')

JobStep ==
    \/ worker' = worker
    \/ \E w \in Worker : \E j \in WorkerState :
          /\ worker' = [worker EXCEPT ![w] = j]
          /\ JobOK(j, events')

\* At most one operation document is written, by a legal step.
DocumentStep ==
    \/ op' = op
    \/ \E o \in Operation : \E d \in OperationDoc :
          /\ op' = [op EXCEPT ![o] = d]
          /\ LegalStep(op[o], d)
          /\ AuditedDoc(o, d, events')

\* Reservations change, except those of others; nobody becomes an outsider.
ReservationStep ==
    /\ reservation' \in [Identifier -> Reservation]
    /\ \A i \in Identifier :
          /\ reservation[i].subject = Outsider => reservation'[i] = reservation[i]
          /\ reservation'[i].subject = Outsider => reservation[i].subject = Outsider

EventStep ==
    /\ events' \subseteq Operation \X Terminal
    /\ events \subseteq events'

AccountStep == account' \in [Claimant -> Identifier]

FaultStep == faults' \in 0..MaxFaults

StepOK == /\ RequestStep /\ JobStep /\ DocumentStep /\ ReservationStep
          /\ EventStep /\ AccountStep /\ FaultStep

-----------------------------------------------------------------------------
(* The documents *)

\* Assignments that are written one by one remain a list of assignments.
LEMMA ListKept ==
    ASSUME NEW s \in Seq(Persisted), NEW t, DOMAIN t = DOMAIN s,
           t = [n \in DOMAIN s |-> t[n]],
           \A n \in DOMAIN s : t[n] \in Persisted
    PROVE  t \in Seq(Persisted)
<1>1. DOMAIN s = 1..Len(s) /\ Len(s) \in Nat
  OBVIOUS
<1>2. t \in [1..Len(s) -> Persisted]
  BY <1>1
<1> QED
  BY <1>1, <1>2

\* What is not a status is neither written by nor of interest to legal steps.
LEMMA KeptStep ==
    ASSUME NEW b \in OperationDoc, NEW d \in OperationDoc, NEW o, NEW recorded,
           NEW more, d.status = b.status, d.terminalEvent = b.terminalEvent,
           d.result = b.result, d.expires = b.expires,
           AuditedDoc(o, b, recorded), recorded \subseteq more
    PROVE  LegalStep(b, d) /\ AuditedDoc(o, d, more)
BY DEF LegalStep, AuditedDoc

\* A change of the assignments alone is legal.
LEMMA AssignmentsWritten ==
    ASSUME OperationInv, EventStep, NEW o \in Operation, NEW s \in Seq(Persisted),
           op' = [op EXCEPT ![o].assignments = s]
    PROVE  DocumentStep
<1> DEFINE d == [op[o] EXCEPT !.assignments = s]
<1>1. op[o] \in OperationDoc /\ AuditedDoc(o, op[o], events) /\ events \subseteq events'
  BY DEF OperationInv, TypeOK, EventStep
<1>2. op' = [op EXCEPT ![o] = d]
  OBVIOUS
<1>3. d \in OperationDoc
  BY <1>1 DEF OperationDoc
<1>4. /\ d.status = op[o].status
      /\ d.terminalEvent = op[o].terminalEvent
      /\ d.result = op[o].result
      /\ d.expires = op[o].expires
  BY <1>1 DEF OperationDoc
<1> HIDE DEF d
<1>5. LegalStep(op[o], d) /\ AuditedDoc(o, d, events')
  BY <1>1, <1>3, <1>4, KeptStep
<1> QED
  BY <1>2, <1>3, <1>5 DEF DocumentStep

\* A step that replaces only so much keeps the invariant.
LEMMA StepKept ==
    ASSUME OperationInv, StepOK
    PROVE  OperationInv'
<1> USE DEF OperationInv
<1>1. executor' \in [Executor -> ExecutorState] /\ (\A e \in Executor : RequestOK(executor[e], events)')
  <2>1. \A x : RequestOK(x, events) => RequestOK(x, events')
    BY DEF RequestOK, StepOK, EventStep
  <2>2. CASE executor' = executor
    BY <2>1, <2>2 DEF TypeOK
  <2>3. CASE executor' # executor
    <3>1. PICK e \in Executor, x \in ExecutorState :
             executor' = [executor EXCEPT ![e] = x] /\ RequestOK(x, events')
      BY <2>3 DEF StepOK, RequestStep
    <3>2. executor' \in [Executor -> ExecutorState]
      BY <3>1 DEF TypeOK
    <3>3. ASSUME NEW f \in Executor PROVE RequestOK(executor'[f], events')
      BY <3>1, <2>1 DEF TypeOK
    <3> QED
      BY <3>2, <3>3
  <2> QED
    BY <2>2, <2>3
<1>2. worker' \in [Worker -> WorkerState] /\ (\A w \in Worker : JobOK(worker[w], events)')
  <2>1. \A j : JobOK(j, events) => JobOK(j, events')
    BY DEF JobOK, StepOK, EventStep
  <2>2. CASE worker' = worker
    BY <2>1, <2>2 DEF TypeOK
  <2>3. CASE worker' # worker
    <3>1. PICK w \in Worker, j \in WorkerState :
             worker' = [worker EXCEPT ![w] = j] /\ JobOK(j, events')
      BY <2>3 DEF StepOK, JobStep
    <3>2. worker' \in [Worker -> WorkerState]
      BY <3>1 DEF TypeOK
    <3>3. ASSUME NEW v \in Worker PROVE JobOK(worker'[v], events')
      BY <3>1, <2>1 DEF TypeOK
    <3> QED
      BY <3>2, <3>3
  <2> QED
    BY <2>2, <2>3
<1>3. op' \in [Operation -> OperationDoc] /\ (\A o \in Operation : AuditedDoc(o, op[o], events)')
  <2>1. \A o, d : AuditedDoc(o, d, events) => AuditedDoc(o, d, events')
    BY DEF AuditedDoc, StepOK, EventStep
  <2>2. CASE op' = op
    BY <2>1, <2>2 DEF TypeOK
  <2>3. CASE op' # op
    <3>1. PICK o \in Operation, d \in OperationDoc :
             op' = [op EXCEPT ![o] = d] /\ AuditedDoc(o, d, events')
      BY <2>3 DEF StepOK, DocumentStep
    <3>2. op' \in [Operation -> OperationDoc]
      BY <3>1 DEF TypeOK
    <3>3. ASSUME NEW p \in Operation PROVE AuditedDoc(p, op'[p], events')
      BY <3>1, <2>1 DEF TypeOK
    <3> QED
      BY <3>2, <3>3
  <2> QED
    BY <2>2, <2>3
<1>4. \A i \in Identifier : OthersOK(i, reservation[i])'
  BY DEF StepOK, ReservationStep, OthersOK
<1> QED
  BY <1>1, <1>2, <1>3, <1>4
     DEF TypeOK, StepOK, ReservationStep, EventStep, AccountStep, FaultStep

\* What a step leaves alone.
LEMMA Untouched ==
    ASSUME OperationInv
    PROVE  /\ executor' = executor => RequestStep
           /\ worker' = worker => JobStep
           /\ op' = op => DocumentStep
           /\ reservation' = reservation => ReservationStep
           /\ events' = events => EventStep
           /\ account' = account => AccountStep
           /\ faults' = faults => FaultStep
BY DEF OperationInv, TypeOK, RequestStep, JobStep, DocumentStep,
       ReservationStep, EventStep, AccountStep, FaultStep

\* Facts at one request.
LEMMA RequestFacts ==
    ASSUME OperationInv, NEW e \in Executor
    PROVE  executor[e] \in ExecutorState /\ RequestOK(executor[e], events)
BY DEF OperationInv, TypeOK

\* A mapping that is submitted is not empty and retains only Original.
LEMMA ManifestFacts ==
    ASSUME NEW o \in Operation, NEW m \in Manifest[o]
    PROVE  /\ m \in Seq(Assignment)
           /\ Len(m) \in Nat /\ 1 \in 1..Len(m)
           /\ \A k \in 1..Len(m) :
                 /\ m[k] \in Assignment
                 /\ m[k].action = "retain" => m[k].identifier = Original
<1>1. m \in Seq(Assignment) /\ m # <<>>
  BY ManifestAssumption
<1>2. \A a \in Range(m) : a.action = "retain" => a.identifier = Original
  BY ManifestAssumption
<1>3. \A k \in 1..Len(m) : m[k] \in Range(m)
  BY <1>1 DEF Range
<1> QED
  BY <1>1, <1>2, <1>3

LEMMA IdleRequest ==
    ASSUME NEW recorded
    PROVE  IdleExecutor \in ExecutorState /\ RequestOK(IdleExecutor, recorded)
<1>1. IdleExecutor \in ExecutorState
  BY DEF IdleExecutor, ExecutorState, OperationStatus
<1>2. IdleExecutor.pc = "idle"
  BY DEF IdleExecutor
<1> QED
  BY <1>1, <1>2 DEF RequestOK

\* The catch block starts over with the operation and the mapping.
LEMMA FailingRequest ==
    ASSUME NEW recorded, NEW x \in ExecutorState, RequestOK(x, recorded),
           x.pc # "idle"
    PROVE  Failing(x) \in ExecutorState /\ RequestOK(Failing(x), recorded)
<1>1. x.op \in Operation /\ x.manifest \in Manifest[x.op]
  BY DEF RequestOK
<1>2. x.manifest \in Seq(Assignment) /\ 1 \in 1..Len(x.manifest)
  BY <1>1, ManifestFacts
<1>3. Failing(x) \in ExecutorState
  BY <1>1, <1>2, IdleRequest DEF Failing, ExecutorState
<1>4. /\ Failing(x).pc = "catch"
      /\ Failing(x).op = x.op
      /\ Failing(x).manifest = x.manifest
      /\ Failing(x).at = 1
  BY DEF Failing, IdleExecutor
<1> QED
  BY <1>1, <1>2, <1>3, <1>4 DEF RequestOK

\* The compensation goes on or ends the attempt as failed.
LEMMA UndoingRequest ==
    ASSUME NEW recorded, NEW x \in ExecutorState, RequestOK(x, recorded),
           x.pc # "idle", NEW s \in Seq(Persisted), NEW left \in SUBSET Nat
    PROVE  /\ Undoing(x, s, left) \in ExecutorState
           /\ RequestOK(Undoing(x, s, left), recorded)
<1> DEFINE q == Undoing(x, s, left)
<1>1. CASE left = {}
  <2>1. q = [x EXCEPT !.pc = "finalize", !.from = "compensating", !.seen = <<>>,
                      !.undo = {}, !.outcome = "failed-terminal"]
    BY <1>1 DEF Undoing
  <2>2. q \in ExecutorState
    <3>1. <<>> \in Seq(Persisted) /\ {} \in SUBSET Nat
      OBVIOUS
    <3>2. "compensating" \in OperationStatus /\ "failed-terminal" \in Terminal
      BY DEF OperationStatus, Terminal
    <3> QED
      BY <2>1, <3>1, <3>2 DEF ExecutorState
  <2>3. /\ q.pc = "finalize" /\ q.from = "compensating"
        /\ q.outcome = "failed-terminal" /\ q.op = x.op
        /\ q.manifest = x.manifest /\ q.at = x.at
    BY <2>1 DEF ExecutorState
  <2> QED
    BY <2>2, <2>3 DEF RequestOK, Terminal
<1>2. CASE left # {}
  <2>1. q = [x EXCEPT !.pc = "compensate", !.seen = s, !.undo = left]
    BY <1>2 DEF Undoing
  <2>2. q \in ExecutorState
    BY <2>1 DEF ExecutorState
  <2>3. /\ q.pc = "compensate" /\ q.op = x.op
        /\ q.manifest = x.manifest /\ q.at = x.at
    BY <2>1 DEF ExecutorState
  <2> QED
    BY <2>2, <2>3 DEF RequestOK
<1> QED
  BY <1>1, <1>2

\* The synchronization goes on or leads to the compensation.
LEMMA SynchronizingRequest ==
    ASSUME NEW recorded, NEW x \in ExecutorState, RequestOK(x, recorded),
           x.pc # "idle", NEW s \in Seq(Persisted), NEW left \in SUBSET Nat
    PROVE  /\ Synchronizing(x, s, left) \in ExecutorState
           /\ RequestOK(Synchronizing(x, s, left), recorded)
<1> DEFINE q == Synchronizing(x, s, left)
<1>1. \/ q = [x EXCEPT !.pc = "undo", !.seen = <<>>, !.undo = {}]
      \/ q = [x EXCEPT !.pc = "sync", !.seen = s, !.undo = left]
  BY DEF Synchronizing
<1>2. <<>> \in Seq(Persisted) /\ {} \in SUBSET Nat
  OBVIOUS
<1>3. q \in ExecutorState
  <2>1. [x EXCEPT !.pc = "undo", !.seen = <<>>, !.undo = {}] \in ExecutorState
    BY <1>2 DEF ExecutorState
  <2>2. [x EXCEPT !.pc = "sync", !.seen = s, !.undo = left] \in ExecutorState
    BY DEF ExecutorState
  <2> HIDE DEF q
  <2> QED
    BY <1>1, <2>1, <2>2
<1>4. /\ q.pc \in {"undo", "sync"} /\ q.op = x.op
      /\ q.manifest = x.manifest /\ q.at = x.at
  BY <1>1 DEF ExecutorState
<1> HIDE DEF q
<1>5. RequestOK(q, recorded)
  BY <1>4 DEF RequestOK
<1> QED
  BY <1>3, <1>5 DEF q

\* Moving on to a place where nothing more must be known.
LEMMA PlainMove ==
    ASSUME OperationInv, EventStep, NEW e \in Executor,
           NEW pc \in {"execute", "saga", "reserve", "attach", "apply",
                       "release", "mark", "settle", "catch", "sync",
                       "undo", "compensate", "reopen", "restore", "unmark"},
           executor[e].pc # "idle"
    PROVE  LET q == [executor[e] EXCEPT !.pc = pc] IN
           q \in ExecutorState /\ RequestOK(q, events')
<1> DEFINE x == executor[e]
           q == [x EXCEPT !.pc = pc]
<1>1. x \in ExecutorState /\ RequestOK(x, events)
  BY RequestFacts
<1>2. q \in ExecutorState
  BY <1>1 DEF ExecutorState
<1>3. q.pc = pc /\ q.op = x.op /\ q.manifest = x.manifest /\ q.at = x.at
  BY <1>1 DEF ExecutorState
<1>4. x.pc # "idle"
  OBVIOUS
<1> HIDE DEF q, x
<1> QED
  BY <1>1, <1>2, <1>3, <1>4 DEF RequestOK, q, x

-----------------------------------------------------------------------------
(* Submitting a resolution *)

LEMMA ResolveConflictStep ==
    ASSUME OperationInv, NEW e \in Executor, NEW o \in Operation,
           NEW m \in Manifest[o], ResolveConflict(e, o, m)
    PROVE  StepOK
<1> DEFINE q == [IdleExecutor EXCEPT !.pc = "execute", !.op = o, !.manifest = m]
<1>1. executor' = [executor EXCEPT ![e] = q] /\ events' = events
  BY DEF ResolveConflict
<1>2. m \in Seq(Assignment) /\ 1 \in 1..Len(m)
  BY ManifestFacts
<1>3. q \in ExecutorState
  BY <1>2, IdleRequest DEF ExecutorState
<1>4. q.pc = "execute" /\ q.op = o /\ q.manifest = m /\ q.at = 1
  BY DEF IdleExecutor
<1> HIDE DEF q
<1>5. RequestOK(q, events')
  BY <1>2, <1>4 DEF RequestOK
<1>6. RequestStep
  BY <1>1, <1>3, <1>5 DEF RequestStep
<1> QED
  BY <1>6, Untouched DEF ResolveConflict, StepOK

LEMMA ExecuteStep ==
    ASSUME OperationInv, NEW e \in Executor, Execute(e)
    PROVE  StepOK
<1> DEFINE x == executor[e]
           q == [x EXCEPT !.pc = "saga"]
<1>1. EventStep /\ executor[e].pc # "idle"
  BY Untouched DEF Execute
<1>2. q \in ExecutorState /\ RequestOK(q, events')
  BY <1>1, PlainMove
<1>3. \/ executor' = [executor EXCEPT ![e] = q]
      \/ executor' = [executor EXCEPT ![e] = IdleExecutor]
  BY DEF Execute
<1> HIDE DEF q
<1>4. RequestStep
  BY <1>2, <1>3, IdleRequest DEF RequestStep
<1> QED
  BY <1>4, Untouched DEF Execute, StepOK

\* The list of assignments of a new operation, whatever has become of them.
LEMMA NewAssignments ==
    ASSUME NEW o \in Operation, NEW m \in Manifest[o],
           NEW status \in {"pending", "applied", "compensated"}
    PROVE  /\ [k \in 1..Len(m) |->
                 [ action |-> m[k].action, subject |-> m[k].subject,
                   status |-> status, target |-> None ]] \in Seq(Persisted)
           /\ [k \in 1..Len(m) |->
                 [ action |-> m[k].action, subject |-> m[k].subject,
                   status |-> status, target |-> m[k].identifier ]]
                 \in Seq(Persisted)
<1>1. Len(m) \in Nat /\ \A k \in 1..Len(m) : m[k] \in Assignment
  BY ManifestFacts
<1> DEFINE fresh(k) == [ action |-> m[k].action, subject |-> m[k].subject,
                         status |-> status, target |-> None ]
           done(k) == [ action |-> m[k].action, subject |-> m[k].subject,
                        status |-> status, target |-> m[k].identifier ]
<1>2. \A k \in 1..Len(m) : fresh(k) \in Persisted /\ done(k) \in Persisted
  BY <1>1 DEF Assignment, Persisted
<1> HIDE DEF fresh, done
<1>3. /\ [k \in 1..Len(m) |-> fresh(k)] \in Seq(Persisted)
      /\ [k \in 1..Len(m) |-> done(k)] \in Seq(Persisted)
  BY <1>1, <1>2
<1> QED
  BY <1>3 DEF fresh, done

LEMMA CreatedDoc ==
    ASSUME NEW o \in Operation, NEW m \in Manifest[o]
    PROVE  /\ Created(m) \in OperationDoc
           /\ Created(m).status = "pending"
           /\ Created(m).expires = FALSE
<1> DEFINE s == [k \in 1..Len(m) |->
                   [ action |-> m[k].action, subject |-> m[k].subject,
                     status |-> "pending", target |-> None ]]
<1>1. s \in Seq(Persisted)
  BY NewAssignments
<1>2. NoOperation \in OperationDoc
  BY DEF NoOperation, OperationDoc, OperationStatus
<1>3. Created(m) = [NoOperation EXCEPT !.status = "pending", !.assignments = s]
  BY DEF Created
<1> HIDE DEF s
<1>4. Created(m) \in OperationDoc
  BY <1>1, <1>2, <1>3 DEF OperationDoc, OperationStatus
<1>5. Created(m).status = "pending" /\ Created(m).expires = FALSE
  BY <1>3 DEF NoOperation
<1> QED
  BY <1>4, <1>5

\* What can be reserved belongs to nobody else.
LEMMA ReservableNotOthers ==
    ASSUME OperationInv, NEW o \in Operation, NEW a \in Assignment,
           a.action = "retain" => a.identifier = Original, Reservable(o, a)
    PROVE  reservation[a.identifier].subject # Outsider
<1> DEFINE r == reservation[a.identifier]
<1>1. a.identifier \in Identifier /\ a.subject \in Claimant
  BY DEF Assignment
<1>2. OthersOK(a.identifier, r)
  BY <1>1 DEF OperationInv
<1>3. CASE a.action = "retain"
  BY <1>2, <1>3 DEF OthersOK
<1>4. CASE a.action # "retain"
  BY <1>1, <1>2, <1>4, NoneAssumption, ManifestAssumption DEF OthersOK, Reservable
<1> QED
  BY <1>3, <1>4

\* A reservation that is released goes to a claimant and has no claims left.
LEMMA FreedReservation ==
    ASSUME NEW r \in Reservation, NEW s \in Claimant
    PROVE  LET freed == [r EXCEPT !.status = "released", !.subject = s,
                                  !.claimants = {}, !.reviewable = FALSE]
           IN  freed \in Reservation /\ freed.subject = s
<1> DEFINE named == [r EXCEPT !.status = "released", !.subject = s]
           freed == [named EXCEPT !.claimants = {}, !.reviewable = FALSE]
<1>1. named \in Reservation /\ named.subject = s
  BY DEF Reservation, ReservationStatus
<1> HIDE DEF named
<1>2. freed \in Reservation /\ freed.subject = s
  BY <1>1 DEF Reservation
<1> QED
  BY <1>2 DEF named

LEMMA ExecuteInTransactionStep ==
    ASSUME OperationInv, NEW e \in Executor, ExecuteInTransaction(e)
    PROVE  StepOK
<1> DEFINE x == executor[e]
           o == x.op
           m == x.manifest
           Taker(i) == {k \in 1..Len(m) : m[k].identifier = i}
<1>1. x \in ExecutorState /\ o \in Operation /\ m \in Manifest[o]
  BY RequestFacts, Zenon DEF RequestOK, ExecuteInTransaction
<1>2. \A k \in 1..Len(m) :
         /\ m[k] \in Assignment
         /\ m[k].action = "retain" => m[k].identifier = Original
  BY <1>1, ManifestFacts
<1>3. Len(m) \in Nat /\ Len(m) \in 1..Len(m)
  BY <1>1, ManifestFacts
<1>4. events' = events \cup {<<o, "completed">>}
  BY Zenon DEF ExecuteInTransaction
<1>5. EventStep
  BY <1>1, <1>4 DEF EventStep, OperationInv, TypeOK, Terminal
<1>6. AccountStep
  <2> DEFINE P(s, k) == m[k].subject = s /\ m[k].action = "replace"
             Took(s) == m[CHOOSE k \in 1..Len(m) : P(s, k)].identifier
  <2>1. account' = [s \in Claimant |->
                      IF \E k \in 1..Len(m) : P(s, k) THEN Took(s) ELSE account[s]]
    BY Zenon DEF ExecuteInTransaction
  <2>2. ASSUME NEW s \in Claimant, \E k \in 1..Len(m) : P(s, k)
        PROVE  Took(s) \in Identifier
    BY <1>2, <2>2, Zenon DEF Assignment
  <2>3. account \in [Claimant -> Identifier]
    BY DEF OperationInv, TypeOK
  <2> HIDE DEF Took, P
  <2> QED
    BY <2>1, <2>2, <2>3 DEF AccountStep
<1>7. ReservationStep
  <2> DEFINE taken(i) == [reservation[i] EXCEPT !.status = "active", !.lastOp = o,
                             !.subject = m[CHOOSE k \in Taker(i) : TRUE].subject]
             freed(i) == [reservation[i] EXCEPT !.status = "released",
                             !.subject = m[Len(m)].subject, !.claimants = {},
                             !.reviewable = FALSE]
  <2>1. reservation' = [i \in Identifier |->
           CASE Taker(i) # {} -> taken(i)
             [] i = Original /\ Taker(i) = {} -> freed(i)
             [] OTHER -> reservation[i]]
    BY Zenon DEF ExecuteInTransaction
  <2>2. reservation \in [Identifier -> Reservation]
    BY DEF OperationInv, TypeOK
  <2>3. ASSUME NEW i \in Identifier, Taker(i) # {}
        PROVE  /\ taken(i) \in Reservation
               /\ taken(i).subject # Outsider
               /\ reservation[i].subject # Outsider
    <3> DEFINE s == m[CHOOSE k \in Taker(i) : TRUE].subject
    <3>1. s \in Claimant
      BY <1>2, <2>3 DEF Assignment
    <3>2. PICK k \in 1..Len(m) : m[k].identifier = i
      BY <2>3
    <3>3. Reservable(o, m[k])
      BY Zenon DEF ExecuteInTransaction
    <3>4. reservation[i].subject # Outsider
      BY <1>1, <1>2, <3>2, <3>3, ReservableNotOthers
    <3>5. taken(i) = [reservation[i] EXCEPT !.status = "active", !.lastOp = o,
                                            !.subject = s]
      OBVIOUS
    <3> HIDE DEF s, taken
    <3>6. taken(i) \in Reservation
      <4>1. reservation[i] \in Reservation
        BY <2>2
      <4>2. [reservation[i] EXCEPT !.status = "active"] \in Reservation
        BY <4>1 DEF Reservation, ReservationStatus
      <4>3. [reservation[i] EXCEPT !.status = "active", !.lastOp = o]
               \in Reservation
        BY <1>1, <4>1, <4>2 DEF Reservation
      <4> QED
        BY <3>1, <3>5, <4>3 DEF Reservation
    <3>7. taken(i).subject = s
      BY <2>2, <3>5 DEF Reservation
    <3> QED
      BY <3>1, <3>4, <3>6, <3>7, ManifestAssumption
  <2>4. /\ freed(Original) \in Reservation
        /\ freed(Original).subject # Outsider
        /\ reservation[Original].subject # Outsider
    <3> DEFINE s == m[Len(m)].subject
    <3>1. s \in Claimant
      BY <1>2, <1>3 DEF Assignment
    <3>2. reservation[Original].subject # Outsider
      BY ManifestAssumption DEF OperationInv, OthersOK
    <3>3. reservation[Original] \in Reservation
      BY <2>2, ManifestAssumption
    <3>4. freed(Original) \in Reservation /\ freed(Original).subject = s
      BY <3>1, <3>3, FreedReservation
    <3> QED
      BY <3>1, <3>2, <3>4, ManifestAssumption
  <2>5. ASSUME NEW i \in Identifier
        PROVE  /\ reservation'[i] \in Reservation
               /\ \/ reservation'[i] = reservation[i]
                  \/ /\ reservation'[i].subject # Outsider
                     /\ reservation[i].subject # Outsider
    <3> HIDE DEF Taker, taken, freed
    <3>1. CASE Taker(i) # {}
      BY <2>1, <2>3, <3>1
    <3>2. CASE Taker(i) = {} /\ i = Original
      BY <2>1, <2>4, <3>2
    <3>3. CASE Taker(i) = {} /\ i # Original
      BY <2>1, <2>2, <3>3
    <3> QED
      BY <3>1, <3>2, <3>3
  <2>6. reservation' = [i \in Identifier |-> reservation'[i]]
    BY <2>1, Zenon
  <2> HIDE DEF Taker, taken, freed
  <2> QED
    BY <2>5, <2>6 DEF ReservationStep
<1>8. DocumentStep
  <2> DEFINE s == [k \in 1..Len(m) |->
                     [ action |-> m[k].action, subject |-> m[k].subject,
                       status |-> "applied", target |-> m[k].identifier ]]
             d == [Created(m) EXCEPT !.status = "completed", !.result = "success",
                      !.assignments = s, !.terminalEvent = "completed",
                      !.expires = TRUE]
  <2>1. op' = [op EXCEPT ![o] = d] /\ op[o].status = "absent"
    BY Zenon DEF ExecuteInTransaction
  <2>2. s \in Seq(Persisted)
    BY <1>1, NewAssignments
  <2>3. Created(m) \in OperationDoc
    BY <1>1, CreatedDoc
  <2> HIDE DEF s
  <2>4. /\ d \in OperationDoc /\ d.status = "completed"
        /\ d.terminalEvent = "completed"
    BY <2>2, <2>3, Zenon DEF OperationDoc, OperationStatus, Terminal
  <2> HIDE DEF d
  <2>5. LegalStep(op[o], d) /\ AuditedDoc(o, d, events')
    BY <1>4, <2>1, <2>4 DEF LegalStep, AuditedDoc, Terminal
  <2> QED
    BY <1>1, <2>1, <2>4, <2>5, Zenon DEF DocumentStep
<1>9. RequestStep
  BY IdleRequest, Zenon DEF ExecuteInTransaction, RequestStep
<1>10. worker' = worker /\ faults' = faults
  BY Zenon DEF ExecuteInTransaction
<1>11. JobStep /\ FaultStep
  BY <1>10, Untouched
<1> QED
  BY <1>5, <1>6, <1>7, <1>8, <1>9, <1>11, Zenon DEF StepOK

LEMMA ExecuteSagaStep ==
    ASSUME OperationInv, NEW e \in Executor, ExecuteSaga(e)
    PROVE  StepOK
<1> DEFINE x == executor[e]
           o == x.op
           d == IF op[o].status = "absent" THEN Created(x.manifest) ELSE op[o]
           replay == [x EXCEPT !.pc = "record",
                         !.outcome = IF d.result = "failure"
                                     THEN "failed-terminal" ELSE "completed"]
           again == Undoing(x, d.assignments, AppliedOf(d.assignments))
           going == [x EXCEPT !.pc = "reserve"]
           fresh == [x EXCEPT !.pc = "start", !.from = d.status]
<1>1. /\ x \in ExecutorState /\ RequestOK(x, events)
      /\ x.pc = "saga" /\ o \in Operation /\ x.manifest \in Manifest[o]
  BY RequestFacts DEF RequestOK, ExecuteSaga
<1>2. events' = events /\ EventStep
  BY Untouched DEF ExecuteSaga
<1>3. op[o] \in OperationDoc /\ AuditedDoc(o, op[o], events)
  BY <1>1 DEF OperationInv, TypeOK
<1>4. /\ d \in OperationDoc /\ d.status # "absent"
      /\ op[o].status # "absent" => d = op[o]
      /\ op[o].status = "absent" => d.status = "pending" /\ ~d.expires
  BY <1>1, <1>3, CreatedDoc
<1>5. op' = [op EXCEPT ![o] = d]
  BY DEF ExecuteSaga
<1>6. executor' = [executor EXCEPT ![e] =
          CASE d.status \in Terminal -> IdleExecutor
            [] d.status = "finalizing" -> replay
            [] d.status = "compensating" -> again
            [] d.status = "applying" -> going
            [] OTHER -> fresh]
  BY DEF ExecuteSaga
<1> HIDE DEF d, x
<1>7. LegalStep(op[o], d) /\ AuditedDoc(o, d, events')
  BY <1>2, <1>3, <1>4 DEF LegalStep, AuditedDoc, Terminal
<1>8. replay \in ExecutorState /\ RequestOK(replay, events')
  <2>1. replay \in ExecutorState
    BY <1>1 DEF ExecutorState, Terminal
  <2>2. /\ replay.pc = "record" /\ replay.op = o /\ replay.at = x.at
        /\ replay.manifest = x.manifest /\ replay.outcome \in Terminal
    BY <1>1 DEF ExecutorState, Terminal
  <2> HIDE DEF replay
  <2> QED
    BY <1>1, <2>1, <2>2 DEF RequestOK
<1>9. again \in ExecutorState /\ RequestOK(again, events')
  <2>1. d.assignments \in Seq(Persisted)
    BY <1>4 DEF OperationDoc
  <2>2. AppliedOf(d.assignments) \in SUBSET Nat
    BY <2>1 DEF AppliedOf
  <2>3. x.pc # "idle"
    BY <1>1
  <2> QED
    BY <1>1, <1>2, <2>1, <2>2, <2>3, UndoingRequest
<1>10. going \in ExecutorState /\ RequestOK(going, events')
  BY <1>1, <1>2, PlainMove DEF x
<1>11. ASSUME d.status \in {"pending", "failed-retryable"}
       PROVE  fresh \in ExecutorState /\ RequestOK(fresh, events')
  <2>1. fresh \in ExecutorState
    BY <1>1, <1>11 DEF ExecutorState, OperationStatus
  <2>2. /\ fresh.pc = "start" /\ fresh.op = o /\ fresh.at = x.at
        /\ fresh.manifest = x.manifest /\ fresh.from = d.status
    BY <1>1 DEF ExecutorState
  <2> HIDE DEF fresh
  <2> QED
    BY <1>1, <1>11, <2>1, <2>2 DEF RequestOK
<1> HIDE DEF replay, again, going, fresh
<1>12. PICK q \in ExecutorState :
          executor' = [executor EXCEPT ![e] = q] /\ RequestOK(q, events')
  <2>1. CASE d.status \in Terminal
    <3>1. IdleExecutor \in ExecutorState /\ RequestOK(IdleExecutor, events')
      BY IdleRequest
    <3> QED
      BY <1>6, <2>1, <3>1 DEF Terminal
  <2>2. CASE d.status = "finalizing"
    BY <1>6, <1>8, <2>2 DEF Terminal
  <2>3. CASE d.status = "compensating"
    BY <1>6, <1>9, <2>3 DEF Terminal
  <2>4. CASE d.status = "applying"
    BY <1>6, <1>10, <2>4 DEF Terminal
  <2>5. CASE d.status \in {"pending", "failed-retryable"}
    BY <1>6, <1>11, <2>5 DEF Terminal
  <2> QED
    BY <1>4, <2>1, <2>2, <2>3, <2>4, <2>5 DEF OperationDoc, OperationStatus
<1>13. RequestStep /\ DocumentStep
  BY <1>1, <1>4, <1>5, <1>7, <1>12 DEF RequestStep, DocumentStep
<1> QED
  BY <1>2, <1>13, Untouched DEF ExecuteSaga, StepOK

-----------------------------------------------------------------------------
(* What the handlers write *)

LEMMA ReservationWritten ==
    ASSUME OperationInv, NEW i \in Identifier, NEW r \in Reservation,
           reservation' = [reservation EXCEPT ![i] = r],
           \/ r = reservation[i]
           \/ reservation[i].subject # Outsider /\ r.subject # Outsider
    PROVE  ReservationStep
<1>1. reservation \in [Identifier -> Reservation]
  BY DEF OperationInv, TypeOK
<1>2. reservation' \in [Identifier -> Reservation]
  BY <1>1
<1>3. ASSUME NEW k \in Identifier
      PROVE  \/ reservation'[k] = reservation[k]
             \/ reservation[k].subject # Outsider /\ reservation'[k].subject # Outsider
  BY <1>1
<1> QED
  BY <1>2, <1>3 DEF ReservationStep

\* A move between statuses that are not terminal.
LEMMA StatusWritten ==
    ASSUME OperationInv, EventStep, NEW o \in Operation,
           NEW status \in OperationStatus \ Terminal,
           Allowed(op[o].status, status), op[o].status \notin Terminal,
           op' = [op EXCEPT ![o].status = status]
    PROVE  DocumentStep
<1> DEFINE d == [op[o] EXCEPT !.status = status]
<1>1. op[o] \in OperationDoc /\ AuditedDoc(o, op[o], events)
  BY DEF OperationInv, TypeOK
<1>2. op' = [op EXCEPT ![o] = d]
  OBVIOUS
<1>3. d \in OperationDoc /\ d.status = status /\ d.expires = op[o].expires
  BY <1>1 DEF OperationDoc
<1> HIDE DEF d
<1>4. LegalStep(op[o], d) /\ AuditedDoc(o, d, events')
  BY <1>1, <1>3 DEF LegalStep, AuditedDoc
<1> QED
  BY <1>2, <1>3, <1>4 DEF DocumentStep

\* The lists that WithTarget and WithStatus leave.
Aimed(s, a, target) ==
    [n \in DOMAIN s |-> IF SameId(s[n], a)
                        THEN [s[n] EXCEPT !.target = target] ELSE s[n]]

Marked(s, a, status) ==
    [n \in DOMAIN s |-> IF SameId(s[n], a)
                        THEN [s[n] EXCEPT !.status = status] ELSE s[n]]

\* The updates of one assignment keep the list.
LEMMA AssignmentUpdates ==
    ASSUME NEW s \in Seq(Persisted), NEW a,
           NEW status \in {"pending", "applied", "compensated"},
           NEW target \in Identifier \cup {None}
    PROVE  /\ Aimed(s, a, target) \in Seq(Persisted)
           /\ Marked(s, a, status) \in Seq(Persisted)
<1> DEFINE aimed(n) == IF SameId(s[n], a)
                       THEN [s[n] EXCEPT !.target = target] ELSE s[n]
           marked(n) == IF SameId(s[n], a)
                        THEN [s[n] EXCEPT !.status = status] ELSE s[n]
<1>1. DOMAIN s = 1..Len(s) /\ Len(s) \in Nat
  OBVIOUS
<1>2. ASSUME NEW n \in DOMAIN s
      PROVE  aimed(n) \in Persisted /\ marked(n) \in Persisted
  <2>1. s[n] \in Persisted
    OBVIOUS
  <2>2. /\ [s[n] EXCEPT !.target = target] \in Persisted
        /\ [s[n] EXCEPT !.status = status] \in Persisted
    BY <2>1 DEF Persisted
  <2> QED
    BY <2>1, <2>2
<1> HIDE DEF aimed, marked
<1>3. /\ [n \in DOMAIN s |-> aimed(n)] \in Seq(Persisted)
      /\ [n \in DOMAIN s |-> marked(n)] \in Seq(Persisted)
  BY <1>1, <1>2
<1> QED
  BY <1>3 DEF aimed, marked, Aimed, Marked

\* The operation a request or a job works on gets one assignment updated.
LEMMA UpdatedAssignments ==
    ASSUME OperationInv, EventStep, NEW o \in Operation, NEW a,
           NEW status \in {"pending", "applied", "compensated"},
           NEW target \in Identifier \cup {None},
           \/ op' = [op EXCEPT ![o] = WithTarget(@, a, target)]
           \/ op' = [op EXCEPT ![o] = WithStatus(@, a, status)]
    PROVE  DocumentStep
<1> DEFINE s == op[o].assignments
           aimed == Aimed(s, a, target)
           marked == Marked(s, a, status)
<1>1. s \in Seq(Persisted)
  BY DEF OperationInv, TypeOK, OperationDoc
<1>2. aimed \in Seq(Persisted) /\ marked \in Seq(Persisted)
  <2> HIDE DEF s
  <2> QED
    BY <1>1, AssignmentUpdates
<1>3. \/ op' = [op EXCEPT ![o].assignments = aimed]
      \/ op' = [op EXCEPT ![o].assignments = marked]
  <2>1. /\ WithTarget(op[o], a, target) = [op[o] EXCEPT !.assignments = aimed]
        /\ WithStatus(op[o], a, status) = [op[o] EXCEPT !.assignments = marked]
    BY DEF WithTarget, WithStatus, Aimed, Marked
  <2> HIDE DEF aimed, marked
  <2> QED
    BY <2>1
<1> HIDE DEF aimed, marked, s
<1>4. CASE op' = [op EXCEPT ![o].assignments = aimed]
  BY <1>2, <1>4, AssignmentsWritten
<1>5. CASE op' = [op EXCEPT ![o].assignments = marked]
  BY <1>2, <1>5, AssignmentsWritten
<1> QED
  BY <1>3, <1>4, <1>5

-----------------------------------------------------------------------------
(* Applying *)

LEMMA StartStep ==
    ASSUME OperationInv, NEW e \in Executor, Start(e)
    PROVE  StepOK
<1> DEFINE x == executor[e]
           o == x.op
           q == [x EXCEPT !.pc = "reserve", !.from = "absent"]
<1>1. /\ x \in ExecutorState /\ RequestOK(x, events) /\ x.pc = "start"
      /\ o \in Operation /\ x.from \in {"pending", "failed-retryable"}
  BY RequestFacts DEF RequestOK, Start
<1>2. events' = events /\ EventStep
  BY Untouched DEF Start
<1>3. q \in ExecutorState /\ RequestOK(q, events')
  <2>1. q \in ExecutorState
    BY <1>1 DEF ExecutorState, OperationStatus
  <2>2. /\ q.pc = "reserve" /\ q.op = o
        /\ q.manifest = x.manifest /\ q.at = x.at
    BY <1>1 DEF ExecutorState
  <2> HIDE DEF q
  <2> QED
    BY <1>1, <2>1, <2>2 DEF RequestOK
<1>4. \/ executor' = [executor EXCEPT ![e] = q]
      \/ executor' = [executor EXCEPT ![e] = IdleExecutor]
  BY DEF Start
<1>5. RequestStep
  <2> HIDE DEF q
  <2> QED
    BY <1>3, <1>4, IdleRequest DEF RequestStep
<1>6. CASE op[o].status = x.from
  <2>1. op' = [op EXCEPT ![o].status = "applying"]
    BY <1>6 DEF Start
  <2>2. Allowed(op[o].status, "applying") /\ op[o].status \notin Terminal
    BY <1>1, <1>6 DEF Allowed, Terminal
  <2>3. DocumentStep
    BY <1>1, <1>2, <2>1, <2>2, StatusWritten DEF OperationStatus, Terminal
  <2> QED
    BY <1>5, <2>3, Untouched DEF Start, StepOK
<1>7. CASE op[o].status # x.from
  BY <1>5, <1>7, Untouched DEF Start, StepOK
<1> QED
  BY <1>6, <1>7

LEMMA ReserveAssignmentStep ==
    ASSUME OperationInv, NEW e \in Executor, ReserveAssignment(e)
    PROVE  StepOK
<1> DEFINE x == executor[e]
           o == x.op
           a == x.manifest[x.at]
           read == \E p \in PersistedOf(op[o], a) : p.status = "applied"
           In(i) == [x EXCEPT !.pc = "attach", !.found = i, !.applied = read]
<1>1. /\ x \in ExecutorState /\ RequestOK(x, events) /\ x.pc = "reserve"
      /\ o \in Operation /\ x.manifest \in Manifest[o]
      /\ x.at \in 1..Len(x.manifest)
  BY RequestFacts, Zenon DEF RequestOK, ReserveAssignment
<1>2. a \in Assignment /\ (a.action = "retain" => a.identifier = Original)
  BY <1>1, ManifestFacts
<1>3. events' = events /\ EventStep
  BY Untouched, Zenon DEF ReserveAssignment
<1>4. ASSUME NEW i \in Identifier PROVE In(i) \in ExecutorState /\ RequestOK(In(i), events')
  <2>1. read \in BOOLEAN
    OBVIOUS
  <2> HIDE DEF read
  <2>2. In(i) \in ExecutorState
    BY <1>1, <2>1 DEF ExecutorState
  <2>3. /\ In(i).pc = "attach" /\ In(i).op = o
        /\ In(i).manifest = x.manifest /\ In(i).at = x.at
    BY <1>1 DEF ExecutorState
  <2> HIDE DEF In
  <2> QED
    BY <1>1, <2>2, <2>3 DEF RequestOK
<1>5. \A i \in Recoverable(o, a) : i \in Identifier
  <2>1. op[o].assignments \in Seq(Persisted)
    BY <1>1 DEF OperationInv, TypeOK, OperationDoc
  <2>2. \A p \in PersistedOf(op[o], a) : p \in Persisted
    BY <2>1 DEF PersistedOf, Range
  <2> QED
    BY <2>2 DEF Recoverable, Persisted
<1>6. \/ \E i \in Recoverable(o, a) : /\ executor' = [executor EXCEPT ![e] = In(i)]
                                      /\ UNCHANGED reservation
      \/ /\ Reservable(o, a)
         /\ reservation' = [reservation EXCEPT ![a.identifier] = Reserved(@, o, a)]
         /\ executor' = [executor EXCEPT ![e] = In(a.identifier)]
      \/ /\ executor' = [executor EXCEPT ![e] = Failing(x)]
         /\ UNCHANGED reservation
  BY Zenon DEF ReserveAssignment
<1>7. UNCHANGED <<account, op, events, worker, faults>>
  BY Zenon DEF ReserveAssignment
<1> HIDE DEF In
<1>8. CASE \E i \in Recoverable(o, a) : /\ executor' = [executor EXCEPT ![e] = In(i)]
                                        /\ UNCHANGED reservation
  <2>1. RequestStep
    BY <1>4, <1>5, <1>8 DEF RequestStep
  <2> QED
    BY <1>7, <1>8, <2>1, Untouched DEF StepOK
<1>9. CASE /\ Reservable(o, a)
           /\ reservation' = [reservation EXCEPT ![a.identifier] = Reserved(@, o, a)]
           /\ executor' = [executor EXCEPT ![e] = In(a.identifier)]
  <2> DEFINE r == Reserved(reservation[a.identifier], o, a)
  <2>1. a.identifier \in Identifier /\ a.subject \in Claimant /\ a.action \in {"retain", "replace"}
    BY <1>2 DEF Assignment
  <2>2. RequestStep
    BY <1>4, <1>9, <2>1 DEF RequestStep
  <2>3. reservation[a.identifier].subject # Outsider
    BY <1>1, <1>2, <1>9, ReservableNotOthers
  <2>4. reservation[a.identifier] \in Reservation
    BY <2>1 DEF OperationInv, TypeOK
  <2>5. PendingActionOf(a.action) \in {"replace", "resolve-conflict", None}
    BY <2>1 DEF PendingActionOf
  <2>6. r \in Reservation
    BY <1>1, <2>1, <2>4, <2>5, Zenon DEF Reserved, Reservation, ReservationStatus
  <2>7. r.subject # Outsider
    BY <2>1, <2>4, ManifestAssumption DEF Reserved, Reservation
  <2>8. reservation' = [reservation EXCEPT ![a.identifier] = r]
    BY <1>9
  <2> HIDE DEF r
  <2>9. ReservationStep
    BY <2>1, <2>3, <2>6, <2>7, <2>8, ReservationWritten
  <2> QED
    BY <1>7, <2>2, <2>9, Untouched DEF StepOK
<1>10. CASE /\ executor' = [executor EXCEPT ![e] = Failing(x)]
            /\ UNCHANGED reservation
  <2>1. x.pc # "idle"
    BY <1>1
  <2>2. Failing(x) \in ExecutorState /\ RequestOK(Failing(x), events')
    BY <1>1, <1>3, <2>1, FailingRequest
  <2>3. RequestStep
    BY <1>10, <2>2 DEF RequestStep
  <2> QED
    BY <1>7, <1>10, <2>3, Untouched DEF StepOK
<1> QED
  BY <1>6, <1>8, <1>9, <1>10

LEMMA AttachReservationReferenceStep ==
    ASSUME OperationInv, NEW e \in Executor, AttachReservationReference(e)
    PROVE  StepOK
<1> DEFINE x == executor[e]
           o == x.op
           pc == IF x.applied THEN "settle" ELSE "apply"
           q == [x EXCEPT !.applied = FALSE, !.pc = pc]
<1>1. /\ x \in ExecutorState /\ RequestOK(x, events) /\ x.pc = "attach"
      /\ o \in Operation /\ x.found \in Identifier \cup {None}
  BY RequestFacts DEF RequestOK, AttachReservationReference, ExecutorState
<1>2. events' = events /\ EventStep
  BY Untouched DEF AttachReservationReference
<1>3. DocumentStep
  BY <1>1, <1>2, UpdatedAssignments DEF AttachReservationReference
<1>4. q \in ExecutorState
  BY <1>1 DEF ExecutorState
<1>5. /\ q.pc \in {"settle", "apply"} /\ q.op = o
      /\ q.manifest = x.manifest /\ q.at = x.at
  BY <1>1 DEF ExecutorState
<1>6. executor' = [executor EXCEPT ![e] = q]
  BY DEF AttachReservationReference
<1> HIDE DEF q
<1>7. RequestOK(q, events')
  BY <1>1, <1>5 DEF RequestOK
<1>8. RequestStep
  BY <1>4, <1>6, <1>7 DEF RequestStep
<1> QED
  BY <1>3, <1>8, Untouched DEF AttachReservationReference, StepOK

LEMMA ApplyStep ==
    ASSUME OperationInv, NEW e \in Executor, Apply(e)
    PROVE  StepOK
<1> DEFINE x == executor[e]
           a == x.manifest[x.at]
           toRelease == [x EXCEPT !.pc = "release"]
           toMark == [x EXCEPT !.pc = "mark"]
<1>1. /\ x \in ExecutorState /\ RequestOK(x, events) /\ x.pc = "apply"
      /\ x.op \in Operation /\ x.manifest \in Manifest[x.op]
      /\ x.at \in 1..Len(x.manifest)
  BY RequestFacts DEF RequestOK, Apply
<1>2. EventStep /\ executor[e].pc # "idle"
  BY <1>1, Untouched DEF Apply
<1>3. /\ toRelease \in ExecutorState /\ RequestOK(toRelease, events')
      /\ toMark \in ExecutorState /\ RequestOK(toMark, events')
  BY <1>2, PlainMove
<1>4. \/ executor' = [executor EXCEPT ![e] = toRelease]
      \/ executor' = [executor EXCEPT ![e] = toMark]
  BY DEF Apply
<1>5. a \in Assignment
  BY <1>1, ManifestFacts
<1>6. AccountStep
  <2>1. \/ account' = [account EXCEPT ![a.subject] = a.identifier]
        \/ account' = account
    BY DEF Apply
  <2>2. a.subject \in Claimant /\ a.identifier \in Identifier
    BY <1>5 DEF Assignment
  <2>3. account \in [Claimant -> Identifier]
    BY DEF OperationInv, TypeOK
  <2> HIDE DEF a
  <2> QED
    BY <2>1, <2>2, <2>3 DEF AccountStep
<1> HIDE DEF toRelease, toMark
<1>7. RequestStep
  BY <1>3, <1>4 DEF RequestStep
<1> QED
  BY <1>6, <1>7, Untouched DEF Apply, StepOK

LEMMA ReleaseOriginalConflictStep ==
    ASSUME OperationInv, NEW e \in Executor, ReleaseOriginalConflict(e)
    PROVE  StepOK
<1> DEFINE x == executor[e]
           s == x.manifest[x.at].subject
           r == reservation[Original]
           freed == [r EXCEPT !.status = "released", !.subject = s,
                              !.claimants = {}, !.reviewable = FALSE]
           q == [x EXCEPT !.pc = "mark"]
<1>1. /\ x \in ExecutorState /\ RequestOK(x, events) /\ x.pc = "release"
      /\ x.op \in Operation /\ x.manifest \in Manifest[x.op]
      /\ x.at \in 1..Len(x.manifest)
  BY RequestFacts DEF RequestOK, ReleaseOriginalConflict
<1>2. EventStep /\ executor[e].pc # "idle"
  BY <1>1, Untouched DEF ReleaseOriginalConflict
<1>3. q \in ExecutorState /\ RequestOK(q, events')
  BY <1>2, PlainMove
<1>4. executor' = [executor EXCEPT ![e] = q]
  BY DEF ReleaseOriginalConflict
<1>5. RequestStep
  <2> HIDE DEF q
  <2> QED
    BY <1>3, <1>4 DEF RequestStep
<1>6. s \in Claimant
  BY <1>1, ManifestFacts DEF Assignment
<1>7. Original \in Identifier /\ r \in Reservation /\ r.subject # Outsider
  BY ManifestAssumption DEF OperationInv, TypeOK, OthersOK
<1>8. \/ reservation' = [reservation EXCEPT ![Original] = freed]
      \/ reservation' = [reservation EXCEPT ![Original] = r]
  BY DEF ReleaseOriginalConflict
<1> HIDE DEF s, r
<1>9. freed \in Reservation /\ freed.subject = s
  BY <1>6, <1>7, FreedReservation
<1> HIDE DEF freed
<1>10. ReservationStep
  BY <1>6, <1>7, <1>8, <1>9, ManifestAssumption, ReservationWritten DEF r
<1> QED
  BY <1>5, <1>10, Untouched DEF ReleaseOriginalConflict, StepOK

LEMMA MarkAssignmentAppliedStep ==
    ASSUME OperationInv, NEW e \in Executor, MarkAssignmentApplied(e)
    PROVE  StepOK
<1> DEFINE x == executor[e]
           q == [x EXCEPT !.pc = "settle"]
<1>1. x.op \in Operation /\ executor[e].pc # "idle"
  BY RequestFacts DEF RequestOK, MarkAssignmentApplied
<1>2. EventStep
  BY Untouched DEF MarkAssignmentApplied
<1>3. DocumentStep
  BY <1>1, <1>2, UpdatedAssignments DEF MarkAssignmentApplied
<1>4. q \in ExecutorState /\ RequestOK(q, events')
  BY <1>1, <1>2, PlainMove
<1>5. executor' = [executor EXCEPT ![e] = q]
  BY DEF MarkAssignmentApplied
<1> HIDE DEF q
<1>6. RequestStep
  BY <1>4, <1>5 DEF RequestStep
<1> QED
  BY <1>3, <1>6, Untouched DEF MarkAssignmentApplied, StepOK

LEMMA FinalizeReservationStep ==
    ASSUME OperationInv, NEW e \in Executor, FinalizeReservation(e)
    PROVE  StepOK
<1> DEFINE x == executor[e]
           o == x.op
           r == reservation[x.found]
           settled == [r EXCEPT !.status = "active", !.lastOp = o,
                                !.pendingOp = None, !.pendingAction = None]
           on == [x EXCEPT !.pc = "reserve", !.at = @ + 1, !.found = None]
           end == [x EXCEPT !.pc = "finalize", !.at = 1, !.found = None,
                            !.from = "applying", !.outcome = "completed"]
<1>1. /\ x \in ExecutorState /\ RequestOK(x, events) /\ x.pc = "settle"
      /\ o \in Operation /\ x.manifest \in Manifest[o]
      /\ x.at \in 1..Len(x.manifest)
  BY RequestFacts DEF RequestOK, FinalizeReservation
<1>2. Len(x.manifest) \in Nat /\ 1 \in 1..Len(x.manifest)
  BY <1>1, ManifestFacts
<1>3. events' = events
  BY DEF FinalizeReservation
<1>4. executor' = [executor EXCEPT ![e] =
                     IF x.at < Len(x.manifest) THEN on ELSE end]
  BY DEF FinalizeReservation
<1>5. ASSUME x.at < Len(x.manifest)
      PROVE  on \in ExecutorState /\ RequestOK(on, events')
  <2>1. on \in ExecutorState
    <3>1. x.at \in Nat /\ x.at + 1 \in Nat
      BY <1>1 DEF ExecutorState
    <3> QED
      BY <1>1, <3>1 DEF ExecutorState
  <2>2. /\ on.pc = "reserve" /\ on.op = o
        /\ on.manifest = x.manifest /\ on.at = x.at + 1
    BY <1>1 DEF ExecutorState
  <2>3. x.at + 1 \in 1..Len(x.manifest)
    BY <1>1, <1>2, <1>5
  <2> HIDE DEF on
  <2> QED
    BY <1>1, <2>1, <2>2, <2>3 DEF RequestOK
<1>6. end \in ExecutorState /\ RequestOK(end, events')
  <2>1. end \in ExecutorState
    BY <1>1 DEF ExecutorState, OperationStatus, Terminal
  <2>2. /\ end.pc = "finalize" /\ end.op = o /\ end.from = "applying"
        /\ end.manifest = x.manifest /\ end.at = 1
        /\ end.outcome = "completed"
    BY <1>1 DEF ExecutorState
  <2> HIDE DEF end
  <2> QED
    BY <1>1, <1>2, <2>1, <2>2 DEF RequestOK, Terminal
<1> HIDE DEF on, end
<1>7. RequestStep
  BY <1>4, <1>5, <1>6 DEF RequestStep
<1>8. CASE x.found \in Identifier /\ r.pendingOp = o
  <2>1. reservation' = [reservation EXCEPT ![x.found] = settled]
    BY <1>8 DEF FinalizeReservation
  <2>2. r \in Reservation /\ OthersOK(x.found, r)
    BY <1>8 DEF OperationInv, TypeOK
  <2>3. r.subject # Outsider
    BY <1>1, <1>8, <2>2, NoneAssumption DEF OthersOK
  <2>4. settled \in Reservation /\ settled.subject = r.subject
    BY <1>1, <2>2 DEF Reservation, ReservationStatus
  <2> HIDE DEF settled
  <2>5. ReservationStep
    BY <1>8, <2>1, <2>3, <2>4, ReservationWritten
  <2> QED
    BY <1>7, <2>5, Untouched DEF FinalizeReservation, StepOK
<1>9. CASE ~(x.found \in Identifier /\ r.pendingOp = o)
  <2>1. reservation \in [Identifier -> Reservation]
    BY DEF OperationInv, TypeOK
  <2>2. reservation' = reservation
    BY <1>9, <2>1 DEF FinalizeReservation
  <2> QED
    BY <1>7, <2>2, Untouched DEF FinalizeReservation, StepOK
<1> QED
  BY <1>8, <1>9

-----------------------------------------------------------------------------
(* The end of an attempt *)

LEMMA BeginFinalizingStep ==
    ASSUME OperationInv, NEW e \in Executor, BeginFinalizing(e)
    PROVE  StepOK
<1> DEFINE x == executor[e]
           o == x.op
           q == [x EXCEPT !.pc = "record", !.from = "absent"]
           result == IF x.outcome = "completed" THEN "success" ELSE "failure"
           d == [op[o] EXCEPT !.status = "finalizing", !.result = result]
<1>1. /\ x \in ExecutorState /\ RequestOK(x, events) /\ x.pc = "finalize"
      /\ o \in Operation /\ x.from \in {"applying", "compensating"}
      /\ x.outcome \in Terminal
  BY RequestFacts DEF RequestOK, BeginFinalizing
<1>2. events' = events
  BY DEF BeginFinalizing
<1>3. q \in ExecutorState /\ RequestOK(q, events')
  <2>1. q \in ExecutorState
    BY <1>1 DEF ExecutorState, OperationStatus
  <2>2. /\ q.pc = "record" /\ q.op = o /\ q.outcome = x.outcome
        /\ q.manifest = x.manifest /\ q.at = x.at
    BY <1>1 DEF ExecutorState
  <2> HIDE DEF q
  <2> QED
    BY <1>1, <2>1, <2>2 DEF RequestOK
<1>4. CASE op[o].status = x.from
  <2>1. op' = [op EXCEPT ![o] = d] /\ executor' = [executor EXCEPT ![e] = q]
    BY <1>4 DEF BeginFinalizing
  <2>2. op[o] \in OperationDoc /\ AuditedDoc(o, op[o], events)
    BY <1>1 DEF OperationInv, TypeOK
  <2>3. result \in {"success", "failure"}
    OBVIOUS
  <2> HIDE DEF result, q
  <2>4. /\ d \in OperationDoc /\ d.status = "finalizing"
        /\ d.expires = op[o].expires
    BY <2>2, <2>3 DEF OperationDoc, OperationStatus
  <2> HIDE DEF d
  <2>5. LegalStep(op[o], d) /\ AuditedDoc(o, d, events')
    BY <1>1, <1>4, <2>2, <2>4 DEF LegalStep, AuditedDoc, Allowed, Terminal
  <2>6. DocumentStep /\ RequestStep
    BY <1>1, <1>3, <2>1, <2>4, <2>5 DEF DocumentStep, RequestStep
  <2> QED
    BY <2>6, Untouched DEF BeginFinalizing, StepOK
<1>5. CASE op[o].status # x.from
  <2>1. /\ \/ executor' = [executor EXCEPT ![e] = Failing(x)]
           \/ executor' = [executor EXCEPT ![e] = IdleExecutor]
        /\ op' = op
    BY <1>5 DEF BeginFinalizing
  <2>2. x.pc # "idle"
    BY <1>1
  <2>3. Failing(x) \in ExecutorState /\ RequestOK(Failing(x), events')
    BY <1>1, <1>2, <2>2, FailingRequest
  <2>4. RequestStep
    BY <2>1, <2>3, IdleRequest DEF RequestStep
  <2> QED
    BY <2>1, <2>4, Untouched DEF BeginFinalizing, StepOK
<1> QED
  BY <1>4, <1>5

LEMMA RecordTerminalStep ==
    ASSUME OperationInv, NEW e \in Executor, RecordTerminal(e)
    PROVE  StepOK
<1> DEFINE x == executor[e]
           q == [x EXCEPT !.pc = "finish"]
<1>1. /\ x \in ExecutorState /\ RequestOK(x, events) /\ x.pc = "record"
      /\ x.op \in Operation /\ x.outcome \in Terminal
  BY RequestFacts DEF RequestOK, RecordTerminal
<1>2. events' = events \cup {<<x.op, x.outcome>>}
  BY DEF RecordTerminal
<1>3. EventStep
  BY <1>1, <1>2 DEF EventStep, OperationInv, TypeOK
<1>4. q \in ExecutorState
  BY <1>1 DEF ExecutorState
<1>5. /\ q.pc = "finish" /\ q.op = x.op /\ q.outcome = x.outcome
      /\ q.manifest = x.manifest /\ q.at = x.at
  BY <1>1 DEF ExecutorState
<1>6. executor' = [executor EXCEPT ![e] = q]
  BY DEF RecordTerminal
<1> HIDE DEF q
<1>7. RequestOK(q, events')
  BY <1>1, <1>2, <1>5 DEF RequestOK
<1>8. RequestStep
  BY <1>4, <1>6, <1>7 DEF RequestStep
<1> QED
  BY <1>3, <1>8, Untouched DEF RecordTerminal, StepOK

\* Whoever finishes an operation has its event on record.
LEMMA FinishedDoc ==
    ASSUME OperationInv, EventStep, NEW o \in Operation, NEW d \in OperationDoc,
           NEW outcome \in Terminal, <<o, outcome>> \in events,
           op[o].status = "finalizing", d.status = outcome,
           d.terminalEvent = outcome, op' = [op EXCEPT ![o] = d]
    PROVE  DocumentStep
<1>1. LegalStep(op[o], d)
  BY DEF LegalStep, Allowed, Terminal
<1>2. AuditedDoc(o, d, events')
  BY DEF AuditedDoc, EventStep
<1> QED
  BY <1>1, <1>2 DEF DocumentStep

LEMMA FinishTerminalStep ==
    ASSUME OperationInv, NEW e \in Executor, FinishTerminal(e)
    PROVE  StepOK
<1> DEFINE x == executor[e]
           o == x.op
           result == IF x.outcome = "completed" THEN "success" ELSE "failure"
           d == [op[o] EXCEPT !.status = x.outcome, !.result = result,
                              !.terminalEvent = x.outcome, !.expires = TRUE]
<1>1. /\ x.op \in Operation /\ x.outcome \in Terminal
      /\ <<x.op, x.outcome>> \in events
  BY RequestFacts DEF RequestOK, FinishTerminal
<1>2. EventStep
  BY Untouched DEF FinishTerminal
<1>3. RequestStep
  BY IdleRequest DEF FinishTerminal, RequestStep
<1>4. CASE op[o].status = "finalizing"
  <2>1. op' = [op EXCEPT ![o] = d]
    BY <1>4 DEF FinishTerminal
  <2>2. op[o] \in OperationDoc
    BY <1>1 DEF OperationInv, TypeOK
  <2>3. result \in {"success", "failure"}
    OBVIOUS
  <2> HIDE DEF result
  <2>4. /\ d \in OperationDoc /\ d.status = x.outcome
        /\ d.terminalEvent = x.outcome
    BY <1>1, <2>2, <2>3 DEF OperationDoc, OperationStatus
  <2> HIDE DEF d
  <2>5. DocumentStep
    BY <1>1, <1>2, <1>4, <2>1, <2>4, FinishedDoc
  <2> QED
    BY <1>3, <2>5, Untouched DEF FinishTerminal, StepOK
<1>5. CASE op[o].status # "finalizing"
  BY <1>3, <1>5, Untouched DEF FinishTerminal, StepOK
<1> QED
  BY <1>4, <1>5

-----------------------------------------------------------------------------
(* Compensation *)

LEMMA ReadPendingAssignmentsStep ==
    ASSUME OperationInv, NEW e \in Executor, ReadPendingAssignments(e)
    PROVE  StepOK
<1> DEFINE x == executor[e]
           s == op[x.op].assignments
           left == {n \in DOMAIN s : s[n].status = "pending"}
           q == Synchronizing(x, s, left)
<1>1. /\ x \in ExecutorState /\ RequestOK(x, events) /\ x.pc # "idle"
      /\ x.op \in Operation
  BY RequestFacts DEF RequestOK, ReadPendingAssignments
<1>2. events' = events /\ EventStep
  BY Untouched DEF ReadPendingAssignments
<1>3. s \in Seq(Persisted)
  BY <1>1 DEF OperationInv, TypeOK, OperationDoc
<1>4. left \in SUBSET Nat
  <2> HIDE DEF s
  <2> QED
    BY <1>3
<1>5. executor' = [executor EXCEPT ![e] = q]
  BY DEF ReadPendingAssignments
<1> HIDE DEF left, s
<1>6. q \in ExecutorState /\ RequestOK(q, events')
  BY <1>1, <1>2, <1>3, <1>4, SynchronizingRequest
<1> HIDE DEF q
<1>7. RequestStep
  BY <1>5, <1>6 DEF RequestStep
<1> QED
  BY <1>7, Untouched DEF ReadPendingAssignments, StepOK

LEMMA SynchronizeAppliedAssignmentStep ==
    ASSUME OperationInv, NEW e \in Executor, NEW n,
           SynchronizeAppliedAssignment(e, n)
    PROVE  StepOK
<1> DEFINE x == executor[e]
           left == x.undo \ {n}
           q == Synchronizing(x, x.seen, left)
<1>1. /\ x \in ExecutorState /\ RequestOK(x, events) /\ x.pc # "idle"
      /\ x.op \in Operation
  BY RequestFacts DEF RequestOK, SynchronizeAppliedAssignment
<1>2. events' = events /\ EventStep
  BY Untouched DEF SynchronizeAppliedAssignment
<1>3. \/ op' = op
      \/ op' = [op EXCEPT ![x.op] = WithStatus(@, x.seen[n], "applied")]
  BY DEF SynchronizeAppliedAssignment
<1>4. DocumentStep
  <2> HIDE DEF x
  <2> QED
    BY <1>1, <1>2, <1>3, UpdatedAssignments, Untouched
<1>5. x.seen \in Seq(Persisted) /\ left \in SUBSET Nat
  BY <1>1 DEF ExecutorState
<1>6. executor' = [executor EXCEPT ![e] = q]
  BY DEF SynchronizeAppliedAssignment
<1> HIDE DEF left
<1>7. q \in ExecutorState /\ RequestOK(q, events')
  BY <1>1, <1>2, <1>5, SynchronizingRequest
<1> HIDE DEF q
<1>8. RequestStep
  BY <1>6, <1>7 DEF RequestStep
<1> QED
  BY <1>4, <1>8, Untouched DEF SynchronizeAppliedAssignment, StepOK

LEMMA BeginCompensatingStep ==
    ASSUME OperationInv, NEW e \in Executor, BeginCompensating(e)
    PROVE  StepOK
<1> DEFINE x == executor[e]
           o == x.op
           s == op[o].assignments
           q == Undoing(x, s, AppliedOf(s))
<1>1. /\ x \in ExecutorState /\ RequestOK(x, events) /\ x.pc # "idle"
      /\ o \in Operation
  BY RequestFacts DEF RequestOK, BeginCompensating
<1>2. events' = events /\ EventStep
  BY Untouched DEF BeginCompensating
<1>3. CASE op[o].status = "applying"
  <2>1. /\ op' = [op EXCEPT ![o].status = "compensating"]
        /\ executor' = [executor EXCEPT ![e] = q]
    BY <1>3 DEF BeginCompensating
  <2>2. s \in Seq(Persisted)
    BY <1>1 DEF OperationInv, TypeOK, OperationDoc
  <2>3. AppliedOf(s) \in SUBSET Nat
    BY <2>2 DEF AppliedOf
  <2>4. q \in ExecutorState /\ RequestOK(q, events')
    BY <1>1, <1>2, <2>2, <2>3, UndoingRequest
  <2> HIDE DEF q
  <2>5. RequestStep
    BY <2>1, <2>4 DEF RequestStep
  <2>6. /\ Allowed(op[o].status, "compensating")
        /\ op[o].status \notin Terminal
        /\ "compensating" \in OperationStatus \ Terminal
    BY <1>3 DEF Allowed, Terminal, OperationStatus
  <2>7. DocumentStep
    BY <1>1, <1>2, <2>1, <2>6, StatusWritten
  <2> QED
    BY <2>5, <2>7, Untouched DEF BeginCompensating, StepOK
<1>4. CASE op[o].status # "applying"
  <2>1. executor' = [executor EXCEPT ![e] = IdleExecutor] /\ op' = op
    BY <1>4 DEF BeginCompensating
  <2>2. RequestStep
    BY <2>1, IdleRequest DEF RequestStep
  <2> QED
    BY <2>1, <2>2, Untouched DEF BeginCompensating, StepOK
<1> QED
  BY <1>3, <1>4

LEMMA CompensateStep ==
    ASSUME OperationInv, NEW e \in Executor, Compensate(e)
    PROVE  StepOK
<1> DEFINE x == executor[e]
           p == InHand(x)
           mine == {k \in 1..Len(x.manifest) : SameId(p, x.manifest[k])}
           toReopen == [x EXCEPT !.pc = "reopen"]
           toRestore == [x EXCEPT !.pc = "restore"]
<1>1. EventStep /\ executor[e].pc # "idle"
  BY Untouched DEF Compensate
<1>2. /\ toReopen \in ExecutorState /\ RequestOK(toReopen, events')
      /\ toRestore \in ExecutorState /\ RequestOK(toRestore, events')
  BY <1>1, PlainMove
<1>3. executor' = [executor EXCEPT ![e] =
          CASE mine = {} -> IdleExecutor
            [] \E k \in mine : ReleasesOriginal(x.manifest, k) -> toReopen
            [] OTHER -> toRestore]
  BY DEF Compensate
<1> HIDE DEF toReopen, toRestore
<1>4. RequestStep
  <2>1. CASE mine = {}
    <3>1. ~ \E k \in mine : ReleasesOriginal(x.manifest, k)
      BY <2>1
    <3>2. executor' = [executor EXCEPT ![e] = IdleExecutor]
      <4> HIDE DEF mine
      <4> QED
        BY <1>3, <2>1, <3>1
    <3> QED
      BY <3>2, IdleRequest DEF RequestStep
  <2>2. CASE mine # {}
    <3>1. \/ executor' = [executor EXCEPT ![e] = toReopen]
          \/ executor' = [executor EXCEPT ![e] = toRestore]
      <4> HIDE DEF mine
      <4> QED
        BY <1>3, <2>2
    <3> QED
      BY <1>2, <3>1 DEF RequestStep
  <2> QED
    BY <2>1, <2>2
<1>5. AccountStep
  <2>1. \/ account' = [account EXCEPT ![p.subject] = Original]
        \/ account' = account
    BY DEF Compensate
  <2> HIDE DEF p
  <2> QED
    BY <2>1, ManifestAssumption DEF AccountStep, OperationInv, TypeOK
<1> QED
  BY <1>4, <1>5, Untouched DEF Compensate, StepOK

LEMMA ReopenConflictStep ==
    ASSUME OperationInv, NEW e \in Executor, ReopenConflict(e)
    PROVE  StepOK
<1> DEFINE x == executor[e]
           r == reservation[Original]
           reopened == [r EXCEPT !.status = "conflict", !.reviewable = TRUE]
           q == [x EXCEPT !.pc = "restore"]
<1>1. EventStep /\ executor[e].pc # "idle"
  BY Untouched DEF ReopenConflict
<1>2. q \in ExecutorState /\ RequestOK(q, events')
  BY <1>1, PlainMove
<1>3. executor' = [executor EXCEPT ![e] = q]
  BY DEF ReopenConflict
<1>4. Original \in Identifier /\ r \in Reservation /\ r.subject # Outsider
  BY ManifestAssumption DEF OperationInv, TypeOK, OthersOK
<1>5. reservation' = [reservation EXCEPT ![Original] = reopened]
  BY DEF ReopenConflict
<1>6. reopened \in Reservation /\ reopened.subject = r.subject
  BY <1>4 DEF Reservation, ReservationStatus
<1> HIDE DEF q, reopened
<1>7. RequestStep
  BY <1>2, <1>3 DEF RequestStep
<1>8. ReservationStep
  BY <1>4, <1>5, <1>6, ReservationWritten
<1> QED
  BY <1>7, <1>8, Untouched DEF ReopenConflict, StepOK

\* An undone reservation keeps its owner.
LEMMA RestoredReservation ==
    ASSUME NEW r \in Reservation, NEW action
    PROVE  /\ Restored(r, action) \in Reservation
           /\ Restored(r, action).subject = r.subject
<1> DEFINE status == IF action = "retain" THEN "conflict" ELSE "released"
<1>1. Restored(r, action) = [r EXCEPT !.status = status, !.pendingOp = None,
                                      !.pendingAction = None]
  BY DEF Restored
<1>2. status \in ReservationStatus
  BY DEF ReservationStatus
<1> HIDE DEF status
<1> QED
  BY <1>1, <1>2 DEF Reservation

LEMMA RestoreReservationStep ==
    ASSUME OperationInv, NEW e \in Executor, RestoreReservation(e)
    PROVE  StepOK
<1> DEFINE x == executor[e]
           p == InHand(x)
           i == IF p.target = None THEN Original ELSE p.target
           q == [x EXCEPT !.pc = "unmark"]
<1>1. x.op \in Operation /\ executor[e].pc # "idle"
  BY RequestFacts DEF RequestOK, RestoreReservation
<1>2. EventStep
  BY Untouched DEF RestoreReservation
<1>3. q \in ExecutorState /\ RequestOK(q, events')
  BY <1>1, <1>2, PlainMove
<1>4. executor' = [executor EXCEPT ![e] = q]
  BY DEF RestoreReservation
<1>5. RequestStep
  <2> HIDE DEF q
  <2> QED
    BY <1>3, <1>4 DEF RequestStep
<1>6. reservation' = IF reservation[i].lastOp = x.op
         THEN [reservation EXCEPT ![i] = Restored(@, p.action)] ELSE reservation
  BY DEF RestoreReservation
<1> HIDE DEF p, i
<1>7. CASE i \in Identifier /\ reservation[i].lastOp = x.op
  <2> DEFINE r == Restored(reservation[i], p.action)
  <2>1. reservation[i] \in Reservation /\ OthersOK(i, reservation[i])
    BY <1>7 DEF OperationInv, TypeOK
  <2>2. reservation[i].subject # Outsider
    BY <1>1, <1>7, <2>1, NoneAssumption DEF OthersOK
  <2>3. r \in Reservation /\ r.subject = reservation[i].subject
    BY <2>1, RestoredReservation
  <2>4. reservation' = [reservation EXCEPT ![i] = r]
    BY <1>6, <1>7
  <2> HIDE DEF r
  <2>5. ReservationStep
    BY <1>7, <2>2, <2>3, <2>4, ReservationWritten
  <2> QED
    BY <1>5, <2>5, Untouched DEF RestoreReservation, StepOK
<1>8. CASE ~(i \in Identifier /\ reservation[i].lastOp = x.op)
  <2>1. reservation \in [Identifier -> Reservation]
    BY DEF OperationInv, TypeOK
  <2>2. reservation' = reservation
    BY <1>6, <1>8, <2>1
  <2> QED
    BY <1>5, <2>2, Untouched DEF RestoreReservation, StepOK
<1> QED
  BY <1>7, <1>8

LEMMA MarkCompensatedStep ==
    ASSUME OperationInv, NEW e \in Executor, MarkCompensated(e)
    PROVE  StepOK
<1> DEFINE x == executor[e]
           left == x.undo \ {Latest(x.undo)}
           q == Undoing(x, x.seen, left)
<1>1. /\ x \in ExecutorState /\ RequestOK(x, events) /\ x.pc # "idle"
      /\ x.op \in Operation
  BY RequestFacts DEF RequestOK, MarkCompensated
<1>2. events' = events /\ EventStep
  BY Untouched DEF MarkCompensated
<1>3. DocumentStep
  BY <1>1, <1>2, UpdatedAssignments DEF MarkCompensated
<1>4. x.seen \in Seq(Persisted) /\ left \in SUBSET Nat
  BY <1>1 DEF ExecutorState
<1>5. executor' = [executor EXCEPT ![e] = q]
  BY DEF MarkCompensated
<1> HIDE DEF left
<1>6. q \in ExecutorState /\ RequestOK(q, events')
  BY <1>1, <1>2, <1>4, UndoingRequest
<1> HIDE DEF q
<1>7. RequestStep
  BY <1>5, <1>6 DEF RequestStep
<1> QED
  BY <1>3, <1>7, Untouched DEF MarkCompensated, StepOK

-----------------------------------------------------------------------------
(* Failures of requests *)

LEMMA FaultCounted ==
    ASSUME OperationInv, faults < MaxFaults, faults' = faults + 1
    PROVE  FaultStep
BY BoundsAssumption DEF OperationInv, TypeOK, FaultStep

LEMMA FailedRequestStep ==
    ASSUME OperationInv, NEW e \in Executor,
           FailCall(e) \/ FailSynchronization(e) \/ FailRequest(e)
    PROVE  StepOK
<1> DEFINE x == executor[e]
<1>1. /\ x \in ExecutorState /\ RequestOK(x, events) /\ x.pc # "idle"
      /\ x.op \in Operation
  BY RequestFacts DEF RequestOK, FailCall, FailSynchronization, FailRequest
<1>2. /\ events' = events /\ EventStep /\ ReservationStep /\ AccountStep
      /\ JobStep
  BY Untouched DEF FailCall, FailSynchronization, FailRequest
<1>3. FaultStep
  BY FaultCounted DEF FailCall, FailSynchronization, FailRequest
<1>4. Failing(x) \in ExecutorState /\ RequestOK(Failing(x), events')
  BY <1>1, <1>2, FailingRequest
<1>5. RequestStep
  <2>1. \/ executor' = [executor EXCEPT ![e] = Failing(x)]
        \/ executor' = [executor EXCEPT ![e] = IdleExecutor]
    BY DEF FailCall, FailSynchronization, FailRequest
  <2> HIDE DEF x
  <2> QED
    BY <1>4, <2>1, IdleRequest DEF RequestStep
<1>6. DocumentStep
  <2>1. CASE op' = op
    BY <2>1, Untouched
  <2>2. CASE op' # op
    <3>1. /\ op[x.op].status = "applying"
          /\ op' = [op EXCEPT ![x.op].status = "failed-retryable"]
      BY <2>2 DEF FailCall, FailSynchronization, FailRequest
    <3>2. /\ Allowed(op[x.op].status, "failed-retryable")
          /\ op[x.op].status \notin Terminal
          /\ "failed-retryable" \in OperationStatus \ Terminal
      BY <3>1 DEF Allowed, Terminal, OperationStatus
    <3> QED
      BY <1>1, <1>2, <3>1, <3>2, StatusWritten
  <2> QED
    BY <2>1, <2>2
<1> QED
  BY <1>2, <1>3, <1>5, <1>6 DEF StepOK

-----------------------------------------------------------------------------
(* The reconciliation job *)

\* Facts at one job.
LEMMA JobFacts ==
    ASSUME OperationInv, NEW w \in Worker
    PROVE  worker[w] \in WorkerState /\ JobOK(worker[w], events)
BY DEF OperationInv, TypeOK

LEMMA IdleJob ==
    ASSUME NEW recorded
    PROVE  IdleWorker \in WorkerState /\ JobOK(IdleWorker, recorded)
<1>1. NoOperation \in OperationDoc
  BY DEF NoOperation, OperationDoc, OperationStatus
<1>2. IdleWorker \in WorkerState
  BY <1>1 DEF IdleWorker, WorkerState
<1>3. IdleWorker.pc = "idle"
  BY DEF IdleWorker
<1> QED
  BY <1>2, <1>3 DEF JobOK

LEMMA LeavingJob ==
    ASSUME NEW recorded, NEW o \in Operation
    PROVE  Leaving(o) \in WorkerState /\ JobOK(Leaving(o), recorded)
<1>1. Leaving(o) \in WorkerState
  BY IdleJob DEF Leaving, WorkerState
<1>2. Leaving(o).pc = "leave" /\ Leaving(o).op = o
  BY DEF Leaving, IdleWorker
<1> QED
  BY <1>1, <1>2 DEF JobOK

\* Every status a claimed operation can have leads somewhere.
LEMMA ProcessingJob ==
    ASSUME NEW recorded, NEW j \in WorkerState, j.op \in Operation,
           NEW d \in OperationDoc, d.status \notin Terminal \cup {"absent"}
    PROVE  /\ Processing(j, d) \in WorkerState
           /\ JobOK(Processing(j, d), recorded)
<1> DEFINE failed == d.result = "failure" \/ \A n \in DOMAIN d.assignments :
                        d.assignments[n].status = "compensated"
           outcome == IF failed THEN "failed-terminal" ELSE "completed"
           q == Processing(j, d)
<1>1. CASE d.status \in {"applying", "compensating"}
  <2>1. DOMAIN d.assignments \in SUBSET Nat
    BY DEF OperationDoc
  <2>2. q = [j EXCEPT !.pc = "recover", !.read = d, !.left = DOMAIN d.assignments]
    BY <1>1 DEF Processing
  <2>3. q \in WorkerState /\ q.pc = "recover" /\ q.op = j.op /\ q.read = d
    BY <2>1, <2>2 DEF WorkerState
  <2> QED
    BY <1>1, <2>3 DEF JobOK
<1>2. CASE d.status = "finalizing"
  <2>1. outcome \in Terminal
    BY DEF Terminal
  <2>2. q = [j EXCEPT !.pc = "record", !.read = d, !.outcome = outcome]
    BY <1>2 DEF Processing
  <2> HIDE DEF outcome
  <2>3. /\ q \in WorkerState /\ q.pc = "record" /\ q.op = j.op
        /\ q.outcome \in Terminal
    BY <2>1, <2>2 DEF WorkerState
  <2> QED
    BY <2>3 DEF JobOK
<1>3. CASE d.status \in {"pending", "failed-retryable"}
  <2>1. q = [j EXCEPT !.pc = "move", !.read = d]
    BY <1>3 DEF Processing
  <2>2. q \in WorkerState /\ q.pc = "move" /\ q.op = j.op /\ q.read = d
    BY <2>1 DEF WorkerState
  <2> QED
    BY <1>3, <2>2 DEF JobOK
<1> QED
  BY <1>1, <1>2, <1>3 DEF OperationDoc, OperationStatus

\* The lease fields are nobody's business but the job's.
LEMMA LeaseWritten ==
    ASSUME OperationInv, EventStep, NEW o \in Operation,
           NEW owner \in Worker \cup {None}, NEW leased \in BOOLEAN,
           op' = [op EXCEPT ![o] = [@ EXCEPT !.owner = owner, !.leased = leased]]
    PROVE  DocumentStep
<1> DEFINE d == [op[o] EXCEPT !.owner = owner, !.leased = leased]
<1>1. op[o] \in OperationDoc /\ AuditedDoc(o, op[o], events) /\ events \subseteq events'
  BY DEF OperationInv, TypeOK, EventStep
<1>2. op' = [op EXCEPT ![o] = d]
  OBVIOUS
<1>3. /\ d \in OperationDoc
      /\ d.status = op[o].status
      /\ d.terminalEvent = op[o].terminalEvent
      /\ d.result = op[o].result
      /\ d.expires = op[o].expires
  BY <1>1 DEF OperationDoc
<1> HIDE DEF d
<1>4. LegalStep(op[o], d) /\ AuditedDoc(o, d, events')
  BY <1>1, <1>3, KeptStep
<1> QED
  BY <1>2, <1>3, <1>4 DEF DocumentStep

LEMMA ClaimStep ==
    ASSUME OperationInv, NEW w \in Worker, NEW o \in Operation, Claim(w, o)
    PROVE  StepOK
<1> DEFINE d == [op[o] EXCEPT !.owner = w, !.leased = TRUE]
           q == [IdleWorker EXCEPT !.pc = "attach", !.op = o, !.read = d]
<1>1. op[o] \in OperationDoc /\ op[o].status \notin Terminal \cup {"absent"}
  BY DEF OperationInv, TypeOK, Claim
<1>2. EventStep
  BY Untouched DEF Claim
<1>3. op' = [op EXCEPT ![o] = d] /\ worker' = [worker EXCEPT ![w] = q]
  BY DEF Claim
<1>4. DocumentStep
  BY <1>2, <1>3, LeaseWritten
<1>5. d \in OperationDoc /\ d.status = op[o].status
  BY <1>1 DEF OperationDoc
<1> HIDE DEF d
<1>6. q \in WorkerState
  BY <1>5, IdleJob DEF WorkerState
<1>7. q.pc = "attach" /\ q.op = o /\ q.read = d
  BY DEF IdleWorker
<1> HIDE DEF q
<1>8. JobOK(q, events')
  BY <1>1, <1>5, <1>7 DEF JobOK
<1>9. JobStep
  BY <1>3, <1>6, <1>8 DEF JobStep
<1> QED
  BY <1>4, <1>9, Untouched DEF Claim, StepOK

\* One assignment of a list is replaced, if the list is that long.
LEMMA OneAssignment ==
    ASSUME NEW s \in Seq(Persisted), NEW n, NEW p,
           n \in DOMAIN s => p \in Persisted
    PROVE  [s EXCEPT ![n] = p] \in Seq(Persisted)
<1> DEFINE t == [s EXCEPT ![n] = p]
<1>1. DOMAIN t = DOMAIN s /\ t = [k \in DOMAIN s |-> t[k]]
  OBVIOUS
<1>2. \A k \in DOMAIN s : t[k] \in Persisted
  OBVIOUS
<1> HIDE DEF t
<1> QED
  BY <1>1, <1>2, ListKept DEF t

LEMMA AttachMissingReferencesStep ==
    ASSUME OperationInv, NEW w \in Worker, AttachMissingReferences(w)
    PROVE  StepOK
<1> DEFINE j == worker[w]
           o == j.op
           s == j.read.assignments
           Missing(n) == {i \in Identifier :
               /\ s[n].target = None
               /\ reservation[i].pendingOp = o
               /\ reservation[i].subject = s[n].subject
               /\ reservation[i].pendingAction = s[n].action}
           missing == {n \in DOMAIN s : Missing(n) # {}}
           aimed(n) == IF n \in missing
                       THEN [s[n] EXCEPT !.target = CHOOSE i \in Missing(n) : TRUE]
                       ELSE s[n]
           t == [n \in DOMAIN s |-> aimed(n)]
           seen == [j.read EXCEPT !.assignments = t]
<1>1. /\ j \in WorkerState /\ j.pc = "attach" /\ o \in Operation
      /\ j.read \in OperationDoc /\ s \in Seq(Persisted)
      /\ j.read.status \notin Terminal \cup {"absent"}
  <2>1. j \in WorkerState /\ JobOK(j, events) /\ j.pc = "attach"
    BY JobFacts, Zenon DEF AttachMissingReferences
  <2> HIDE DEF j
  <2> QED
    BY <2>1 DEF JobOK, WorkerState, OperationDoc
<1>2. EventStep
  BY Untouched, Zenon DEF AttachMissingReferences
<1>3. ASSUME NEW n \in DOMAIN s PROVE aimed(n) \in Persisted
  <2> DEFINE i == CHOOSE k \in Missing(n) : TRUE
  <2>1. s[n] \in Persisted
    BY <1>1
  <2>2. CASE n \in missing
    <3>1. i \in Identifier
      BY <2>2
    <3>2. aimed(n) = [s[n] EXCEPT !.target = i]
      BY <2>2
    <3> HIDE DEF i, aimed
    <3> QED
      BY <2>1, <3>1, <3>2 DEF Persisted
  <2>3. CASE n \notin missing
    BY <2>1, <2>3
  <2> QED
    BY <2>2, <2>3
<1>4. worker' = [worker EXCEPT ![w] = Processing(j, seen)]
  BY Zenon DEF AttachMissingReferences
<1>5. \/ op' = op
      \/ \E n \in missing : op' = [op EXCEPT ![o].assignments[n].target =
                                         seen.assignments[n].target]
  BY Zenon DEF AttachMissingReferences
<1>6. t \in Seq(Persisted)
  <2>1. DOMAIN s = 1..Len(s) /\ Len(s) \in Nat
    BY <1>1
  <2> HIDE DEF aimed, s
  <2> QED
    BY <1>3, <2>1
<1>7. seen \in OperationDoc /\ seen.status = j.read.status /\ seen.assignments = t
  <2> HIDE DEF t
  <2> QED
    BY <1>1, <1>6 DEF OperationDoc
<1>8. JobStep
  <2> HIDE DEF seen
  <2>1. Processing(j, seen) \in WorkerState /\ JobOK(Processing(j, seen), events')
    BY <1>1, <1>7, ProcessingJob
  <2> QED
    BY <1>4, <2>1 DEF JobStep
<1>9. DocumentStep
  <2>1. CASE op' = op
    BY <2>1, Untouched
  <2>2. CASE \E n \in missing : op' = [op EXCEPT ![o].assignments[n].target =
                                              seen.assignments[n].target]
    <3>1. PICK n \in missing : op' = [op EXCEPT ![o].assignments[n].target =
                                              seen.assignments[n].target]
      BY <2>2, Zenon
    <3> DEFINE u == op[o].assignments
               v == t[n].target
               p == [u[n] EXCEPT !.target = v]
    <3>2. t[n] \in Persisted
      BY <1>3
    <3>3. v \in Identifier \cup {None}
      <4> HIDE DEF t
      <4> QED
        BY <3>2 DEF Persisted
    <3>4. u \in Seq(Persisted)
      BY <1>1 DEF OperationInv, TypeOK, OperationDoc
    <3>5. op' = [op EXCEPT ![o].assignments = [u EXCEPT ![n] = p]]
      <4> HIDE DEF seen, t, missing
      <4> QED
        BY <1>7, <3>1
    <3>6. n \in DOMAIN u => p \in Persisted
      <4> HIDE DEF v, missing
      <4>1. n \in DOMAIN u => u[n] \in Persisted
        BY <3>4
      <4> QED
        BY <3>3, <4>1 DEF Persisted
    <3>7. [u EXCEPT ![n] = p] \in Seq(Persisted)
      <4> HIDE DEF u, p, missing
      <4> QED
        BY <3>4, <3>6, OneAssignment
    <3> DEFINE list == [u EXCEPT ![n] = p]
    <3> HIDE DEF list, missing
    <3> QED
      BY <1>1, <1>2, <3>5, <3>7, AssignmentsWritten, Zenon DEF list
  <2> QED
    BY <1>5, <2>1, <2>2, Zenon
<1>10. UNCHANGED <<account, reservation, events, executor, faults>>
  BY Zenon DEF AttachMissingReferences
<1>11. RequestStep /\ ReservationStep /\ EventStep /\ AccountStep /\ FaultStep
  BY <1>10, Untouched
<1> QED
  BY <1>8, <1>9, <1>11, Zenon DEF StepOK

\* One assignment of the claimed operation changes its status.
LEMMA RecoveredAssignment ==
    ASSUME OperationInv, EventStep, NEW o \in Operation, NEW n,
           NEW status \in {"pending", "applied", "compensated"},
           op' = [op EXCEPT ![o].assignments[n].status = status]
    PROVE  DocumentStep
<1> DEFINE u == op[o].assignments
           p == [u[n] EXCEPT !.status = status]
<1>1. u \in Seq(Persisted)
  BY DEF OperationInv, TypeOK, OperationDoc
<1>2. op' = [op EXCEPT ![o].assignments = [u EXCEPT ![n] = p]]
  OBVIOUS
<1>3. n \in DOMAIN u => p \in Persisted
  <2>1. n \in DOMAIN u => u[n] \in Persisted
    BY <1>1
  <2> HIDE DEF u
  <2> QED
    BY <2>1 DEF Persisted
<1> HIDE DEF p
<1>4. [u EXCEPT ![n] = p] \in Seq(Persisted)
  <2> HIDE DEF u
  <2> QED
    BY <1>1, <1>3, OneAssignment
<1> QED
  BY <1>2, <1>4, AssignmentsWritten

\* The job goes through the assignments and then moves the operation on.
LEMMA RecoveringJob ==
    ASSUME OperationInv, NEW w \in Worker, worker[w].pc \in {"recover", "mark"},
           NEW n, NEW retry \in BOOLEAN, NEW pc \in {"move", "recover"},
           worker' = [worker EXCEPT ![w].left = @ \ {n}, ![w].retry = retry,
                                    ![w].pc = pc]
    PROVE  JobStep
<1> DEFINE j == worker[w]
           q == [j EXCEPT !.left = @ \ {n}, !.retry = retry, !.pc = pc]
<1>1. /\ j \in WorkerState /\ j.op \in Operation
      /\ j.read.status \in {"applying", "compensating"}
  BY JobFacts DEF JobOK
<1>2. worker' = [worker EXCEPT ![w] = q]
  OBVIOUS
<1>3. q \in WorkerState /\ q.pc = pc /\ q.op = j.op /\ q.read = j.read
  BY <1>1 DEF WorkerState
<1> HIDE DEF q, j
<1>4. JobOK(q, events')
  BY <1>1, <1>3 DEF JobOK
<1> QED
  BY <1>2, <1>3, <1>4 DEF JobStep

LEMMA RecoverApplyingStep ==
    ASSUME OperationInv, NEW w \in Worker, NEW n \in worker[w].left,
           RecoverApplying(w, n)
    PROVE  StepOK
<1> DEFINE j == worker[w]
           o == j.op
           p == j.read.assignments[n]
           final == \E i \in ReservationOf(o, p) :
                       reservation[i].status = "active" /\ reservation[i].lastOp = o
           retry == j.retry \/ (p.status # "applied" /\ ~final)
           pc == IF j.left = {n} THEN "move" ELSE "recover"
<1>1. j \in WorkerState /\ j.pc = "recover" /\ o \in Operation
  BY JobFacts DEF JobOK, RecoverApplying
<1>2. EventStep
  BY Untouched DEF RecoverApplying
<1>3. worker' = [worker EXCEPT ![w].left = @ \ {n}, ![w].retry = retry,
                               ![w].pc = pc]
  BY DEF RecoverApplying
<1>4. retry \in BOOLEAN /\ pc \in {"move", "recover"}
  BY <1>1 DEF WorkerState
<1> HIDE DEF retry, pc
<1>5. JobStep
  BY <1>1, <1>3, <1>4, RecoveringJob
<1>6. \/ op' = op
      \/ op' = [op EXCEPT ![o].assignments[n].status = "applied"]
  BY DEF RecoverApplying
<1>7. DocumentStep
  BY <1>1, <1>2, <1>6, RecoveredAssignment, Untouched
<1> QED
  BY <1>5, <1>7, Untouched DEF RecoverApplying, StepOK

LEMMA RecoverCompensatingStep ==
    ASSUME OperationInv, NEW w \in Worker, NEW n \in worker[w].left,
           RecoverCompensating(w, n)
    PROVE  StepOK
<1> DEFINE j == worker[w]
           o == j.op
           p == j.read.assignments[n]
           mine == {i \in ReservationOf(o, p) : reservation[i].pendingOp = o}
           retry == j.retry \/ p.status # "compensated"
           pc == IF j.left = {n} THEN "move" ELSE "recover"
           undone(i) == [Restored(reservation[i], p.action) EXCEPT !.lastOp = o]
<1>1. /\ j \in WorkerState /\ j.pc = "recover" /\ o \in Operation
      /\ j.read.status \in {"applying", "compensating"}
  <2>1. j \in WorkerState /\ JobOK(j, events) /\ j.pc = "recover"
    BY JobFacts, Zenon DEF RecoverCompensating
  <2> QED
    BY <2>1 DEF JobOK
<1>2. UNCHANGED <<account, op, events, executor, faults>>
  BY Zenon DEF RecoverCompensating
<1>10. RequestStep /\ EventStep /\ AccountStep /\ FaultStep /\ DocumentStep
  BY <1>2, Untouched
<1>3. \/ worker' = [worker EXCEPT ![w].left = @ \ {n}, ![w].retry = retry,
                                  ![w].pc = pc]
      \/ worker' = [worker EXCEPT ![w].pc = "mark"]
  BY Zenon DEF RecoverCompensating
<1>4. retry \in BOOLEAN /\ pc \in {"move", "recover"}
  BY <1>1 DEF WorkerState
<1>5. JobStep
  <2>1. CASE worker' = [worker EXCEPT ![w].left = @ \ {n}, ![w].retry = retry,
                                      ![w].pc = pc]
    <3> HIDE DEF retry, pc
    <3> QED
      BY <1>1, <1>4, <2>1, RecoveringJob
  <2>2. CASE worker' = [worker EXCEPT ![w].pc = "mark"]
    <3> DEFINE q == [j EXCEPT !.pc = "mark"]
    <3>1. worker' = [worker EXCEPT ![w] = q]
      BY <2>2
    <3>2. q \in WorkerState /\ q.pc = "mark" /\ q.op = o /\ q.read = j.read
      BY <1>1 DEF WorkerState
    <3> HIDE DEF q
    <3>3. JobOK(q, events')
      BY <1>1, <3>2 DEF JobOK
    <3> QED
      BY <3>1, <3>2, <3>3 DEF JobStep
  <2> QED
    BY <1>3, <2>1, <2>2
<1>8. \/ reservation' = reservation
      \/ \E i \in mine : reservation' = [reservation EXCEPT ![i] = undone(i)]
  BY Zenon DEF RecoverCompensating
<1>9. ReservationStep
  <2>1. CASE reservation' = reservation
    BY <2>1, Untouched
  <2>2. CASE \E i \in mine : reservation' = [reservation EXCEPT ![i] = undone(i)]
    <3>1. PICK i \in mine : reservation' = [reservation EXCEPT ![i] = undone(i)]
      BY <2>2
    <3>2. reservation[i].pendingOp = o
      BY <3>1
    <3> HIDE DEF mine
    <3>3. CASE i \in Identifier
      <4>1. reservation[i] \in Reservation /\ OthersOK(i, reservation[i])
        BY <3>3 DEF OperationInv, TypeOK
      <4>2. reservation[i].subject # Outsider
        BY <1>1, <3>2, <4>1, NoneAssumption DEF OthersOK
      <4>3. /\ Restored(reservation[i], p.action) \in Reservation
            /\ Restored(reservation[i], p.action).subject = reservation[i].subject
        BY <4>1, RestoredReservation
      <4>4. undone(i) \in Reservation /\ undone(i).subject = reservation[i].subject
        BY <1>1, <4>3 DEF Reservation
      <4> HIDE DEF undone
      <4> QED
        BY <3>1, <3>3, <4>2, <4>4, ReservationWritten
    <3>4. CASE i \notin Identifier
      <4>1. reservation \in [Identifier -> Reservation]
        BY DEF OperationInv, TypeOK
      <4> HIDE DEF undone
      <4>2. reservation' = reservation
        BY <3>1, <3>4, <4>1
      <4> QED
        BY <4>2, Untouched
    <3> QED
      BY <3>3, <3>4
  <2> QED
    BY <1>8, <2>1, <2>2
<1> QED
  BY <1>5, <1>9, <1>10, Zenon DEF StepOK

LEMMA MarkRecoveredStep ==
    ASSUME OperationInv, NEW w \in Worker, NEW n \in worker[w].left,
           MarkRecovered(w, n)
    PROVE  StepOK
<1> DEFINE j == worker[w]
           o == j.op
           retry == j.retry
           pc == IF j.left = {n} THEN "move" ELSE "recover"
<1>1. j \in WorkerState /\ j.pc = "mark" /\ o \in Operation
  BY JobFacts DEF JobOK, MarkRecovered
<1>2. EventStep
  BY Untouched DEF MarkRecovered
<1>3. worker' = [worker EXCEPT ![w].left = @ \ {n}, ![w].retry = retry,
                               ![w].pc = pc]
  BY DEF MarkRecovered
<1>4. retry \in BOOLEAN /\ pc \in {"move", "recover"}
  BY <1>1 DEF WorkerState
<1> HIDE DEF retry, pc
<1>5. JobStep
  BY <1>1, <1>3, <1>4, RecoveringJob
<1>6. \/ op' = op
      \/ op' = [op EXCEPT ![o].assignments[n].status = "compensated"]
  BY DEF MarkRecovered
<1>7. DocumentStep
  BY <1>1, <1>2, <1>6, RecoveredAssignment, Untouched
<1> QED
  BY <1>5, <1>7, Untouched DEF MarkRecovered, StepOK

LEMMA MoveStep ==
    ASSUME OperationInv, NEW w \in Worker, Move(w)
    PROVE  StepOK
<1> DEFINE j == worker[w]
           o == j.op
<1>1. /\ o \in Operation
      /\ j.read.status \in {"pending", "failed-retryable", "applying",
                            "compensating"}
  BY JobFacts DEF JobOK, Move
<1>2. EventStep
  BY Untouched DEF Move
<1>3. JobStep
  BY <1>1, LeavingJob DEF Move, JobStep
<1>4. DocumentStep
  <2>1. CASE op' = op
    BY <2>1, Untouched
  <2>2. CASE op' # op
    <3> DEFINE status == NextStatus(j)
    <3>1. /\ op[o].status = j.read.status
          /\ op' = [op EXCEPT ![o].status = status]
      BY <2>2 DEF Move
    <3>2. /\ j.read.status = "pending" => status = "applying"
          /\ j.read.status = "failed-retryable" =>
                status \in {"applying", "compensating"}
          /\ j.read.status \in {"applying", "compensating"} =>
                status \in {"failed-retryable", "finalizing"}
      BY DEF NextStatus
    <3> HIDE DEF status
    <3>3. /\ Allowed(op[o].status, status)
          /\ op[o].status \notin Terminal
          /\ status \in OperationStatus \ Terminal
      BY <1>1, <3>1, <3>2 DEF Allowed, Terminal, OperationStatus
    <3> QED
      BY <1>1, <1>2, <3>1, <3>3, StatusWritten
  <2> QED
    BY <2>1, <2>2
<1> QED
  BY <1>3, <1>4, Untouched DEF Move, StepOK

LEMMA RecordRecoveredStep ==
    ASSUME OperationInv, NEW w \in Worker, RecordRecovered(w)
    PROVE  StepOK
<1> DEFINE j == worker[w]
           q == [j EXCEPT !.pc = "finish"]
<1>1. /\ j \in WorkerState /\ j.pc = "record" /\ j.op \in Operation
      /\ j.outcome \in Terminal
  BY JobFacts DEF JobOK, RecordRecovered
<1>2. events' = events \cup {<<j.op, j.outcome>>}
  BY DEF RecordRecovered
<1>3. EventStep
  BY <1>1, <1>2 DEF EventStep, OperationInv, TypeOK
<1>4. /\ q \in WorkerState /\ q.pc = "finish" /\ q.op = j.op
      /\ q.outcome = j.outcome
  BY <1>1 DEF WorkerState
<1>5. worker' = [worker EXCEPT ![w] = q]
  BY DEF RecordRecovered
<1> HIDE DEF q
<1>6. JobOK(q, events')
  BY <1>1, <1>2, <1>4 DEF JobOK
<1>7. JobStep
  BY <1>4, <1>5, <1>6 DEF JobStep
<1> QED
  BY <1>3, <1>7, Untouched DEF RecordRecovered, StepOK

LEMMA FinishRecoveredStep ==
    ASSUME OperationInv, NEW w \in Worker, FinishRecovered(w)
    PROVE  StepOK
<1> DEFINE j == worker[w]
           o == j.op
           d == [op[o] EXCEPT !.status = j.outcome, !.terminalEvent = j.outcome,
                              !.expires = TRUE]
<1>1. o \in Operation /\ j.outcome \in Terminal /\ <<o, j.outcome>> \in events
  BY JobFacts DEF JobOK, FinishRecovered
<1>2. EventStep
  BY Untouched DEF FinishRecovered
<1>3. JobStep
  BY <1>1, LeavingJob DEF FinishRecovered, JobStep
<1>4. DocumentStep
  <2>1. CASE op' = op
    BY <2>1, Untouched
  <2>2. CASE op' # op
    <3>1. op[o].status = "finalizing" /\ op' = [op EXCEPT ![o] = d]
      BY <2>2 DEF FinishRecovered
    <3>2. op[o] \in OperationDoc
      BY <1>1 DEF OperationInv, TypeOK
    <3>3. /\ d \in OperationDoc /\ d.status = j.outcome
          /\ d.terminalEvent = j.outcome
      BY <1>1, <3>2 DEF OperationDoc, OperationStatus
    <3> HIDE DEF d
    <3> QED
      BY <1>1, <1>2, <3>1, <3>3, FinishedDoc
  <2> QED
    BY <2>1, <2>2
<1> QED
  BY <1>3, <1>4, Untouched DEF FinishRecovered, StepOK

\* A lease that is given up or runs out.
LEMMA LeaseGivenUp ==
    ASSUME OperationInv, EventStep, NEW o \in Operation,
           op' = [op EXCEPT ![o].leased = FALSE]
    PROVE  DocumentStep
<1> DEFINE d == [op[o] EXCEPT !.leased = FALSE]
<1>1. op[o] \in OperationDoc /\ AuditedDoc(o, op[o], events) /\ events \subseteq events'
  BY DEF OperationInv, TypeOK, EventStep
<1>2. op' = [op EXCEPT ![o] = d]
  OBVIOUS
<1>3. /\ d \in OperationDoc
      /\ d.status = op[o].status
      /\ d.terminalEvent = op[o].terminalEvent
      /\ d.result = op[o].result
      /\ d.expires = op[o].expires
  BY <1>1 DEF OperationDoc
<1> HIDE DEF d
<1>4. LegalStep(op[o], d) /\ AuditedDoc(o, d, events')
  BY <1>1, <1>3, KeptStep
<1> QED
  BY <1>2, <1>3, <1>4 DEF DocumentStep

LEMMA ReleaseLeaseStep ==
    ASSUME OperationInv, NEW w \in Worker, ReleaseLease(w)
    PROVE  StepOK
<1>1. worker[w].op \in Operation
  BY JobFacts DEF JobOK, ReleaseLease
<1>2. EventStep
  BY Untouched DEF ReleaseLease
<1>3. JobStep
  BY IdleJob DEF ReleaseLease, JobStep
<1>4. \/ op' = op
      \/ op' = [op EXCEPT ![worker[w].op].leased = FALSE]
  BY DEF ReleaseLease
<1>5. DocumentStep
  BY <1>1, <1>2, <1>4, LeaseGivenUp, Untouched
<1> QED
  BY <1>3, <1>5, Untouched DEF ReleaseLease, StepOK

LEMMA FailWorkerStep ==
    ASSUME OperationInv, NEW w \in Worker, FailWorker(w)
    PROVE  StepOK
<1>1. worker[w].op \in Operation
  BY JobFacts DEF JobOK, FailWorker
<1>2. /\ Leaving(worker[w].op) \in WorkerState
      /\ JobOK(Leaving(worker[w].op), events')
  BY <1>1, LeavingJob
<1>3. JobStep
  BY <1>2, IdleJob DEF FailWorker, JobStep
<1>4. FaultStep
  BY FaultCounted DEF FailWorker
<1> QED
  BY <1>3, <1>4, Untouched DEF FailWorker, StepOK

LEMMA ExpireLeaseStep ==
    ASSUME OperationInv, NEW o \in Operation, ExpireLease(o)
    PROVE  StepOK
<1>1. EventStep
  BY Untouched DEF ExpireLease
<1>2. DocumentStep
  BY <1>1, LeaseGivenUp DEF ExpireLease
<1>3. FaultStep
  <2>1. CASE faults' = faults
    BY <2>1, Untouched
  <2>2. CASE faults' # faults
    BY <2>2, FaultCounted DEF ExpireLease
  <2> QED
    BY <2>1, <2>2
<1> QED
  BY <1>2, <1>3, Untouched DEF ExpireLease, StepOK

-----------------------------------------------------------------------------
(* The invariant and the theorems *)

LEMMA InitOK == Init => OperationInv
<1> SUFFICES ASSUME Init PROVE OperationInv
  OBVIOUS
<1>1. PICK T \in SUBSET (Identifier \ {Original}) :
         reservation = [i \in Identifier |->
            CASE i = Original ->
                   [Unreserved EXCEPT !.status = "conflict",
                       !.claimants = Claimant, !.reviewable = TRUE]
              [] i \in T -> [Unreserved EXCEPT !.status = "active",
                                               !.subject = Outsider]
              [] OTHER -> Unreserved]
  BY DEF Init
<1>2. reservation \in [Identifier -> Reservation]
  <2>1. /\ Unreserved \in Reservation
        /\ [Unreserved EXCEPT !.status = "conflict", !.claimants = Claimant,
                              !.reviewable = TRUE] \in Reservation
        /\ [Unreserved EXCEPT !.status = "active", !.subject = Outsider]
              \in Reservation
    BY DEF Unreserved, Reservation, ReservationStatus
  <2> HIDE DEF Unreserved
  <2> QED
    BY <1>1, <2>1
<1>3. \A i \in Identifier : OthersOK(i, reservation[i])
  <2> SUFFICES ASSUME NEW i \in Identifier PROVE OthersOK(i, reservation[i])
    OBVIOUS
  <2>1. CASE i = Original
    <3>1. reservation[i].subject = None
      BY <1>1, <2>1 DEF Unreserved
    <3> QED
      BY <3>1, NoneAssumption DEF OthersOK
  <2>2. CASE i \in T
    <3>1. reservation[i] = [Unreserved EXCEPT !.status = "active",
                                              !.subject = Outsider]
      BY <1>1, <2>2
    <3> QED
      BY <2>2, <3>1 DEF OthersOK, Unreserved
  <2>3. CASE i # Original /\ i \notin T
    <3>1. reservation[i] = Unreserved
      BY <1>1, <2>3
    <3> QED
      BY <3>1, NoneAssumption DEF OthersOK, Unreserved
  <2> QED
    BY <2>1, <2>2, <2>3
<1>4. \A o \in Operation : op[o] = NoOperation /\ NoOperation \in OperationDoc
  BY DEF Init, NoOperation, OperationDoc, OperationStatus
<1>5. \A o \in Operation : AuditedDoc(o, op[o], events)
  BY <1>4 DEF AuditedDoc, NoOperation, Terminal
<1>6. \A e \in Executor : executor[e] \in ExecutorState /\ RequestOK(executor[e], events)
  BY IdleRequest DEF Init
<1>7. \A w \in Worker : worker[w] \in WorkerState /\ JobOK(worker[w], events)
  BY IdleJob DEF Init
<1>8. TypeOK
  BY <1>2, <1>4, <1>6, <1>7, ManifestAssumption, BoundsAssumption
     DEF Init, TypeOK
<1> QED
  BY <1>3, <1>5, <1>6, <1>7, <1>8 DEF OperationInv

LEMMA NextOK ==
    ASSUME OperationInv, [Next]_vars
    PROVE  StepOK
<1>1. CASE \E e \in Executor :
              \/ \E o \in Operation : \E m \in Manifest[o] : ResolveConflict(e, o, m)
              \/ ExecuteInTransaction(e)
              \/ Step(e)
  <2>1. PICK e \in Executor :
           \/ \E o \in Operation : \E m \in Manifest[o] : ResolveConflict(e, o, m)
           \/ ExecuteInTransaction(e)
           \/ Step(e)
    BY <1>1
  <2> QED
    BY <2>1, ResolveConflictStep, ExecuteInTransactionStep, ExecuteStep,
       ExecuteSagaStep, StartStep, ReserveAssignmentStep,
       AttachReservationReferenceStep, ApplyStep, ReleaseOriginalConflictStep,
       MarkAssignmentAppliedStep, FinalizeReservationStep, BeginFinalizingStep,
       RecordTerminalStep, FinishTerminalStep, ReadPendingAssignmentsStep,
       SynchronizeAppliedAssignmentStep,
       BeginCompensatingStep, CompensateStep, ReopenConflictStep,
       RestoreReservationStep, MarkCompensatedStep
       DEF Step
<1>2. CASE \E e \in Executor : FailCall(e) \/ FailSynchronization(e) \/ FailRequest(e)
  BY <1>2, FailedRequestStep
<1>3. CASE \E w \in Worker : Pass(w) \/ FailWorker(w)
  BY <1>3, ClaimStep, AttachMissingReferencesStep, RecoverApplyingStep,
     RecoverCompensatingStep, MarkRecoveredStep, MoveStep, RecordRecoveredStep,
     FinishRecoveredStep, ReleaseLeaseStep, FailWorkerStep
     DEF Pass
<1>4. CASE \E o \in Operation : ExpireLease(o)
  BY <1>4, ExpireLeaseStep
<1>5. CASE UNCHANGED vars
  BY <1>5, Untouched DEF vars, StepOK
<1> QED
  BY <1>1, <1>2, <1>3, <1>4, <1>5 DEF Next

LEMMA OperationInvariant == Spec => []OperationInv
<1>1. Init => OperationInv
  BY InitOK
<1>2. OperationInv /\ [Next]_vars => OperationInv'
  BY NextOK, StepKept
<1> QED
  BY <1>1, <1>2, PTL DEF Spec

\* Every document, request and job keeps its type.
THEOREM TypeCorrect == Spec => []TypeOK
<1>1. OperationInv => TypeOK
  BY DEF OperationInv
<1> QED
  BY <1>1, OperationInvariant, PTL

\* A terminal operation has its security event on record and only a terminal
\* one may expire, with any number of requests and jobs finishing it, dying or
\* losing their lease in between (finishTerminal and finalize).
THEOREM TerminalOperationsAudited == Spec => []AuditedBeforeTerminal
<1>1. OperationInv => AuditedBeforeTerminal
  BY DEF OperationInv, AuditedBeforeTerminal, AuditedDoc
<1> QED
  BY <1>1, OperationInvariant, PTL

\* Operations only take allowed transitions and a terminal one is final, also
\* for the writes that do not call validateTransition.
THEOREM OperationsFollowLifecycle == Spec => StatusLifecycle
<1>1. OperationInv /\ [Next]_vars =>
         \A o \in Operation :
            /\ op'[o].status # op[o].status =>
                  \/ op[o].status = "absent" /\ op'[o].status \in {"pending", "completed"}
                  \/ Allowed(op[o].status, op'[o].status)
            /\ op[o].status \in Terminal =>
                  /\ op'[o].terminalEvent = op[o].terminalEvent
                  /\ op'[o].result = op[o].result
  <2> SUFFICES ASSUME OperationInv, [Next]_vars, NEW o \in Operation
               PROVE  LegalStep(op[o], op'[o])
    BY DEF LegalStep
  <2>1. DocumentStep /\ op \in [Operation -> OperationDoc]
    BY NextOK DEF StepOK, OperationInv, TypeOK
  <2>2. CASE op'[o] = op[o]
    BY <2>2 DEF LegalStep
  <2>3. CASE op'[o] # op[o]
    BY <2>1, <2>3 DEF DocumentStep
  <2> QED
    BY <2>2, <2>3
<1> QED
  BY <1>1, OperationInvariant, PTL DEF Spec, StatusLifecycle

\* A reservation of somebody outside the conflict stays as it is: neither the
\* saga nor the transaction, nor a compensation or a recovery, takes it over.
THEOREM OthersUntouched == Spec => OthersKeepTheirs
<1>1. OperationInv /\ [Next]_vars =>
         \A i \in Identifier :
            reservation[i].subject = Outsider => reservation'[i] = reservation[i]
  BY NextOK DEF StepOK, ReservationStep
<1> QED
  BY <1>1, OperationInvariant, PTL DEF Spec, OthersKeepTheirs

-----------------------------------------------------------------------------
(* Key versions and the life of the reconciler *)

ProcessState ==
    [ stage : {"down", "running", "draining"}, ring : Ring \cup {Unset},
      start : {"none", "check", "stale", "pass"},
      waiters : SUBSET {"bootstrap", "probe"},
      scheduled : BOOLEAN, probe : BOOLEAN ]

RepairState ==
    [ phase : Phase, version : Version \cup {Unset}, large : BOOLEAN,
      lease : Instance \cup {Unset} ]

OperatorState ==
    [ pc : {"idle", "asking", "blocked", "ok"},
      candidate : Version \cup {Unset},
      asked : SUBSET {"repairs", "buckets"}, required : SUBSET Version ]

\* A pass, whatever its list holds.
IsPass(q) ==
    /\ q = [pc |-> q.pc, list |-> q.list, claimed |-> q.claimed]
    /\ q.pc \in {"idle", "query", "next", "work"}

\* The types, but for those of the queue and of the lists taken from it.
RotationShape ==
    /\ repair \in [Repair -> RepairState]
    /\ bucket \subseteq Version
    /\ deployed \in Ring
    /\ process \in [Instance -> ProcessState]
    /\ pass = [i \in Instance |-> pass[i]]
    /\ \A i \in Instance : IsPass(pass[i])
    /\ operator \in OperatorState

\* A process is up on the configuration it has read, and stopping it stops its
\* timers and waits for its pass.
StageInv ==
    \A i \in Instance : LET p == process[i] IN
        /\ p.stage # "down" => p.ring # Unset
        /\ p.stage # "running" => ~p.scheduled /\ ~p.probe
        /\ p.stage = "down" => pass[i].pc = "idle"

\* Nobody signs with a version that the next deployment gives up.
RingInv ==
    \A i \in Instance :
        process[i].ring # Unset => process[i].ring.current \in Configured(deployed)

\* A rotation under way: every process is on the last one, and what the
\* preflight has found, or will find, covers what is in use.
PreflightInv ==
    /\ operator.pc \in {"asking", "ok"} =>
          /\ RolledOut
          /\ operator.candidate \in Version
          /\ operator.candidate # deployed.current
    /\ operator.pc = "asking" =>
          /\ "repairs" \notin operator.asked =>
                RequiredByRepairs \subseteq operator.required \cup {deployed.current}
          /\ "buckets" \notin operator.asked =>
                bucket \subseteq operator.required \cup {deployed.current}
    /\ operator.pc = "ok" =>
          /\ deployed.current \in operator.required
          /\ operator.candidate \notin operator.required
          /\ Cardinality(operator.required) <= MaxPreviousKeys
          /\ RequiredByRepairs \cup bucket
                \subseteq operator.required \cup {operator.candidate}

RotationInv == RotationShape /\ StageInv /\ RingInv /\ PreflightInv /\ KeysRetained

-----------------------------------------------------------------------------
(* Processes *)

\* How a start ends for those that wait for it.
LEMMA FinishShape ==
    ASSUME NEW p \in ProcessState, NEW s \in BOOLEAN
    PROVE  LET q == Finish(p, s) IN
           /\ q \in ProcessState
           /\ q.stage = p.stage /\ q.ring = p.ring /\ q.scheduled = p.scheduled
           /\ q.probe => p.probe \/ p.stage = "running"
BY DEF Finish, ProcessState

\* Who asks shares the promise that there is.
LEMMA AskShape ==
    ASSUME NEW p \in ProcessState, NEW c \in {"bootstrap", "probe"}
    PROVE  LET q == AskToStart(p, c) IN
           /\ q \in ProcessState
           /\ q.stage = p.stage /\ q.ring = p.ring /\ q.scheduled = p.scheduled
           /\ q.probe => p.probe \/ p.stage = "running"
<1> DEFINE asked == [p EXCEPT !.waiters = {c}]
<1>1. asked \in ProcessState
  BY DEF ProcessState
<1>2. /\ asked.stage = p.stage /\ asked.ring = p.ring
      /\ asked.scheduled = p.scheduled /\ asked.probe = p.probe
  BY DEF ProcessState
<1>3. CASE p.start = "none" /\ p.scheduled
  <2>1. AskToStart(p, c) = Finish(asked, TRUE)
    BY <1>3 DEF AskToStart
  <2> HIDE DEF asked
  <2> QED BY <1>1, <1>2, <2>1, FinishShape
<1>4. CASE ~(p.start = "none" /\ p.scheduled)
  BY <1>4 DEF AskToStart, ProcessState
<1> QED BY <1>3, <1>4

\* A process goes on to state q, and its pass to w.
LEMMA ProcessMoves ==
    ASSUME RotationInv, NEW i \in Instance, NEW q \in ProcessState, NEW w,
           process' = [process EXCEPT ![i] = q],
           pass' = [pass EXCEPT ![i] = w], IsPass(w),
           q.ring \in {process[i].ring, deployed, Unset},
           q.stage # "down" => q.ring # Unset,
           q.stage # "running" => ~q.scheduled /\ ~q.probe,
           q.stage = "down" => w.pc = "idle",
           UNCHANGED <<repair, bucket, deployed, operator>>
    PROVE  RotationInv'
<1>1. process \in [Instance -> ProcessState]
  BY DEF RotationInv, RotationShape
<1>2. /\ process'[i] = q /\ pass'[i] = w
      /\ \A j \in Instance \ {i} : process'[j] = process[j] /\ pass'[j] = pass[j]
  BY <1>1 DEF RotationInv, RotationShape
<1>3. RotationShape'
  <2>1. process' \in [Instance -> ProcessState]
    BY <1>1
  <2>2. pass' = [j \in Instance |-> pass'[j]] /\ \A j \in Instance : IsPass(pass'[j])
    BY <1>2 DEF RotationInv, RotationShape
  <2> QED BY <2>1, <2>2 DEF RotationInv, RotationShape, IsPass
<1>4. StageInv'
  BY <1>2 DEF RotationInv, StageInv
<1>5. RingInv'
  BY <1>2 DEF RotationInv, RingInv, Configured
<1>6. PreflightInv'
  <2>1. RolledOut => RolledOut'
    BY <1>2 DEF RolledOut
  <2>2. RequiredByRepairs' = RequiredByRepairs
    BY DEF RequiredByRepairs
  <2> QED BY <2>1, <2>2 DEF RotationInv, PreflightInv
<1>7. KeysRetained'
  BY DEF RotationInv, KeysRetained, Configured
<1> QED BY <1>3, <1>4, <1>5, <1>6, <1>7 DEF RotationInv

\* ... or its pass alone does.
LEMMA ProcessStays ==
    ASSUME RotationInv, NEW i \in Instance, NEW q \in ProcessState,
           process' = [process EXCEPT ![i] = q], UNCHANGED pass,
           q.ring \in {process[i].ring, deployed, Unset},
           q.stage # "down" => q.ring # Unset,
           q.stage # "running" => ~q.scheduled /\ ~q.probe,
           q.stage = "down" => pass[i].pc = "idle",
           UNCHANGED <<repair, bucket, deployed, operator>>
    PROVE  RotationInv'
<1>1. pass' = [pass EXCEPT ![i] = pass[i]] /\ IsPass(pass[i])
  BY DEF RotationInv, RotationShape
<1> QED BY <1>1, ProcessMoves

LEMMA LifecycleKeepsInv ==
    ASSUME RotationInv, NEW i \in Instance, Lifecycle(i)
    PROVE  RotationInv'
<1> DEFINE p == process[i]
<1>0. /\ p \in ProcessState /\ deployed \in Ring /\ IsPass(pass[i])
      /\ p.stage # "down" => p.ring # Unset
      /\ p.stage # "running" => ~p.scheduled /\ ~p.probe
      /\ p.stage = "down" => pass[i].pc = "idle"
  BY DEF RotationInv, RotationShape, StageInv
<1>db. ASSUME UNCHANGED_DB, UNCHANGED_OPS
       PROVE  UNCHANGED <<repair, bucket, deployed, operator>>
  BY <1>db DEF UNCHANGED_DB, UNCHANGED_OPS
<1> HIDE DEF p
<1>1. CASE StartProcess(i)
  <2> DEFINE d == [Down EXCEPT !.stage = "running", !.ring = deployed]
  <2>1. /\ d \in ProcessState
        /\ d.stage = "running" /\ d.ring = deployed
    BY <1>0 DEF Down, ProcessState
  <2>2. /\ process' = [process EXCEPT ![i] = AskToStart(d, "bootstrap")]
        /\ UNCHANGED pass /\ UNCHANGED_DB /\ UNCHANGED_OPS
    BY <1>1 DEF StartProcess
  <2> DEFINE q == AskToStart(d, "bootstrap")
  <2> HIDE DEF d
  <2>3. q \in ProcessState /\ q.stage = "running" /\ q.ring = deployed
    BY <2>1, AskShape
  <2>4. deployed # Unset
    BY <1>0, UnsetAssumption
  <2> HIDE DEF q
  <2> QED BY <1>db, <2>2, <2>3, <2>4, ProcessStays DEF q
<1>2. CASE BootstrapAgain(i)
  <2> DEFINE d == [p EXCEPT !.stage = "running"]
  <2>1. d \in ProcessState /\ d.stage = "running" /\ d.ring = p.ring
    BY <1>0 DEF ProcessState
  <2>2. /\ process' = [process EXCEPT ![i] = AskToStart(d, "bootstrap")]
        /\ UNCHANGED pass /\ UNCHANGED_DB /\ UNCHANGED_OPS
        /\ p.ring # Unset
    BY <1>2 DEF BootstrapAgain, p
  <2> DEFINE q == AskToStart(d, "bootstrap")
  <2> HIDE DEF d
  <2>3. q \in ProcessState /\ q.stage = "running" /\ q.ring = p.ring
    BY <2>1, AskShape
  <2> HIDE DEF q
  <2> QED BY <1>db, <2>2, <2>3, ProcessStays DEF q, p
<1>3. CASE ReadinessKnown(i)
  <2>0. UNCHANGED_DB /\ UNCHANGED_OPS
    BY <1>3 DEF ReadinessKnown
  <2>1. CASE migration = "recorded" /\ MayStart(p) /\ ~p.scheduled
    <3> DEFINE q == [p EXCEPT !.scheduled = TRUE, !.start = "pass"]
               w == BeginPass(pass[i])
    <3>1. process' = [process EXCEPT ![i] = q] /\ pass' = [pass EXCEPT ![i] = w]
      BY <1>3, <2>1 DEF ReadinessKnown, p
    <3>2. /\ q \in ProcessState /\ q.stage = p.stage /\ q.ring = p.ring
          /\ q.stage = "running" /\ q.ring # Unset
      BY <1>0, <2>1 DEF ProcessState, MayStart
    <3>3. IsPass(w)
      BY <1>0 DEF IsPass, BeginPass
    <3> HIDE DEF q, w
    <3> QED BY <1>db, <2>0, <3>1, <3>2, <3>3, ProcessMoves DEF p
  <2>2. CASE ~(migration = "recorded" /\ MayStart(p) /\ ~p.scheduled)
    <3> DEFINE q == Finish(p, p.scheduled)
    <3>1. process' = [process EXCEPT ![i] = q] /\ UNCHANGED pass
      BY <1>3, <2>2 DEF ReadinessKnown, p
    <3>2. p.scheduled \in BOOLEAN
      BY <1>0 DEF ProcessState
    <3>3. /\ q \in ProcessState /\ q.stage = p.stage /\ q.ring = p.ring
          /\ q.scheduled = p.scheduled
          /\ q.probe => p.probe \/ p.stage = "running"
      BY <1>0, <3>2, FinishShape
    <3> HIDE DEF q
    <3> QED BY <1>0, <1>db, <2>0, <3>1, <3>3, ProcessStays DEF p
  <2> QED BY <2>1, <2>2
<1>4. CASE ReadinessUnknown(i)
  <2> DEFINE q == Finish(p, FALSE)
  <2>1. /\ process' = [process EXCEPT ![i] = q] /\ UNCHANGED pass
        /\ UNCHANGED_DB /\ UNCHANGED_OPS
    BY <1>4 DEF ReadinessUnknown, p
  <2>2. /\ q \in ProcessState /\ q.stage = p.stage /\ q.ring = p.ring
        /\ q.scheduled = p.scheduled
        /\ q.probe => p.probe \/ p.stage = "running"
    BY <1>0, FinishShape
  <2> HIDE DEF q
  <2> QED BY <1>0, <1>db, <2>1, <2>2, ProcessStays DEF p
<1>5. CASE ProbeTick(i)
  <2> DEFINE q == AskToStart(p, "probe")
  <2>1. /\ process' = [process EXCEPT ![i] = q] /\ UNCHANGED pass
        /\ UNCHANGED_DB /\ UNCHANGED_OPS
    BY <1>5 DEF ProbeTick, p
  <2>2. /\ q \in ProcessState /\ q.stage = p.stage /\ q.ring = p.ring
        /\ q.scheduled = p.scheduled
        /\ q.probe => p.probe \/ p.stage = "running"
    BY <1>0, AskShape
  <2> HIDE DEF q
  <2> QED BY <1>0, <1>db, <2>1, <2>2, ProcessStays DEF p
<1>6. CASE ScheduleTick(i)
  <2> DEFINE w == BeginPass(pass[i])
  <2>1. /\ pass' = [pass EXCEPT ![i] = w] /\ UNCHANGED process
        /\ UNCHANGED_DB /\ UNCHANGED_OPS /\ p.scheduled
    BY <1>6 DEF ScheduleTick, p
  <2>2. IsPass(w) /\ p.stage = "running"
    BY <1>0, <2>1 DEF IsPass, BeginPass, ProcessState
  <2>3. process' = [process EXCEPT ![i] = p]
    BY <2>1 DEF p, RotationInv, RotationShape
  <2> HIDE DEF w
  <2> QED BY <1>0, <1>db, <2>1, <2>2, <2>3, ProcessMoves DEF p
<1>7. CASE Shutdown(i)
  <2> DEFINE q == Stopped(p)
  <2>1. /\ process' = [process EXCEPT ![i] = q] /\ UNCHANGED pass
        /\ UNCHANGED_DB /\ UNCHANGED_OPS /\ p.stage = "running"
    BY <1>7 DEF Shutdown, Running, p
  <2>2. /\ q \in ProcessState /\ q.stage = "draining" /\ q.ring = p.ring
        /\ ~q.scheduled /\ ~q.probe
    BY <1>0 DEF Stopped, ProcessState
  <2> HIDE DEF q
  <2> QED BY <1>0, <1>db, <2>1, <2>2, ProcessStays DEF p
<1>8. CASE Drained(i)
  <2> DEFINE q == [p EXCEPT !.stage = "down"]
  <2>1. /\ process' = [process EXCEPT ![i] = q] /\ UNCHANGED pass
        /\ UNCHANGED_DB /\ UNCHANGED_OPS /\ p.stage = "draining"
        /\ pass[i].pc = "idle"
    BY <1>8 DEF Drained, p
  <2>2. /\ q \in ProcessState /\ q.stage = "down" /\ q.ring = p.ring
        /\ q.scheduled = p.scheduled /\ q.probe = p.probe
    BY <1>0 DEF ProcessState
  <2> HIDE DEF q
  <2> QED BY <1>0, <1>db, <2>1, <2>2, ProcessStays DEF p
<1>9. CASE Crash(i)
  <2>1. /\ process' = [process EXCEPT ![i] = Down]
        /\ pass' = [pass EXCEPT ![i] = NoPass]
        /\ UNCHANGED_DB /\ UNCHANGED_OPS
    BY <1>9 DEF Crash
  <2>2. /\ Down \in ProcessState /\ Down.stage = "down" /\ Down.ring = Unset
        /\ ~Down.scheduled /\ ~Down.probe
        /\ IsPass(NoPass) /\ NoPass.pc = "idle"
    BY DEF Down, ProcessState, NoPass, IsPass
  <2>3. UNCHANGED <<repair, bucket, deployed, operator>>
    BY <1>db, <2>1
  <2> QED BY <2>1, <2>2, <2>3, ProcessMoves
<1> QED
  BY <1>1, <1>2, <1>3, <1>4, <1>5, <1>6, <1>7, <1>8, <1>9 DEF Lifecycle

-----------------------------------------------------------------------------
(* Repairs and buckets *)

\* What depends on the key version of a repair.
Depends(r) == repair[r].phase \in {"incomplete", "cleanup"}

\* No pass begins.
PassesGoOn ==
    /\ pass' = [i \in Instance |-> pass'[i]]
    /\ \A i \in Instance :
          IsPass(pass'[i]) /\ (pass[i].pc = "idle" => pass'[i].pc = "idle")

\* The version a running process signs with is configured; when a rotation is
\* under way it is the deployed one.
LEMMA InUse ==
    ASSUME RotationInv, NEW i \in Instance, Running(i)
    PROVE  /\ process[i].ring.current \in Configured(deployed)
           /\ operator.pc \in {"asking", "ok"} =>
                process[i].ring.current = deployed.current
BY DEF RotationInv, StageInv, RingInv, PreflightInv, RolledOut, Running

\* Repairs and buckets change, and the one version that comes into use is the
\* current one of a running process.
LEMMA StoreMoves ==
    ASSUME RotationInv, NEW v \in Configured(deployed),
           operator.pc \in {"asking", "ok"} => v = deployed.current,
           repair' \in [Repair -> RepairState],
           bucket' \subseteq bucket \cup {v},
           \A r \in Repair : Depends(r)' =>
             \/ repair'[r].version = v
             \/ Depends(r) /\ repair'[r].version = repair[r].version,
           PassesGoOn, UNCHANGED <<process, deployed, operator>>
    PROVE  RotationInv'
<1>1. /\ deployed \in Ring /\ bucket \subseteq Version
      /\ Configured(deployed) \subseteq Version
      /\ deployed.current \in Configured(deployed)
  BY DEF RotationInv, RotationShape, Ring, Configured
<1>2. RotationShape'
  BY <1>1 DEF RotationInv, RotationShape, PassesGoOn, IsPass
<1>3. StageInv'
  BY DEF RotationInv, StageInv, PassesGoOn
<1>4. RingInv'
  BY DEF RotationInv, RingInv, Configured
<1>5. RequiredByRepairs' \subseteq RequiredByRepairs \cup {v}
  BY DEF RequiredByRepairs, Depends
<1>6. PreflightInv'
  <2>1. RolledOut => RolledOut'
    BY DEF RolledOut
  <2> QED BY <1>5, <2>1 DEF RotationInv, PreflightInv
<1>7. KeysRetained'
  <2>1. \A r \in Repair : /\ Depends(r)' <=> repair'[r].phase \notin {"absent", "closed"}
                          /\ Depends(r) <=> repair[r].phase \notin {"absent", "closed"}
    BY DEF Depends, RotationInv, RotationShape, RepairState, Phase
  <2>2. \A r \in Repair : Depends(r) => repair[r].version \in Configured(deployed)
    BY <2>1 DEF RotationInv, KeysRetained
  <2>3. bucket \subseteq Configured(deployed)
    BY DEF RotationInv, KeysRetained
  <2>4. Configured(deployed)' = Configured(deployed)
    BY DEF Configured
  <2> QED BY <2>1, <2>2, <2>3, <2>4 DEF KeysRetained
<1> QED BY <1>2, <1>3, <1>4, <1>6, <1>7 DEF RotationInv

\* ... or no version comes into use at all.
LEMMA StoreShrinks ==
    ASSUME RotationInv, repair' \in [Repair -> RepairState], bucket' \subseteq bucket,
           \A r \in Repair : Depends(r)' =>
             Depends(r) /\ repair'[r].version = repair[r].version,
           PassesGoOn, UNCHANGED <<process, deployed, operator>>
    PROVE  RotationInv'
<1>1. deployed.current \in Configured(deployed)
  BY DEF Configured
<1> QED BY <1>1, StoreMoves

\* One repair becomes q.
LEMMA OneRepair ==
    ASSUME RotationInv, NEW r \in Repair, NEW q \in RepairState,
           repair' = [repair EXCEPT ![r] = q], bucket' = bucket,
           q.phase \in {"incomplete", "cleanup"} =>
             Depends(r) /\ q.version = repair[r].version,
           PassesGoOn, UNCHANGED <<process, deployed, operator>>
    PROVE  RotationInv'
<1>1. repair \in [Repair -> RepairState]
  BY DEF RotationInv, RotationShape
<1>2. repair' \in [Repair -> RepairState]
  BY <1>1
<1>3. \A s \in Repair : Depends(s)' =>
        Depends(s) /\ repair'[s].version = repair[s].version
  BY <1>1 DEF Depends
<1> QED BY <1>2, <1>3, StoreShrinks

\* Passes that nobody touches.
LEMMA SamePasses ==
    ASSUME RotationInv, UNCHANGED pass
    PROVE  PassesGoOn
BY DEF RotationInv, RotationShape, PassesGoOn, IsPass

LEMMA OnePass ==
    ASSUME RotationInv, NEW i \in Instance, NEW w, IsPass(w),
           pass' = [pass EXCEPT ![i] = w],
           pass[i].pc = "idle" => w.pc = "idle"
    PROVE  PassesGoOn
<1>1. /\ pass = [j \in Instance |-> pass[j]]
      /\ \A j \in Instance : IsPass(pass[j])
  BY DEF RotationInv, RotationShape
<1>2. pass' = [j \in Instance |-> IF j = i THEN w ELSE pass[j]]
  BY <1>1
<1>3. \A j \in Instance : pass'[j] = IF j = i THEN w ELSE pass[j]
  BY <1>2
<1>4. pass' = [j \in Instance |-> pass'[j]]
  BY <1>2, <1>3
<1>5. \A j \in Instance : IsPass(pass'[j]) /\ (pass[j].pc = "idle" => pass'[j].pc = "idle")
  BY <1>1, <1>3 DEF IsPass
<1> QED BY <1>4, <1>5 DEF PassesGoOn

\* A pass without a repair in hand.
LEMMA PassAlone ==
    ASSUME RotationInv, PassesGoOn,
           UNCHANGED <<repair, bucket, process, deployed, operator>>
    PROVE  RotationInv'
<1>1. /\ repair' \in [Repair -> RepairState] /\ bucket' \subseteq bucket
      /\ \A r \in Repair : Depends(r)' =>
           Depends(r) /\ repair'[r].version = repair[r].version
  BY DEF RotationInv, RotationShape, Depends
<1> QED BY <1>1, StoreShrinks

\* A pass is updated field by field.
LEMMA PassUpdates ==
    ASSUME NEW q, IsPass(q), NEW a \in {"idle", "query", "next", "work"},
           NEW b, NEW c
    PROVE  /\ IsPass([q EXCEPT !.pc = a, !.list = b])
           /\ IsPass([q EXCEPT !.list = b])
           /\ IsPass([q EXCEPT !.pc = a, !.claimed = c])
<1> DEFINE P == {"idle", "query", "next", "work"}
           L == {q.list, b}
           C == {q.claimed, c}
           Typed == [pc : P, list : L, claimed : C]
<1>1. q \in Typed
  BY DEF IsPass
<1>2. b \in L /\ c \in C /\ a \in P
  OBVIOUS
<1>3. \A w \in Typed : IsPass(w)
  BY DEF IsPass
<1> HIDE DEF P, L, C
<1>4. /\ [q EXCEPT !.pc = a, !.list = b] \in Typed
      /\ [q EXCEPT !.list = b] \in Typed
      /\ [q EXCEPT !.pc = a, !.claimed = c] \in Typed
  BY <1>1, <1>2
<1> QED BY <1>3, <1>4

LEMMA PassStepKeepsInv ==
    ASSUME RotationInv, NEW i \in Instance, PassStep(i)
    PROVE  RotationInv'
<1>0. /\ process \in [Instance -> ProcessState] /\ process[i] \in ProcessState
      /\ repair \in [Repair -> RepairState] /\ IsPass(pass[i])
  BY DEF RotationInv, RotationShape
<1>i. /\ process[i].stage # "down" => process[i].ring # Unset
      /\ process[i].stage # "running" => ~process[i].scheduled /\ ~process[i].probe
  BY DEF RotationInv, StageInv
<1>n. IsPass(NoPass) /\ NoPass.pc = "idle"
  BY DEF IsPass, NoPass
<1>e. ASSUME EndPass(i), UNCHANGED <<repair, bucket, deployed, operator>>
      PROVE  RotationInv'
  <2> DEFINE q == IF process[i].start = "pass" THEN Finish(process[i], TRUE)
                                              ELSE process[i]
  <2>1. /\ pass' = [pass EXCEPT ![i] = NoPass]
        /\ process' = [process EXCEPT ![i] = q]
    BY <1>e DEF EndPass
  <2>2. /\ q \in ProcessState /\ q.stage = process[i].stage
        /\ q.ring = process[i].ring /\ q.scheduled = process[i].scheduled
        /\ q.probe => process[i].probe \/ process[i].stage = "running"
    BY <1>0, FinishShape
  <2> HIDE DEF q
  <2> QED BY <1>e, <1>i, <1>n, <2>1, <2>2, ProcessMoves
<1>1. CASE QueryCandidates(i)
  <2>1. /\ pass[i].pc = "query" /\ UNCHANGED <<repair, bucket, deployed, operator, process>>
    BY <1>1 DEF QueryCandidates, UNCHANGED_DB, UNCHANGED_OPS
  <2>2. PICK taken : pass' = [pass EXCEPT ![i] = [@ EXCEPT !.pc = "next", !.list = taken]]
    BY <1>1, Zenon DEF QueryCandidates
  <2> DEFINE w == [pass[i] EXCEPT !.pc = "next", !.list = taken]
  <2>3. pass' = [pass EXCEPT ![i] = w]
    BY <2>2
  <2>4. IsPass(w)
    BY <1>0, PassUpdates
  <2> HIDE DEF w
  <2>5. PassesGoOn
    BY <2>1, <2>3, <2>4, OnePass
  <2> QED BY <2>1, <2>5, PassAlone
<1>2. CASE QueryFails(i)
  BY <1>2, <1>e DEF QueryFails, UNCHANGED_DB, UNCHANGED_OPS
<1>3. CASE PassIsOver(i)
  BY <1>3, <1>e DEF PassIsOver, UNCHANGED_DB, UNCHANGED_OPS
<1>4. CASE TakeCandidate(i)
  <2> DEFINE r == Head(pass[i].list)
  <2>1. pass[i].pc = "next" /\ UNCHANGED <<bucket, deployed, operator, process>>
    BY <1>4 DEF TakeCandidate, UNCHANGED_OPS
  <2>2. CASE RepairKeyAvailable(i, r) /\ Reconcilable(r)
    <3>a. repair' = [repair EXCEPT ![r].lease = i]
      BY <1>4, <2>2, Zenon DEF TakeCandidate
    <3>b. PICK count : pass' = [pass EXCEPT ![i] =
                                  [@ EXCEPT !.pc = "work", !.claimed = count]]
      BY <1>4, <2>2, Zenon DEF TakeCandidate
    <3> DEFINE w == [pass[i] EXCEPT !.pc = "work", !.claimed = count]
    <3>1. /\ repair' = [repair EXCEPT ![r].lease = i]
          /\ pass' = [pass EXCEPT ![i] = w]
      BY <3>a, <3>b
    <3>2. IsPass(w)
      BY <1>0, PassUpdates
    <3>3. Reconcilable(r)
      BY <2>2
    <3> HIDE DEF w, r
    <3>4. PassesGoOn
      BY <2>1, <3>1, <3>2, OnePass
    <3>5. CASE r \in Repair
      <4> DEFINE q == [repair[r] EXCEPT !.lease = i]
      <4>1. /\ q \in RepairState /\ q.phase = repair[r].phase
            /\ q.version = repair[r].version
        BY <1>0, <3>5 DEF RepairState
      <4>2. repair' = [repair EXCEPT ![r] = q]
        BY <3>1
      <4>3. Depends(r)
        BY <3>3 DEF Reconcilable, Depends
      <4> HIDE DEF q
      <4> QED BY <2>1, <3>4, <3>5, <4>1, <4>2, <4>3, OneRepair
    <3>6. CASE r \notin Repair
      <4>1. repair' = repair
        BY <1>0, <3>1, <3>6
      <4> QED BY <2>1, <3>4, <4>1, PassAlone
    <3> QED BY <3>5, <3>6
  <2>3. CASE ~(RepairKeyAvailable(i, r) /\ Reconcilable(r))
    <3> DEFINE w == [pass[i] EXCEPT !.list = Tail(@)]
    <3>1. /\ UNCHANGED repair
          /\ pass' = [pass EXCEPT ![i] = w]
      BY <1>4, <2>3 DEF TakeCandidate
    <3>2. IsPass(w)
      BY <1>0, PassUpdates
    <3> HIDE DEF w, r
    <3>4. PassesGoOn
      BY <2>1, <3>1, <3>2, OnePass
    <3> QED BY <2>1, <3>1, <3>4, PassAlone
  <2> QED BY <2>2, <2>3
<1>5. CASE Process(i)
  <2> DEFINE r == Head(pass[i].list)
  <2>a. pass[i].pc = "work" /\ UNCHANGED <<bucket, deployed, operator, process>>
    BY <1>5 DEF Process, UNCHANGED_OPS
  <2>b. PICK rest : pass' = [pass EXCEPT ![i] =
                               [@ EXCEPT !.pc = "next", !.list = rest]]
    BY <1>5, Zenon DEF Process
  <2> DEFINE w == [pass[i] EXCEPT !.pc = "next", !.list = rest]
  <2>1. /\ pass[i].pc = "work" /\ UNCHANGED <<bucket, deployed, operator, process>>
        /\ pass' = [pass EXCEPT ![i] = w]
    BY <2>a, <2>b
  <2>2. IsPass(w)
    BY <1>0, PassUpdates
  <2>c. PICK phase \in {repair[r].phase, NextPhase(r)} :
          repair' = [repair EXCEPT ![r] =
             [repair[r] EXCEPT !.phase = phase,
                               !.lease = IF repair[r].lease = i THEN Unset
                                         ELSE repair[r].lease]]
    BY <1>5, Zenon DEF Process
  <2> HIDE DEF w, r
  <2>4. PassesGoOn
    BY <2>1, <2>2, OnePass
  <2>5. CASE r \in Repair
    <3>1. /\ phase \in Phase
          /\ phase \in {"incomplete", "cleanup"} => Depends(r)
      BY <1>0, <2>c, <2>5 DEF NextPhase, RepairState, Phase, Depends
    <3> DEFINE q == [repair[r] EXCEPT !.phase = phase,
                                      !.lease = IF repair[r].lease = i THEN Unset
                                                ELSE repair[r].lease]
    <3>2. repair' = [repair EXCEPT ![r] = q]
      BY <2>c
    <3>3. /\ q \in RepairState /\ q.phase = phase
          /\ q.version = repair[r].version
      BY <1>0, <2>5, <3>1 DEF RepairState
    <3> HIDE DEF q
    <3> QED BY <2>1, <2>4, <2>5, <3>1, <3>2, <3>3, OneRepair
  <2>6. CASE r \notin Repair
    <3>1. repair' = repair
      BY <1>0, <2>c, <2>6
    <3> QED BY <2>1, <2>4, <3>1, PassAlone
  <2> QED BY <2>5, <2>6
<1> QED
  BY <1>1, <1>2, <1>3, <1>4, <1>5 DEF PassStep

\* Requests, operators and time, on repairs and buckets.
LEMMA DryRunKeepsInv ==
    ASSUME RotationInv, NEW i \in Instance, NEW r \in Repair, DryRun(i, r)
    PROVE  RotationInv'
<1> DEFINE v == process[i].ring.current
<1>0. /\ repair \in [Repair -> RepairState] /\ bucket \subseteq Version
      /\ deployed \in Ring
  BY DEF RotationInv, RotationShape
<1>1. /\ v \in Configured(deployed)
      /\ operator.pc \in {"asking", "ok"} => v = deployed.current
  BY InUse DEF DryRun
<1>2. PassesGoOn /\ UNCHANGED <<bucket, process, deployed, operator>>
  BY SamePasses DEF DryRun, UNCHANGED_OPS
<1>3. PICK large \in BOOLEAN :
        repair' = [repair EXCEPT ![r] =
                     [ NoRepair EXCEPT !.phase = "incomplete",
                                       !.version = v, !.large = large ]]
  BY DEF DryRun
<1> HIDE DEF v
<1> DEFINE q == [ NoRepair EXCEPT !.phase = "incomplete",
                                  !.version = v, !.large = large ]
<1>4. v \in Version
  BY <1>0, <1>1 DEF Configured, Ring
<1>5. q \in RepairState /\ q.version = v
  BY <1>4 DEF NoRepair, RepairState, Phase
<1>6. repair' = [repair EXCEPT ![r] = q]
  BY <1>3
<1> HIDE DEF q
<1>7. repair' \in [Repair -> RepairState] /\ bucket' \subseteq bucket \cup {v}
  BY <1>0, <1>2, <1>5, <1>6
<1>8. \A s \in Repair : Depends(s)' =>
        \/ repair'[s].version = v
        \/ Depends(s) /\ repair'[s].version = repair[s].version
  BY <1>0, <1>5, <1>6 DEF Depends
<1> QED BY <1>1, <1>2, <1>7, <1>8, StoreMoves

LEMMA CountAttemptKeepsInv ==
    ASSUME RotationInv, NEW i \in Instance, CountAttempt(i)
    PROVE  RotationInv'
<1> DEFINE v == process[i].ring.current
<1>1. /\ v \in Configured(deployed)
      /\ operator.pc \in {"asking", "ok"} => v = deployed.current
  BY InUse DEF CountAttempt
<1>2. /\ PassesGoOn /\ UNCHANGED <<repair, process, deployed, operator>>
      /\ bucket' = bucket \cup {v}
  BY SamePasses DEF CountAttempt, UNCHANGED_OPS
<1> HIDE DEF v
<1>3. /\ repair' \in [Repair -> RepairState] /\ bucket' \subseteq bucket \cup {v}
      /\ \A s \in Repair : Depends(s)' =>
           \/ repair'[s].version = v
           \/ Depends(s) /\ repair'[s].version = repair[s].version
  BY <1>2 DEF RotationInv, RotationShape, Depends
<1> QED BY <1>1, <1>2, <1>3, StoreMoves

LEMMA RepairEndsKeepsInv ==
    ASSUME RotationInv, NEW r \in Repair,
           (\E i \in Instance : FinishRepair(i, r)) \/ LoseLease(r) \/ Forget(r)
    PROVE  RotationInv'
<1>0. repair \in [Repair -> RepairState]
  BY DEF RotationInv, RotationShape
<1>1. PassesGoOn /\ UNCHANGED <<bucket, process, deployed, operator>>
  BY SamePasses DEF FinishRepair, LoseLease, Forget, UNCHANGED_OPS
<1>2. CASE \E i \in Instance : FinishRepair(i, r)
  <2> DEFINE q == [repair[r] EXCEPT !.phase = "cleanup"]
  <2>1. repair' = [repair EXCEPT ![r] = q] /\ Depends(r)
    BY <1>2 DEF FinishRepair, Depends
  <2>2. q \in RepairState /\ q.version = repair[r].version
    BY <1>0 DEF RepairState, Phase
  <2> HIDE DEF q
  <2> QED BY <1>1, <2>1, <2>2, OneRepair
<1>3. CASE LoseLease(r)
  <2> DEFINE q == [repair[r] EXCEPT !.lease = Unset]
  <2>1. repair' = [repair EXCEPT ![r] = q]
    BY <1>3 DEF LoseLease
  <2>2. q \in RepairState /\ q.version = repair[r].version /\ q.phase = repair[r].phase
    BY <1>0 DEF RepairState
  <2>3. q.phase \in {"incomplete", "cleanup"} => Depends(r)
    BY <2>2 DEF Depends
  <2> HIDE DEF q
  <2> QED BY <1>1, <2>1, <2>2, <2>3, OneRepair
<1>4. CASE Forget(r)
  <2>1. repair' = [repair EXCEPT ![r] = NoRepair]
    BY <1>4 DEF Forget
  <2>2. NoRepair \in RepairState /\ NoRepair.phase = "absent"
    BY DEF NoRepair, RepairState, Phase
  <2> QED BY <1>1, <2>1, <2>2, OneRepair
<1> QED BY <1>2, <1>3, <1>4

LEMMA ExpireBucketsKeepsInv ==
    ASSUME RotationInv, NEW v \in Version, ExpireBuckets(v)
    PROVE  RotationInv'
<1>1. PassesGoOn /\ UNCHANGED <<repair, process, deployed, operator>>
  BY SamePasses DEF ExpireBuckets, UNCHANGED_OPS
<1>2. /\ repair' \in [Repair -> RepairState] /\ bucket' \subseteq bucket
      /\ \A r \in Repair : Depends(r)' =>
           Depends(r) /\ repair'[r].version = repair[r].version
  BY <1>1 DEF ExpireBuckets, RotationInv, RotationShape, Depends
<1> QED BY <1>1, <1>2, StoreShrinks

LEMMA MigrateKeepsInv ==
    ASSUME RotationInv, Migrate
    PROVE  RotationInv'
<1>1. PassesGoOn /\ UNCHANGED <<repair, bucket, process, deployed, operator>>
  BY SamePasses DEF Migrate, UNCHANGED_OPS
<1> QED BY <1>1, PassAlone

-----------------------------------------------------------------------------
(* The rotation *)

\* Only the operator goes on.
LEMMA OperatorMoves ==
    ASSUME RotationInv, operator' \in OperatorState, PreflightInv',
           UNCHANGED <<repair, bucket, process, pass, deployed>>
    PROVE  RotationInv'
<1>1. RotationShape'
  BY DEF RotationInv, RotationShape, IsPass
<1>2. StageInv' /\ RingInv' /\ KeysRetained'
  BY DEF RotationInv, StageInv, RingInv, KeysRetained, Configured
<1> QED BY <1>1, <1>2 DEF RotationInv

LEMMA RotationKeepsInv ==
    ASSUME RotationInv, Rotation
    PROVE  RotationInv'
<1>0. /\ operator \in OperatorState /\ bucket \subseteq Version /\ deployed \in Ring
      /\ repair \in [Repair -> RepairState] /\ PreflightInv
  BY DEF RotationInv, RotationShape
<1>r. /\ RequiredByRepairs \subseteq Version \cup {Unset}
      /\ RequiredByRepairs \subseteq Configured(deployed)
      /\ Configured(deployed) \subseteq Version
  BY <1>0 DEF RequiredByRepairs, RepairState, RotationInv, KeysRetained, Ring, Configured
<1>1. ASSUME NEW c \in Version, AskPreflight(c)
      PROVE  RotationInv'
  <2>1. /\ operator' = [NoRotation EXCEPT !.pc = "asking", !.candidate = c,
                                          !.asked = {"repairs", "buckets"}]
        /\ c # deployed.current /\ RolledOut
        /\ UNCHANGED <<repair, bucket, process, pass, deployed>>
    BY <1>1 DEF AskPreflight, UNCHANGED_DB
  <2>2. /\ operator' \in OperatorState
        /\ operator'.pc = "asking" /\ operator'.candidate = c
        /\ operator'.asked = {"repairs", "buckets"}
    BY <2>1 DEF NoRotation, OperatorState
  <2>3. PreflightInv'
    BY <2>1, <2>2 DEF PreflightInv, RolledOut
  <2> QED BY <2>1, <2>2, <2>3, OperatorMoves
<1>2. CASE PreflightFails
  <2>1. /\ operator' = [NoRotation EXCEPT !.pc = "blocked",
                                          !.candidate = operator.candidate]
        /\ UNCHANGED <<repair, bucket, process, pass, deployed>>
    BY <1>2 DEF PreflightFails, UNCHANGED_DB
  <2>2. operator' \in OperatorState /\ operator'.pc = "blocked"
    BY <1>0, <2>1 DEF NoRotation, OperatorState
  <2>3. PreflightInv'
    BY <2>2 DEF PreflightInv
  <2> QED BY <2>1, <2>2, <2>3, OperatorMoves
<1>a. ASSUME NEW query \in {"repairs", "buckets"}, NEW found \in SUBSET Version,
             Answered(query, found),
             query = "repairs" => found = RequiredByRepairs,
             query = "buckets" => found = bucket
      PROVE  RotationInv'
  <2> DEFINE required == operator.required \cup found
  <2>1. /\ operator.pc = "asking" /\ query \in operator.asked
        /\ operator' = IF operator.asked = {query}
                       THEN Decided(operator.candidate, required)
                       ELSE [operator EXCEPT !.asked = @ \ {query},
                                             !.required = required]
        /\ UNCHANGED <<repair, bucket, process, pass, deployed>>
    BY <1>a DEF Answered, UNCHANGED_DB
  <2>2. /\ required \subseteq Version /\ RolledOut
        /\ operator.candidate \in Version
        /\ operator.candidate # deployed.current
    BY <1>0, <2>1 DEF PreflightInv, OperatorState
  <2>3. \/ query = "repairs"
        \/ "repairs" \in operator.asked
        \/ RequiredByRepairs \subseteq operator.required \cup {deployed.current}
    BY <1>0, <2>1 DEF PreflightInv
  <2>4. \/ query = "buckets"
        \/ "buckets" \in operator.asked
        \/ bucket \subseteq operator.required \cup {deployed.current}
    BY <1>0, <2>1 DEF PreflightInv
  <2>5. /\ \/ query # "repairs" /\ "repairs" \in operator.asked
           \/ RequiredByRepairs \subseteq required \cup {deployed.current}
        /\ \/ query # "buckets" /\ "buckets" \in operator.asked
           \/ bucket \subseteq required \cup {deployed.current}
    BY <1>a, <2>3, <2>4
  <2>6. RequiredByRepairs' = RequiredByRepairs /\ RolledOut' = RolledOut
    BY <2>1 DEF RequiredByRepairs, RolledOut
  <2> HIDE DEF required
  <2>7. CASE operator.asked # {query}
    <3>1. operator' = [operator EXCEPT !.asked = @ \ {query},
                                       !.required = required]
      BY <2>1, <2>7
    <3>2. /\ operator' \in OperatorState /\ operator'.pc = "asking"
          /\ operator'.candidate = operator.candidate
          /\ operator'.asked = operator.asked \ {query}
          /\ operator'.required = required
      BY <1>0, <2>1, <2>2, <3>1 DEF OperatorState
    <3>3. PreflightInv'
      BY <2>1, <2>2, <2>5, <2>6, <3>2 DEF PreflightInv
    <3> QED BY <2>1, <3>2, <3>3, OperatorMoves
  <2>8. CASE operator.asked = {query}
    <3> DEFINE previous == RequiredPrevious(operator.candidate,
                                            {deployed.current}, required)
    <3>1. operator' = IF Cardinality(previous) > MaxPreviousKeys
                      THEN [NoRotation EXCEPT !.pc = "blocked",
                                              !.candidate = operator.candidate]
                      ELSE [NoRotation EXCEPT !.pc = "ok",
                                              !.candidate = operator.candidate,
                                              !.required = previous]
      BY <2>1, <2>8 DEF Decided
    <3>2. RequiredByRepairs \cup bucket \subseteq required \cup {deployed.current}
      BY <2>5, <2>8
    <3>3. /\ previous \subseteq Version
          /\ deployed.current \in previous
          /\ operator.candidate \notin previous
          /\ RequiredByRepairs \cup bucket \subseteq previous \cup {operator.candidate}
      BY <1>0, <2>2, <3>2 DEF RequiredPrevious, Ring
    <3> HIDE DEF previous
    <3>4. Cardinality(previous) \in Nat
      BY <3>3, KeyAssumption, FS_Subset, FS_CardinalityType
    <3>5. CASE Cardinality(previous) > MaxPreviousKeys
      <4>1. operator' \in OperatorState /\ operator'.pc = "blocked"
        BY <2>2, <3>1, <3>5 DEF NoRotation, OperatorState
      <4>2. PreflightInv'
        BY <4>1 DEF PreflightInv
      <4> QED BY <2>1, <4>1, <4>2, OperatorMoves
    <3>6. CASE ~(Cardinality(previous) > MaxPreviousKeys)
      <4>1. Cardinality(previous) <= MaxPreviousKeys
        BY <3>4, <3>6, RotationBounds
      <4>2. /\ operator' \in OperatorState /\ operator'.pc = "ok"
            /\ operator'.candidate = operator.candidate
            /\ operator'.required = previous
        BY <2>2, <3>1, <3>3, <3>6 DEF NoRotation, OperatorState
      <4>3. PreflightInv'
        BY <2>1, <2>2, <2>6, <3>3, <4>1, <4>2 DEF PreflightInv
      <4> QED BY <2>1, <4>2, <4>3, OperatorMoves
    <3> QED BY <3>5, <3>6
  <2> QED BY <2>7, <2>8
<1>3. CASE QueryRepairs
  <2>1. RequiredByRepairs \subseteq Version
    BY <1>r
  <2> QED BY <1>3, <1>a, <2>1 DEF QueryRepairs
<1>4. CASE QueryBuckets
  BY <1>0, <1>4, <1>a DEF QueryBuckets, RequiredByBuckets
<1>5. CASE Deploy
  <2>1. /\ operator.pc = "ok"
        /\ deployed' = [ current |-> operator.candidate,
                         previous |-> operator.required ]
        /\ operator' = NoRotation
        /\ UNCHANGED <<repair, bucket, process, pass>>
    BY <1>5 DEF Deploy, UNCHANGED_DB
  <2>2. /\ operator.candidate \in Version /\ operator.required \subseteq Version
        /\ deployed.current \in operator.required
        /\ operator.candidate \notin operator.required
        /\ Cardinality(operator.required) <= MaxPreviousKeys
        /\ RequiredByRepairs \cup bucket
              \subseteq operator.required \cup {operator.candidate}
        /\ \A i \in Instance : process[i].ring \in {Unset, deployed}
    BY <1>0, <2>1 DEF PreflightInv, OperatorState, RolledOut
  <2>3. deployed' \in Ring
    BY <2>1, <2>2 DEF Ring
  <2>4. Configured(deployed') = operator.required \cup {operator.candidate}
    BY <2>1 DEF Configured
  <2>5. operator' \in OperatorState /\ operator'.pc = "idle"
    BY <2>1 DEF NoRotation, OperatorState
  <2>6. RotationShape'
    BY <2>1, <2>3, <2>5 DEF RotationInv, RotationShape, IsPass
  <2>7. StageInv'
    BY <2>1 DEF RotationInv, StageInv
  <2>8. RingInv'
    <3>1. \A i \in Instance :
            process[i].ring # Unset => process[i].ring.current \in Configured(deployed')
      BY <2>2, <2>4
    <3> QED BY <2>1, <3>1 DEF RingInv
  <2>9. PreflightInv'
    BY <2>5 DEF PreflightInv
  <2>10. KeysRetained'
    <3>1. \A r \in Repair : repair[r].phase \notin {"absent", "closed"} =>
            repair[r].version \in Configured(deployed')
      BY <1>0, <2>2, <2>4 DEF RequiredByRepairs, RepairState, Phase
    <3>2. bucket \subseteq Configured(deployed')
      BY <2>2, <2>4
    <3> QED BY <2>1, <3>1, <3>2 DEF KeysRetained
  <2> QED BY <2>6, <2>7, <2>8, <2>9, <2>10 DEF RotationInv
<1> QED BY <1>1, <1>2, <1>3, <1>4, <1>5 DEF Rotation

-----------------------------------------------------------------------------
(* The invariant *)

LEMMA InitRotationInv ==
    ASSUME RotationInit
    PROVE  RotationInv
<1>0. deployed = [current |-> FirstVersion, previous |-> {}]
  BY DEF RotationInit
<1>1. deployed \in Ring
  BY <1>0, KeyAssumption, RotationBounds, FS_EmptySet DEF Ring
<1>2. RotationShape
  BY <1>1 DEF RotationInit, RotationShape, RepairState, NoRepair, Phase, ProcessState,
              Down, IsPass, NoPass, OperatorState, NoRotation
<1>3. StageInv /\ RingInv
  BY DEF RotationInit, StageInv, RingInv, Down, NoPass
<1>4. PreflightInv
  BY DEF RotationInit, PreflightInv, NoRotation
<1>5. KeysRetained
  BY DEF RotationInit, KeysRetained, NoRepair
<1> QED BY <1>2, <1>3, <1>4, <1>5 DEF RotationInv

LEMMA NextKeepsRotationInv ==
    ASSUME RotationInv, [RotationNext]_rotationVars
    PROVE  RotationInv'
<1>1. CASE \E i \in Instance : Lifecycle(i) \/ PassStep(i) \/ CountAttempt(i)
  BY <1>1, LifecycleKeepsInv, PassStepKeepsInv, CountAttemptKeepsInv
<1>2. CASE \E i \in Instance, r \in Repair : DryRun(i, r) \/ FinishRepair(i, r)
  BY <1>2, DryRunKeepsInv, RepairEndsKeepsInv
<1>3. CASE \E r \in Repair : LoseLease(r) \/ Forget(r)
  BY <1>3, RepairEndsKeepsInv
<1>4. CASE \E v \in Version : ExpireBuckets(v)
  BY <1>4, ExpireBucketsKeepsInv
<1>5. CASE Migrate
  BY <1>5, MigrateKeepsInv
<1>6. CASE Rotation
  BY <1>6, RotationKeepsInv
<1>7. CASE UNCHANGED rotationVars
  BY <1>7, SamePasses, PassAlone DEF rotationVars
<1> QED BY <1>1, <1>2, <1>3, <1>4, <1>5, <1>6, <1>7 DEF RotationNext

\* The invariant holds: a process that is up has read its configuration, what
\* it signs with is still configured, and what a preflight saw covers what is
\* in use when its answer is deployed.
THEOREM RotationInvariant == RotationSpec => []RotationInv
<1>1. RotationInit => RotationInv
  BY InitRotationInv
<1>2. RotationInv /\ [RotationNext]_rotationVars => RotationInv'
  BY NextKeepsRotationInv
<1> QED BY <1>1, <1>2, PTL DEF RotationSpec

\* KeysRetained: a deployed rotation never gives up a key version that an open
\* repair or a running throttle window needs, though repairs start and attempts
\* are counted between the two queries of runAuditKeyRotationPreflight and the
\* deployment.
THEOREM VersionsInUseStayConfigured == RotationSpec => []KeysRetained
<1>1. RotationInv => KeysRetained
  BY DEF RotationInv
<1> QED BY <1>1, RotationInvariant, PTL

\* NothingAfterShutdown: once onModuleDestroy has returned, the process runs no
\* pass and has no schedule and no probe, whatever readiness query was in
\* flight when it was stopped.
THEOREM ReconcilerStaysDown == RotationSpec => []NothingAfterShutdown
<1>1. RotationInv => NothingAfterShutdown
  BY DEF RotationInv, StageInv, NothingAfterShutdown
<1> QED BY <1>1, RotationInvariant, PTL
=============================================================================
