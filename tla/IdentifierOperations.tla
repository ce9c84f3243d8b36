----------------------- MODULE IdentifierOperations -------------------------
(***************************************************************************)
(* Resolving a sign-in identifier that several accounts claim:             *)
(* AuthIdentifierService.resolveConflict runs a durable operation (src/src/*)
(* auth/auth-identifier.service.ts) and the reconciliation job of every    *)
(* instance carries on what a dead request left (auth-identifier-          *)
(* reconciliation.service.ts).                                             *)
(*                                                                         *)
(* Reservation documents are indexed by their normalized identifier, which *)
(* is unique; the conflict under review is the document of Original.  An   *)
(* assignment retains Original for one claimant or gives a claimant a      *)
(* replacement.  The actions claim and release of execute() have no caller *)
(* and are left out.  Every await between two database operations is a     *)
(* step boundary, except that the two or three reads and the one write of  *)
(* a step that only that write makes visible are taken together.           *)
(***************************************************************************)
EXTENDS Naturals, Sequences, Functions

CONSTANTS
    Claimant,       \* the accounts that claim Original
    Outsider,       \* an account that owns other identifiers
    Identifier, Original,
    Operation,      \* operation ids the administrators use
    Manifest,       \* the mappings they submit under each operation id
    Executor,       \* concurrent requests to resolve the conflict
    Worker,         \* instances that run the reconciliation job
    None,           \* an unset field
    MaxFaults       \* bound: failed calls, failed requests, dead workers

Assignment == [ action : {"retain", "replace"}, subject : Claimant,
                identifier : Identifier ]

ASSUME ManifestAssumption ==
    /\ Original \in Identifier
    /\ Outsider \notin Claimant
    /\ Manifest \in [Operation -> SUBSET Seq(Assignment)]
    /\ \A o \in Operation :
          /\ <<>> \notin Manifest[o]                    \* validateInput
          /\ \A m \in Manifest[o] : \A a \in Range(m) : \* sourceReservationId
                a.action = "retain" => a.identifier = Original

ASSUME BoundsAssumption == MaxFaults \in Nat

ASSUME NoneAssumption ==
    None \notin Claimant \cup {Outsider} \cup Identifier \cup Operation
                \cup Worker \cup {"success", "failure", "completed",
                "failed-terminal", "replace", "resolve-conflict"}

VARIABLES
    account,        \* the identifier field of each claimant's document
    reservation,    \* the reservation documents
    op,             \* the operation documents
    events,         \* terminal security events, keyed by operation and outcome
    executor,       \* requests: where they are and what they read before
    worker,         \* reconciliation jobs
    faults          \* bound on failures

vars == <<account, reservation, op, events, executor, worker, faults>>

-----------------------------------------------------------------------------
(* The documents *)

ReservationStatus == {"absent", "pending", "active", "released", "conflict"}

Reservation ==
    [ status : ReservationStatus,
      subject : Claimant \cup {Outsider, None},
      claimants : SUBSET Claimant,          \* conflictingSubjects
      reviewable : BOOLEAN,                 \* conflictResolutionStatus
      pendingOp : Operation \cup {None},    \* pendingOperationId
      pendingAction : {"replace", "resolve-conflict", None},
      lastOp : Operation \cup {None} ]      \* lastOperationId

Unreserved ==
    [ status |-> "absent", subject |-> None, claimants |-> {},
      reviewable |-> FALSE, pendingOp |-> None, pendingAction |-> None,
      lastOp |-> None ]

Terminal == {"completed", "failed-terminal"}

OperationStatus == Terminal \cup {"absent", "pending", "applying",
    "compensating", "finalizing", "failed-retryable"}

Persisted ==
    [ action : {"retain", "replace"}, subject : Claimant,
      status : {"pending", "applied", "compensated"},
      target : Identifier \cup {None} ]     \* targetReservationId

OperationDoc ==
    [ status : OperationStatus,
      assignments : Seq(Persisted),
      result : {"success", "failure", None},
      terminalEvent : Terminal \cup {None}, \* terminalEventId, ...RecordedAt
      expires : BOOLEAN,                    \* expiresAt is set
      owner : Worker \cup {None},           \* leaseOwner
      leased : BOOLEAN ]                    \* leaseExpiresAt is not past

NoOperation ==
    [ status |-> "absent", assignments |-> <<>>, result |-> None,
      terminalEvent |-> None, expires |-> FALSE, owner |-> None,
      leased |-> FALSE ]

\* allowedTransitions
Allowed(from, to) ==
    CASE from = "pending" -> to \in {"applying", "compensating",
                                     "failed-retryable"}
      [] from = "applying" -> to \in {"compensating", "finalizing",
                                      "failed-retryable"}
      [] from = "compensating" -> to \in {"finalizing", "failed-retryable"}
      [] from = "finalizing" -> to \in Terminal
      [] from = "failed-retryable" -> to \in {"applying", "compensating"}
      [] OTHER -> FALSE

ExecutorState ==
    [ pc : {"idle", "execute", "saga", "start", "reserve", "attach", "apply",
            "release", "mark", "settle", "finalize", "catch", "sync",
            "undo", "compensate", "reopen", "restore", "unmark", "record", "finish"},
      op : Operation \cup {None},
      manifest : Seq(Assignment),
      at : Nat,                             \* the assignment in hand
      from : OperationStatus,               \* the status that was read
      applied : BOOLEAN,                    \* persisted.status as it was read
      found : Identifier \cup {None},       \* the reservation in hand
      seen : Seq(Persisted),                \* assignments as the catch block or
      undo : SUBSET Nat,                    \* the compensation read them: to go
      outcome : Terminal \cup {None} ]

IdleExecutor ==
    [ pc |-> "idle", op |-> None, manifest |-> <<>>, at |-> 1,
      from |-> "absent", applied |-> FALSE, found |-> None, seen |-> <<>>,
      undo |-> {}, outcome |-> None ]

WorkerState ==
    [ pc : {"idle", "attach", "recover", "mark", "move", "record", "finish",
            "leave"},
      op : Operation \cup {None},
      read : OperationDoc,                  \* the document as it was claimed
      left : SUBSET Nat,                    \* assignments still to examine
      retry : BOOLEAN,                      \* retryRequired
      outcome : Terminal \cup {None} ]

IdleWorker ==
    [ pc |-> "idle", op |-> None, read |-> NoOperation, left |-> {},
      retry |-> FALSE, outcome |-> None ]

TypeOK ==
    /\ account \in [Claimant -> Identifier]
    /\ reservation \in [Identifier -> Reservation]
    /\ op \in [Operation -> OperationDoc]
    /\ events \subseteq Operation \X Terminal
    /\ executor \in [Executor -> ExecutorState]
    /\ worker \in [Worker -> WorkerState]
    /\ faults \in 0..MaxFaults

\* The migration left Original in conflict; the other identifiers are free or
\* belong to somebody else.
Init ==
    /\ account = [s \in Claimant |-> Original]
    /\ \E T \in SUBSET (Identifier \ {Original}) :
          reservation = [i \in Identifier |->
             CASE i = Original ->
                    [Unreserved EXCEPT !.status = "conflict",
                        !.claimants = Claimant, !.reviewable = TRUE]
               [] i \in T -> [Unreserved EXCEPT !.status = "active",
                                                !.subject = Outsider]
               [] OTHER -> Unreserved]
    /\ op = [o \in Operation |-> NoOperation]
    /\ events = {}
    /\ executor = [e \in Executor |-> IdleExecutor]
    /\ worker = [w \in Worker |-> IdleWorker]
    /\ faults = 0

-----------------------------------------------------------------------------
(* Submitting a resolution *)

\* conflictAggregateAdapter(..., finalAssignmentId): without a retained
\* subject, the last assignment also releases Original.
ReleasesOriginal(m, n) == n = Len(m) /\ \A k \in 1..Len(m) : m[k].action # "retain"

\* validateConflictMapping: every claimant is accounted for, a reassignment
\* names each subject once, replacements differ from each other and Original.
ValidMapping(m) ==
    LET replaced == {k \in 1..Len(m) : m[k].action = "replace"} IN
    /\ {m[k].subject : k \in 1..Len(m)} = reservation[Original].claimants
    /\ \A k \in replaced : m[k].identifier # Original
    /\ \A k, l \in replaced : k # l => /\ m[k].subject # m[l].subject
                                       /\ m[k].identifier # m[l].identifier

\* resolveConflict reads the conflict and builds the assignments.
ResolveConflict(e, o, m) ==
    /\ executor[e].pc = "idle"
    /\ reservation[Original].status = "conflict"
    /\ reservation[Original].reviewable
    /\ ValidMapping(m)
    /\ executor' = [executor EXCEPT ![e] =
          [IdleExecutor EXCEPT !.pc = "execute", !.op = o, !.manifest = m]]
    /\ UNCHANGED <<account, reservation, op, events, worker, faults>>

\* An assignment id is made of the operation, the action and the subject.
SameId(p, a) == p.action = a.action /\ p.subject = a.subject

\* assertOperationManifest; the replacement itself is not compared.
SameManifest(d, m) ==
    /\ Len(d.assignments) = Len(m)
    /\ \A p \in Range(d.assignments) : \E a \in Range(m) : SameId(p, a)

\* execute() finds the operation: another manifest is refused, a terminal
\* result is replayed, the rest is resumed; a new one becomes a saga when
\* transactions are unavailable.
Execute(e) ==
    LET x == executor[e]
        d == op[x.op] IN
    /\ x.pc = "execute"
    /\ executor' = [executor EXCEPT ![e] =
          IF d.status = "absent" \/ (SameManifest(d, x.manifest)
                                     /\ d.status \notin Terminal)
          THEN [x EXCEPT !.pc = "saga"] ELSE IdleExecutor]
    /\ UNCHANGED <<account, reservation, op, events, worker, faults>>

Created(m) ==
    [NoOperation EXCEPT !.status = "pending",
        !.assignments = [k \in 1..Len(m) |->
            [ action |-> m[k].action, subject |-> m[k].subject,
              status |-> "pending", target |-> None ]]]

\* Mutant: an active reservation may be anybody's.
ReservableIfActive(o, a) ==
    LET r == reservation[a.identifier] IN
    IF a.action = "retain"
    THEN reservation[Original].pendingOp = o
         \/ reservation[Original].status = "conflict"
    ELSE r.status \in {"absent", "released", "active"} \/ r.pendingOp = o

\* The filter of reserveAssignment; an identifier without a document is upserted.
Reservable(o, a) ==
    LET r == reservation[a.identifier] IN
    IF a.action = "retain"
    THEN reservation[Original].pendingOp = o
         \/ reservation[Original].status = "conflict"
    ELSE \/ r.status \in {"absent", "released"}
         \/ r.pendingOp = o
         \/ r.status = "active" /\ r.subject = a.subject

\* executeInTransaction: created, applied, recorded and completed at once; it
\* aborts, and the request fails, when an identifier cannot be reserved.
ExecuteInTransaction(e) ==
    LET x == executor[e]
        m == x.manifest
        Taker(i) == {k \in 1..Len(m) : m[k].identifier = i} IN
    /\ x.pc = "execute"
    /\ op[x.op].status = "absent"
    /\ \A k \in 1..Len(m) : Reservable(x.op, m[k])
    /\ account' = [s \in Claimant |->
          IF \E k \in 1..Len(m) : m[k].subject = s /\ m[k].action = "replace"
          THEN m[CHOOSE k \in 1..Len(m) : /\ m[k].subject = s
                                          /\ m[k].action = "replace"].identifier
          ELSE account[s]]
    /\ reservation' = [i \in Identifier |->
          CASE Taker(i) # {} ->
                 [reservation[i] EXCEPT !.status = "active", !.lastOp = x.op,
                     !.subject = m[CHOOSE k \in Taker(i) : TRUE].subject]
            [] i = Original /\ Taker(i) = {} ->
                 [reservation[i] EXCEPT !.status = "released",
                     !.subject = m[Len(m)].subject, !.claimants = {},
                     !.reviewable = FALSE]
            [] OTHER -> reservation[i]]
    /\ op' = [op EXCEPT ![x.op] =
          [Created(m) EXCEPT !.status = "completed", !.result = "success",
              !.assignments = [k \in 1..Len(m) |->
                  [ action |-> m[k].action, subject |-> m[k].subject,
                    status |-> "applied", target |-> m[k].identifier ]],
              !.terminalEvent = "completed", !.expires = TRUE]]
    /\ events' = events \cup {<<x.op, "completed">>}
    /\ executor' = [executor EXCEPT ![e] = IdleExecutor]
    /\ UNCHANGED <<worker, faults>>

\* compensateAssignments takes the applied assignments, the last one first.
AppliedOf(s) == {n \in DOMAIN s : s[n].status = "applied"}

Latest(S) == CHOOSE n \in S : \A k \in S : k <= n

\* The next assignment to compensate, or the end of the compensation.
Undoing(x, s, left) ==
    IF left = {}
    THEN [x EXCEPT !.pc = "finalize", !.from = "compensating", !.seen = <<>>,
                   !.undo = {}, !.outcome = "failed-terminal"]
    ELSE [x EXCEPT !.pc = "compensate", !.seen = s, !.undo = left]

InHand(x) == x.seen[Latest(x.undo)]

\* executeSaga finds or creates the operation and looks at its status.
ExecuteSaga(e) ==
    LET x == executor[e]
        d == IF op[x.op].status = "absent" THEN Created(x.manifest)
             ELSE op[x.op] IN
    /\ x.pc = "saga"
    /\ op' = [op EXCEPT ![x.op] = d]
    /\ executor' = [executor EXCEPT ![e] =
          CASE d.status \in Terminal -> IdleExecutor
            [] d.status = "finalizing" ->
                 [x EXCEPT !.pc = "record",
                     !.outcome = IF d.result = "failure"
                                 THEN "failed-terminal" ELSE "completed"]
            [] d.status = "compensating" ->
                 Undoing(x, d.assignments, AppliedOf(d.assignments))
            [] d.status = "applying" -> [x EXCEPT !.pc = "reserve"]
            [] OTHER -> [x EXCEPT !.pc = "start", !.from = d.status]]
    /\ UNCHANGED <<account, reservation, events, worker, faults>>

\* transition() to applying; a request that lost the race fails.
Start(e) ==
    LET x == executor[e]
        o == x.op IN
    /\ x.pc = "start"
    /\ \/ /\ op[o].status = x.from
          /\ op' = [op EXCEPT ![o].status = "applying"]
          /\ executor' = [executor EXCEPT ![e].pc = "reserve",
                                         ![e].from = "absent"]
       \/ /\ op[o].status # x.from
          /\ executor' = [executor EXCEPT ![e] = IdleExecutor]
          /\ UNCHANGED op
    /\ UNCHANGED <<account, reservation, events, worker, faults>>

-----------------------------------------------------------------------------
(* applyAssignments, one assignment after the other *)

PersistedOf(d, a) == {p \in Range(d.assignments) : SameId(p, a)}

\* Updates of the persisted assignment with the id of a, if there is one: a
\* request that lost the race to create the operation may carry another manifest.
WithTarget(d, a, target) ==
    [d EXCEPT !.assignments = [n \in DOMAIN @ |->
        IF SameId(@[n], a) THEN [@[n] EXCEPT !.target = target] ELSE @[n]]]

WithStatus(d, a, status) ==
    [d EXCEPT !.assignments = [n \in DOMAIN @ |->
        IF SameId(@[n], a) THEN [@[n] EXCEPT !.status = status] ELSE @[n]]]

PendingActionOf(action) ==
    IF action = "retain" THEN "resolve-conflict" ELSE action

\* findRecoverableReservation: the referenced reservation, whatever its status,
\* or a pending one of this operation and subject.
Recoverable(o, a) ==
    LET targets == {p.target : p \in PersistedOf(op[o], a)} \ {None} IN
    IF targets # {} THEN targets
    ELSE {i \in Identifier :
             /\ reservation[i].pendingOp = o
             /\ reservation[i].subject = a.subject
             /\ reservation[i].pendingAction = PendingActionOf(a.action)}

\* Mutant: a released reservation keeps its former owner.
ReservedAsBefore(r, o, a) ==
    [r EXCEPT !.status = "pending", !.pendingOp = o,
              !.pendingAction = PendingActionOf(a.action)]

Reserved(r, o, a) ==
    [r EXCEPT !.status = "pending", !.subject = a.subject, !.pendingOp = o,
              !.pendingAction = PendingActionOf(a.action)]

\* What the catch block of executeSaga starts from.
Failing(x) ==
    [IdleExecutor EXCEPT !.pc = "catch", !.op = x.op, !.manifest = x.manifest]

ReserveAssignment(e) ==
    LET x == executor[e]
        o == x.op
        a == x.manifest[x.at]
        In(i) == [x EXCEPT !.pc = "attach", !.found = i,
                     !.applied = \E p \in PersistedOf(op[o], a) :
                                    p.status = "applied"] IN
    /\ x.pc = "reserve"
    /\ \/ \E i \in Recoverable(o, a) :
             /\ executor' = [executor EXCEPT ![e] = In(i)]
             /\ UNCHANGED reservation
       \/ /\ Recoverable(o, a) = {}
          /\ Reservable(o, a)
          /\ reservation' = [reservation EXCEPT ![a.identifier] =
                                Reserved(@, o, a)]
          /\ executor' = [executor EXCEPT ![e] = In(a.identifier)]
       \/ /\ Recoverable(o, a) = {}
          /\ ~Reservable(o, a)
          /\ executor' = [executor EXCEPT ![e] = Failing(x)]
          /\ UNCHANGED reservation
    /\ UNCHANGED <<account, op, events, worker, faults>>

AttachReservationReference(e) ==
    LET x == executor[e] IN
    /\ x.pc = "attach"
    /\ op' = [op EXCEPT ![x.op] = WithTarget(@, x.manifest[x.at], x.found)]
    /\ executor' = [executor EXCEPT ![e].applied = FALSE,
                       ![e].pc = IF x.applied THEN "settle" ELSE "apply"]
    /\ UNCHANGED <<account, reservation, events, worker, faults>>

\* isApplied, then the adapter's apply: the account takes the replacement.
Apply(e) ==
    LET x == executor[e]
        a == x.manifest[x.at]
        isApplied == a.action = "replace" /\ account[a.subject] = a.identifier
    IN
    /\ x.pc = "apply"
    /\ account' = IF a.action = "replace"
                  THEN [account EXCEPT ![a.subject] = a.identifier]
                  ELSE account
    /\ executor' = [executor EXCEPT ![e].pc =
          IF ReleasesOriginal(x.manifest, x.at) /\ ~isApplied
          THEN "release" ELSE "mark"]
    /\ UNCHANGED <<reservation, op, events, worker, faults>>

\* releaseOriginalConflict, the end of the last apply.
ReleaseOriginalConflict(e) ==
    LET x == executor[e]
        r == reservation[Original] IN
    /\ x.pc = "release"
    /\ reservation' = [reservation EXCEPT ![Original] =
          IF r.status = "conflict"
          THEN [r EXCEPT !.status = "released",
                         !.subject = x.manifest[x.at].subject,
                         !.claimants = {}, !.reviewable = FALSE]
          ELSE r]
    /\ executor' = [executor EXCEPT ![e].pc = "mark"]
    /\ UNCHANGED <<account, op, events, worker, faults>>

MarkAssignmentApplied(e) ==
    LET x == executor[e] IN
    /\ x.pc = "mark"
    /\ op' = [op EXCEPT ![x.op] = WithStatus(@, x.manifest[x.at], "applied")]
    /\ executor' = [executor EXCEPT ![e].pc = "settle"]
    /\ UNCHANGED <<account, reservation, events, worker, faults>>

\* finalizeReservation; then the next assignment, or the end.
FinalizeReservation(e) ==
    LET x == executor[e]
        r == reservation[x.found] IN
    /\ x.pc = "settle"
    /\ reservation' = [reservation EXCEPT ![x.found] =
          IF r.pendingOp = x.op
          THEN [r EXCEPT !.status = "active", !.lastOp = x.op,
                         !.pendingOp = None, !.pendingAction = None]
          ELSE r]
    /\ executor' = [executor EXCEPT ![e] =
          IF x.at < Len(x.manifest)
          THEN [x EXCEPT !.pc = "reserve", !.at = @ + 1, !.found = None]
          ELSE [x EXCEPT !.pc = "finalize", !.at = 1, !.found = None,
                         !.from = "applying", !.outcome = "completed"]]
    /\ UNCHANGED <<account, op, events, worker, faults>>

-----------------------------------------------------------------------------
(* The end of an attempt *)

\* beginFinalizing: only now does the operation carry a result.
BeginFinalizing(e) ==
    LET x == executor[e] IN
    /\ x.pc = "finalize"
    /\ \/ /\ op[x.op].status = x.from
          /\ op' = [op EXCEPT ![x.op].status = "finalizing",
                              ![x.op].result = IF x.outcome = "completed"
                                               THEN "success" ELSE "failure"]
          /\ executor' = [executor EXCEPT ![e].pc = "record",
                                         ![e].from = "absent"]
       \/ /\ op[x.op].status # x.from
          /\ executor' = [executor EXCEPT ![e] =
                IF x.from = "applying" THEN Failing(x) ELSE IdleExecutor]
          /\ UNCHANGED op
    /\ UNCHANGED <<account, reservation, events, worker, faults>>

\* Mutant: the event of an operation that is already finished is not written.
RecordOnce(e) ==
    LET x == executor[e] IN
    /\ x.pc = "record"
    /\ events' = IF \E t \in Terminal : <<x.op, t>> \in events THEN events
                 ELSE events \cup {<<x.op, x.outcome>>}
    /\ executor' = [executor EXCEPT ![e].pc = "finish"]
    /\ UNCHANGED <<account, reservation, op, worker, faults>>

\* finishTerminal writes the security event, whose id is the operation and
\* the outcome, ...
RecordTerminal(e) ==
    LET x == executor[e] IN
    /\ x.pc = "record"
    /\ events' = events \cup {<<x.op, x.outcome>>}
    /\ executor' = [executor EXCEPT ![e].pc = "finish"]
    /\ UNCHANGED <<account, reservation, op, worker, faults>>

\* ... and then the terminal status; who comes second replays or fails.
FinishTerminal(e) ==
    LET x == executor[e] IN
    /\ x.pc = "finish"
    /\ op' = IF op[x.op].status = "finalizing"
             THEN [op EXCEPT ![x.op].status = x.outcome,
                     ![x.op].result = IF x.outcome = "completed"
                                      THEN "success" ELSE "failure",
                     ![x.op].terminalEvent = x.outcome,
                     ![x.op].expires = TRUE]
             ELSE op
    /\ executor' = [executor EXCEPT ![e] = IdleExecutor]
    /\ UNCHANGED <<account, reservation, events, worker, faults>>

-----------------------------------------------------------------------------
(* The catch block: compensation *)

\* The next assignment to synchronize, or the compensation.
Synchronizing(x, s, left) ==
    IF left = {} THEN [x EXCEPT !.pc = "undo", !.seen = <<>>, !.undo = {}]
    ELSE [x EXCEPT !.pc = "sync", !.seen = s, !.undo = left]

\* synchronizeAppliedAssignments reads which assignments are pending, ...
ReadPendingAssignments(e) ==
    LET x == executor[e]
        s == op[x.op].assignments IN
    /\ x.pc = "catch"
    /\ executor' = [executor EXCEPT ![e] =
          Synchronizing(x, s, {n \in DOMAIN s : s[n].status = "pending"})]
    /\ UNCHANGED <<account, reservation, op, events, worker, faults>>

\* ... and, the first one first, marks those the accounts already show.
SynchronizeAppliedAssignment(e, n) ==
    LET x == executor[e]
        p == x.seen[n]
        isApplied == /\ p.action = "replace"
                     /\ \E a \in Range(x.manifest) :
                           SameId(p, a) /\ account[a.subject] = a.identifier IN
    /\ x.pc = "sync"
    /\ n \in x.undo /\ \A k \in x.undo : n <= k
    /\ op' = IF isApplied
             THEN [op EXCEPT ![x.op] = WithStatus(@, p, "applied")] ELSE op
    /\ executor' = [executor EXCEPT ![e] =
          Synchronizing(x, x.seen, x.undo \ {n})]
    /\ UNCHANGED <<account, reservation, events, worker, faults>>

\* transition() to compensating and the read of what is applied.
BeginCompensating(e) ==
    LET x == executor[e] IN
    /\ x.pc = "undo"
    /\ \/ /\ op[x.op].status = "applying"
          /\ op' = [op EXCEPT ![x.op].status = "compensating"]
          /\ LET s == op[x.op].assignments IN
                executor' = [executor EXCEPT ![e] = Undoing(x, s, AppliedOf(s))]
       \/ /\ op[x.op].status # "applying"
          /\ executor' = [executor EXCEPT ![e] = IdleExecutor]
          /\ UNCHANGED op
    /\ UNCHANGED <<account, reservation, events, worker, faults>>

\* The adapter's compensate: the account takes Original back, ...  Without
\* the assignment in its manifest the request gives up.
Compensate(e) ==
    LET x == executor[e]
        p == InHand(x)
        mine == {k \in 1..Len(x.manifest) : SameId(p, x.manifest[k])} IN
    /\ x.pc = "compensate"
    /\ account' = IF p.action = "replace" /\ mine # {}
                  THEN [account EXCEPT ![p.subject] = Original] ELSE account
    /\ executor' = [executor EXCEPT ![e] =
          CASE mine = {} -> IdleExecutor
            [] \E k \in mine : ReleasesOriginal(x.manifest, k) ->
                 [x EXCEPT !.pc = "reopen"]
            [] OTHER -> [x EXCEPT !.pc = "restore"]]
    /\ UNCHANGED <<reservation, op, events, worker, faults>>

\* ... and a released Original is in conflict again, without its claimants.
ReopenConflict(e) ==
    /\ executor[e].pc = "reopen"
    /\ reservation' = [reservation EXCEPT ![Original].status = "conflict",
                                          ![Original].reviewable = TRUE]
    /\ executor' = [executor EXCEPT ![e].pc = "restore"]
    /\ UNCHANGED <<account, op, events, worker, faults>>

\* The reservation a compensated assignment leaves behind.
Restored(r, action) ==
    [r EXCEPT !.status = IF action = "retain" THEN "conflict" ELSE "released",
              !.pendingOp = None, !.pendingAction = None]

RestoreReservation(e) ==
    LET x == executor[e]
        p == InHand(x)
        i == IF p.target = None THEN Original ELSE p.target IN
    /\ x.pc = "restore"
    /\ reservation' = IF reservation[i].lastOp = x.op
                      THEN [reservation EXCEPT ![i] = Restored(@, p.action)]
                      ELSE reservation
    /\ executor' = [executor EXCEPT ![e].pc = "unmark"]
    /\ UNCHANGED <<account, op, events, worker, faults>>

MarkCompensated(e) ==
    LET x == executor[e] IN
    /\ x.pc = "unmark"
    /\ op' = [op EXCEPT ![x.op] = WithStatus(@, InHand(x), "compensated")]
    /\ executor' = [executor EXCEPT ![e] =
          Undoing(x, x.seen, x.undo \ {Latest(x.undo)})]
    /\ UNCHANGED <<account, reservation, events, worker, faults>>

-----------------------------------------------------------------------------
(* The reconciliation job: one step of one claimed operation per pass *)

\* claim(): a lease that expired belongs to nobody.  The requests above hold
\* no lease.
Claim(w, o) ==
    /\ worker[w].pc = "idle"
    /\ op[o].status \notin Terminal \cup {"absent"}
    /\ ~op[o].leased
    /\ LET d == [op[o] EXCEPT !.owner = w, !.leased = TRUE] IN
          /\ op' = [op EXCEPT ![o] = d]
          /\ worker' = [worker EXCEPT ![w] =
                [IdleWorker EXCEPT !.pc = "attach", !.op = o, !.read = d]]
    /\ UNCHANGED <<account, reservation, events, executor, faults>>

\* The finally block.
Leaving(o) == [IdleWorker EXCEPT !.pc = "leave", !.op = o]

\* Where process() goes for the status it read.
Processing(j, d) ==
    CASE d.status \in {"applying", "compensating"} ->
           [j EXCEPT !.pc = "recover", !.read = d,
                     !.left = DOMAIN d.assignments]
      [] d.status = "finalizing" ->
           [j EXCEPT !.pc = "record", !.read = d,
              !.outcome = IF d.result = "failure" \/ \A n \in DOMAIN d.assignments :
                                d.assignments[n].status = "compensated"
                          THEN "failed-terminal" ELSE "completed"]
      [] OTHER -> [j EXCEPT !.pc = "move", !.read = d]

\* attachMissingReservationReferences.  pendingAction never equals "retain",
\* and the filter matches only while no assignment has a reference at all.
AttachMissingReferences(w) ==
    LET j == worker[w]
        o == j.op
        Missing(n) == {i \in Identifier :
            /\ j.read.assignments[n].target = None
            /\ reservation[i].pendingOp = o
            /\ reservation[i].subject = j.read.assignments[n].subject
            /\ reservation[i].pendingAction = j.read.assignments[n].action}
        missing == {n \in DOMAIN j.read.assignments : Missing(n) # {}}
        seen == [j.read EXCEPT !.assignments = [n \in DOMAIN @ |->
                    IF n \in missing
                    THEN [@[n] EXCEPT !.target = CHOOSE i \in Missing(n) : TRUE]
                    ELSE @[n]]]
        takes == /\ op[o].owner = w
                 /\ \A n \in DOMAIN op[o].assignments :
                       op[o].assignments[n].target = None IN
    /\ j.pc = "attach"
    /\ \/ /\ takes
          /\ \E n \in missing : op' = [op EXCEPT ![o].assignments[n].target =
                                                seen.assignments[n].target]
       \/ (~takes \/ missing = {}) /\ UNCHANGED op
    /\ worker' = [worker EXCEPT ![w] = Processing(j, seen)]
    /\ UNCHANGED <<account, reservation, events, executor, faults>>

\* findReservation
ReservationOf(o, p) ==
    IF p.target # None THEN {p.target}
    ELSE {i \in Identifier : /\ reservation[i].pendingOp = o
                             /\ reservation[i].subject = p.subject
                             /\ reservation[i].pendingAction = p.action}

\* recoverApplying, for one assignment: applied when its reservation is final.
RecoverApplying(w, n) ==
    LET j == worker[w]
        o == j.op
        p == j.read.assignments[n]
        final == \E i \in ReservationOf(o, p) :
                    reservation[i].status = "active" /\ reservation[i].lastOp = o
    IN
    /\ j.pc = "recover" /\ j.read.status = "applying"
    /\ n \in j.left /\ \A k \in j.left : n <= k
    /\ op' = IF p.status # "applied" /\ final /\ op[o].owner = w
             THEN [op EXCEPT ![o].assignments[n].status = "applied"] ELSE op
    /\ worker' = [worker EXCEPT ![w].left = @ \ {n},
                     ![w].retry = @ \/ (p.status # "applied" /\ ~final),
                     ![w].pc = IF j.left = {n} THEN "move" ELSE "recover"]
    /\ UNCHANGED <<account, reservation, events, executor, faults>>

\* recoverCompensating, for one assignment: a pending reservation is undone,
\* an applied assignment is left to a request.
RecoverCompensating(w, n) ==
    LET j == worker[w]
        o == j.op
        p == j.read.assignments[n]
        mine == {i \in ReservationOf(o, p) : reservation[i].pendingOp = o} IN
    /\ j.pc = "recover" /\ j.read.status = "compensating"
    /\ n \in j.left /\ \A k \in j.left : n >= k
    /\ \/ /\ p.status = "pending"
          /\ \E i \in mine :
                reservation' = [reservation EXCEPT ![i] =
                                  [Restored(@, p.action) EXCEPT !.lastOp = o]]
          /\ worker' = [worker EXCEPT ![w].pc = "mark"]
       \/ /\ p.status # "pending" \/ mine = {}
          /\ worker' = [worker EXCEPT ![w].left = @ \ {n},
                           ![w].retry = @ \/ p.status # "compensated",
                           ![w].pc = IF j.left = {n} THEN "move" ELSE "recover"]
          /\ UNCHANGED reservation
    /\ UNCHANGED <<account, op, events, executor, faults>>

\* The second write for an assignment that was undone.
MarkRecovered(w, n) ==
    LET j == worker[w]
        o == j.op IN
    /\ j.pc = "mark"
    /\ n \in j.left /\ \A k \in j.left : n >= k
    /\ op' = IF op[o].owner = w
             THEN [op EXCEPT ![o].assignments[n].status = "compensated"] ELSE op
    /\ worker' = [worker EXCEPT ![w].left = @ \ {n}, ![w].retry = @,
                     ![w].pc = IF j.left = {n} THEN "move" ELSE "recover"]
    /\ UNCHANGED <<account, reservation, events, executor, faults>>

\* The status process() moves the operation to.  Its result is not set.
NextStatus(j) ==
    CASE j.read.status = "pending" -> "applying"
      [] j.read.status = "failed-retryable" ->
           IF \E n \in DOMAIN j.read.assignments :
                 j.read.assignments[n].status = "compensated"
           THEN "compensating" ELSE "applying"
      [] OTHER -> IF j.retry THEN "failed-retryable" ELSE "finalizing"

\* Mutant: only the lease is compared.
MoveUnderLease(w) ==
    LET j == worker[w]
        o == j.op IN
    /\ j.pc = "move"
    /\ op' = IF op[o].owner = w
             THEN [op EXCEPT ![o].status = NextStatus(j)] ELSE op
    /\ worker' = [worker EXCEPT ![w] = Leaving(j.op)]
    /\ UNCHANGED <<account, reservation, events, executor, faults>>

\* transition(): only from the status that was read and under the own lease.
Move(w) ==
    LET j == worker[w]
        o == j.op IN
    /\ j.pc = "move"
    /\ op' = IF op[o].status = j.read.status /\ op[o].owner = w
             THEN [op EXCEPT ![o].status = NextStatus(j)] ELSE op
    /\ worker' = [worker EXCEPT ![w] = Leaving(j.op)]
    /\ UNCHANGED <<account, reservation, events, executor, faults>>

\* finalize(): the event, then the status.
RecordRecovered(w) ==
    LET j == worker[w] IN
    /\ j.pc = "record"
    /\ events' = events \cup {<<j.op, j.outcome>>}
    /\ worker' = [worker EXCEPT ![w].pc = "finish"]
    /\ UNCHANGED <<account, reservation, op, executor, faults>>

FinishRecovered(w) ==
    LET j == worker[w]
        o == j.op IN
    /\ j.pc = "finish"
    /\ op' = IF op[o].status = "finalizing" /\ op[o].owner = w
             THEN [op EXCEPT ![o].status = j.outcome,
                             ![o].terminalEvent = j.outcome,
                             ![o].expires = TRUE]
             ELSE op
    /\ worker' = [worker EXCEPT ![w] = Leaving(j.op)]
    /\ UNCHANGED <<account, reservation, events, executor, faults>>

ReleaseLease(w) ==
    LET j == worker[w] IN
    /\ j.pc = "leave"
    /\ op' = IF op[j.op].owner = w
             THEN [op EXCEPT ![j.op].leased = FALSE] ELSE op
    /\ worker' = [worker EXCEPT ![w] = IdleWorker]
    /\ UNCHANGED <<account, reservation, events, executor, faults>>

-----------------------------------------------------------------------------
(* Failures *)

\* Time passes: leaseExpiresAt and the clock skew that claim() adds to it.  After
\* its worker died, or, as a fault, under a slow one.
ExpireLease(o) ==
    LET held == worker[op[o].owner].op = o IN
    /\ op[o].leased
    /\ held => faults < MaxFaults
    /\ op' = [op EXCEPT ![o].leased = FALSE]
    /\ faults' = IF held THEN faults + 1 ELSE faults
    /\ UNCHANGED <<account, reservation, events, executor, worker>>

\* A database call inside the try block fails.
FailCall(e) ==
    LET x == executor[e] IN
    /\ faults < MaxFaults
    /\ \/ x.pc \in {"reserve", "attach", "apply", "release", "mark", "settle"}
       \/ x.pc = "finalize" /\ x.from = "applying"
    /\ executor' = [executor EXCEPT ![e] = Failing(x)]
    /\ faults' = faults + 1
    /\ UNCHANGED <<account, reservation, op, events, worker>>

\* The synchronization fails: the operation stays retryable.
FailSynchronization(e) ==
    LET o == executor[e].op IN
    /\ faults < MaxFaults
    /\ executor[e].pc \in {"catch", "sync"}
    /\ op' = IF op[o].status = "applying"
             THEN [op EXCEPT ![o].status = "failed-retryable"] ELSE op
    /\ executor' = [executor EXCEPT ![e] = IdleExecutor]
    /\ faults' = faults + 1
    /\ UNCHANGED <<account, reservation, events, worker>>

\* The process dies, or a call outside the try block fails.
FailRequest(e) ==
    /\ faults < MaxFaults
    /\ executor[e].pc # "idle"
    /\ executor' = [executor EXCEPT ![e] = IdleExecutor]
    /\ faults' = faults + 1
    /\ UNCHANGED <<account, reservation, op, events, worker>>

\* The job dies, or a call of process() fails and the lease is given up.
FailWorker(w) ==
    /\ faults < MaxFaults
    /\ worker[w].pc \notin {"idle", "leave"}
    /\ \/ worker' = [worker EXCEPT ![w] = IdleWorker]
       \/ worker' = [worker EXCEPT ![w] = Leaving(worker[w].op)]
    /\ faults' = faults + 1
    /\ UNCHANGED <<account, reservation, op, events, executor>>

-----------------------------------------------------------------------------
Step(e) ==
    \/ Execute(e) \/ ExecuteSaga(e) \/ Start(e)
    \/ ReserveAssignment(e) \/ AttachReservationReference(e) \/ Apply(e)
    \/ ReleaseOriginalConflict(e) \/ MarkAssignmentApplied(e)
    \/ FinalizeReservation(e) \/ BeginFinalizing(e)
    \/ RecordTerminal(e) \/ FinishTerminal(e)
    \/ ReadPendingAssignments(e)
    \/ \E n \in executor[e].undo : SynchronizeAppliedAssignment(e, n)
    \/ BeginCompensating(e)
    \/ Compensate(e) \/ ReopenConflict(e) \/ RestoreReservation(e)
    \/ MarkCompensated(e)

Pass(w) ==
    \/ \E o \in Operation : Claim(w, o)
    \/ AttachMissingReferences(w)
    \/ \E n \in worker[w].left :
          RecoverApplying(w, n) \/ RecoverCompensating(w, n) \/ MarkRecovered(w, n)
    \/ Move(w) \/ RecordRecovered(w) \/ FinishRecovered(w) \/ ReleaseLease(w)

Next ==
    \/ \E e \in Executor :
          \/ \E o \in Operation : \E m \in Manifest[o] : ResolveConflict(e, o, m)
          \/ ExecuteInTransaction(e) \/ Step(e)
          \/ FailCall(e) \/ FailSynchronization(e) \/ FailRequest(e)
    \/ \E w \in Worker : Pass(w) \/ FailWorker(w)
    \/ \E o \in Operation : ExpireLease(o)

Spec == Init /\ [][Next]_vars

-----------------------------------------------------------------------------
(* Properties *)

\* An operation is terminal only with its security event on record, and may
\* expire only then: what the validation hook of the operation schema demands,
\* which no update runs.  Requests and jobs finish the same operation.
AuditedBeforeTerminal ==
    \A o \in Operation : LET d == op[o] IN
        /\ d.status \in Terminal => /\ d.terminalEvent = d.status
                                    /\ <<o, d.status>> \in events
        /\ d.expires => d.status \in Terminal

\* Every change of status is one of allowedTransitions, although the job and
\* finishTerminal write theirs without validateTransition, and a terminal
\* operation keeps its outcome, its event and its result, whoever else is still
\* working on it with what it read before.
StatusLifecycle ==
    [][\A o \in Operation :
          /\ op'[o].status # op[o].status =>
                \/ op[o].status = "absent" /\ op'[o].status \in {"pending", "completed"}
                \/ Allowed(op[o].status, op'[o].status)
          /\ op[o].status \in Terminal =>
                /\ op'[o].terminalEvent = op[o].terminalEvent
                /\ op'[o].result = op[o].result]_vars

\* A claimant that no longer signs in as Original has a replacement that is
\* registered for it, through every failure, compensation and resumption.
\* (Requests that bring different mappings under one operation id can break this,
\* and so can a second operation id.)
OwnReplacement ==
    \A s \in Claimant :
        account[s] # Original => reservation[account[s]].subject = s

\* An identifier of another account is never taken over.
OthersKeepTheirs ==
    [][\A i \in Identifier :
          reservation[i].subject = Outsider => reservation'[i] = reservation[i]]_vars
============================================================================
