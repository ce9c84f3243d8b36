--------------------------- MODULE OfflineRepair ----------------------------
(***************************************************************************)
(* The offline repair of a conflict too large for one request (src/src/    *)
(* auth/auth-identifier-repair.service.ts, run by the command src/scripts/ *)
(* resolve-auth-identifier-conflict.ts) beside the reconciliation job of   *)
(* every instance (auth-identifier-reconciliation.service.ts).             *)
(*                                                                         *)
(* A manifest is cut into batches; the reassignments of one batch change   *)
(* together, in a transaction, so one replacement reservation and one      *)
(* account stand for those of a batch.  The manifest is verified against   *)
(* the hash of the dry run before anything else, so every command works on *)
(* the same batches.  A transaction is one step; so is a read together     *)
(* with the write it guards, except where the read value is used later.    *)
(***************************************************************************)
EXTENDS Integers, FiniteSets

CONSTANTS
    Batches,        \* the number of batches of the manifest
    Runner,         \* concurrent executions of the command
    Worker,         \* instances that run the reconciliation job
    Retains,        \* the manifest leaves the identifier to one claimant
    MaxAssignments, \* in batches: AUTH_IDENTIFIER_MAX_OPERATION_ASSIGNMENTS
    None,           \* an unset field
    MaxFaults       \* bound: failed calls, dead commands and jobs

ASSUME BoundsAssumption ==
    /\ Batches \in Nat \ {0} /\ MaxAssignments \in Nat \ {0}
    /\ MaxFaults \in Nat /\ Retains \in BOOLEAN

ASSUME NoneAssumption == None \notin Worker \cup {"completed", "failed-terminal"}

Batch == 1..Batches

VARIABLES
    op,             \* the parent operation
    conflict,       \* the reservation of the conflicting identifier
    batch,          \* the repair-batch documents
    target,         \* the replacement reservations of each batch
    account,        \* the identifier of the batch's accounts
    events,         \* terminal security events of the operation
    runner, worker, \* commands and jobs: what they read before
    faults          \* bound on failures

documents == <<op, conflict, batch, target, account, events>>
vars == <<documents, runner, worker, faults>>

Terminal == {"completed", "failed-terminal"}

OperationStatus == Terminal \cup {"absent", "pending", "applying",
    "compensating", "finalizing", "failed-retryable"}

Operation ==
    [ status : OperationStatus,
      cleanup : {"not-required", "pending", "completed"},
      terminalEvent : Terminal \cup {None},
      expires : BOOLEAN,
      owner : Worker \cup {None}, leased : BOOLEAN ]

\* claimants: the document still lists its conflictingSubjects.
Conflict == [ status : {"conflict", "active", "released"}, claimants : BOOLEAN ]

BatchStatus == {"absent", "prepared", "activated", "compensated"}

\* "other": active for an account outside the repair.
Target == [ status : {"absent", "pending", "active", "released", "other"},
            gated : BOOLEAN ]               \* activationGateOperationId

RunnerState ==
    [ pc : {"idle", "start", "prepare", "activate", "activating", "finalize",
            "complete", "applyFailed", "cancel", "compensate", "reopen",
            "abandon", "finish", "cancelFailed"},
      from : OperationStatus,               \* the status that was read
      at : 0..(Batches + 1),                \* the batch in hand
      seen : [Batch -> BatchStatus] ]       \* the batches cancel() found

IdleRunner == [ pc |-> "idle", from |-> "absent", at |-> 1,
                seen |-> [b \in Batch |-> "absent"] ]

WorkerState ==
    [ pc : {"idle", "attach", "move", "record", "finish", "ungate", "close",
            "leave"},
      from : OperationStatus ]              \* the status as it was claimed

IdleWorker == [ pc |-> "idle", from |-> "absent" ]

TypeOK ==
    /\ op \in Operation
    /\ conflict \in Conflict
    /\ batch \in [Batch -> [ status : BatchStatus, expired : BOOLEAN ]]
    /\ target \in [Batch -> Target]
    /\ account \in [Batch -> {"original", "replacement"}]
    /\ events \subseteq Terminal
    /\ runner \in [Runner -> RunnerState]
    /\ worker \in [Worker -> WorkerState]
    /\ faults \in 0..MaxFaults

Init ==
    /\ op = [ status |-> "absent", cleanup |-> "not-required",
              terminalEvent |-> None, expires |-> FALSE, owner |-> None,
              leased |-> FALSE ]
    /\ conflict = [ status |-> "conflict", claimants |-> TRUE ]
    /\ batch = [b \in Batch |-> [ status |-> "absent", expired |-> FALSE ]]
    /\ target = [b \in Batch |-> [ status |-> "absent", gated |-> FALSE ]]
    /\ account = [b \in Batch |-> "original"]
    /\ events = {}
    /\ runner = [r \in Runner |-> IdleRunner]
    /\ worker = [w \in Worker |-> IdleWorker]
    /\ faults = 0

-----------------------------------------------------------------------------
(* dryRun() and apply() *)

\* loadConflict and validateManifestSubjects: the conflict is open and its
\* claimants are those of the manifest.
Resolvable == conflict.status = "conflict" /\ conflict.claimants

\* The operation exists, the manifest is the one of its dry run, and it is not
\* over: a terminal operation is replayed.
Resumable == op.status \notin Terminal \cup {"absent"}

\* reserveReplacement finds the identifier free or pending for this repair.
Reservable(b) == target[b].status \in {"absent", "released", "pending"}

\* The accounts of a batch change their identifier.
SetAggregateIdentifier(b, identifier) ==
    account' = [account EXCEPT ![b] = identifier]

\* The parent has no assignments of its own and needs no cleanup yet.
DryRun ==
    /\ op.status = "absent"
    /\ Resolvable
    /\ op' = [op EXCEPT !.status = "pending"]
    /\ UNCHANGED <<conflict, batch, target, account, events, runner, worker,
                   faults>>

\* apply() reads the operation and the conflict and carries on from the status
\* it finds.
Apply(r) ==
    /\ runner[r].pc = "idle"
    /\ Resumable /\ Resolvable
    /\ runner' = [runner EXCEPT ![r].from = op.status,
                     ![r].pc = IF op.status \in {"pending", "failed-retryable"}
                               THEN "start" ELSE "prepare"]
    /\ UNCHANGED <<documents, worker, faults>>

\* The outcome of this update is not looked at.
StartApplying(r) ==
    /\ runner[r].pc = "start"
    /\ op' = IF op.status = runner[r].from
             THEN [op EXCEPT !.status = "applying"] ELSE op
    /\ runner' = [runner EXCEPT ![r].pc = "prepare"]
    /\ UNCHANGED <<conflict, batch, target, account, events, worker, faults>>

\* The next batch of a phase, or the next phase.
Advance(r, pc, next) ==
    runner' = [runner EXCEPT ![r].pc = IF runner[r].at < Batches THEN pc ELSE next,
                             ![r].at = IF @ < Batches THEN @ + 1 ELSE 1]

\* prepareBatch: one transaction reserves the replacements, changes the
\* accounts and writes the batch; a batch beyond "pending" is done.
PrepareBatch(r) ==
    LET b == runner[r].at IN
    /\ runner[r].pc = "prepare"
    /\ \/ /\ batch[b].status # "absent"
          /\ Advance(r, "prepare", "activate")
          /\ UNCHANGED <<batch, target, account>>
       \/ /\ batch[b].status = "absent"
          /\ Reservable(b)
          /\ batch' = [batch EXCEPT ![b].status = "prepared"]
          /\ target' = [target EXCEPT ![b].status = "pending"]
          /\ SetAggregateIdentifier(b, "replacement")
          /\ Advance(r, "prepare", "activate")
       \/ /\ batch[b].status = "absent"
          /\ ~Reservable(b)
          /\ runner' = [runner EXCEPT ![r].pc = "applyFailed"]
          /\ UNCHANGED <<batch, target, account>>
    /\ UNCHANGED <<op, conflict, events, worker, faults>>

\* Mutant: a batch that is not prepared is skipped.
ActivatePrepared(r) ==
    LET b == runner[r].at IN
    /\ runner[r].pc = "activate"
    /\ IF batch[b].status = "prepared"
       THEN runner' = [runner EXCEPT ![r].pc = "activating"]
       ELSE Advance(r, "activate", "finalize")
    /\ UNCHANGED <<documents, worker, faults>>

\* activateBatch reads the batch ...
ActivateBatch(r) ==
    LET b == runner[r].at IN
    /\ runner[r].pc = "activate"
    /\ \/ /\ batch[b].status \in {"absent", "activated"}
          /\ Advance(r, "activate", "finalize")
       \/ /\ batch[b].status = "compensated"
          /\ runner' = [runner EXCEPT ![r].pc = "applyFailed"]
       \/ /\ batch[b].status = "prepared"
          /\ runner' = [runner EXCEPT ![r].pc = "activating"]
    /\ UNCHANGED <<documents, worker, faults>>

\* Mutant: the reservations are activated without the gate.
ActivateUngated(r) ==
    LET b == runner[r].at IN
    /\ runner[r].pc = "activating"
    /\ target' = [target EXCEPT ![b] =
          IF @.status = "pending" THEN [ status |-> "active", gated |-> FALSE ]
          ELSE @]
    /\ batch' = [batch EXCEPT ![b].status = "activated"]
    /\ Advance(r, "activate", "finalize")
    /\ UNCHANGED <<op, conflict, account, events, worker, faults>>

\* ... and marks its pending reservations active, behind the gate.
ActivateReservations(r) ==
    LET b == runner[r].at IN
    /\ runner[r].pc = "activating"
    /\ target' = [target EXCEPT ![b] =
          IF @.status = "pending" THEN [ status |-> "active", gated |-> TRUE ]
          ELSE @]
    /\ batch' = [batch EXCEPT ![b].status = "activated"]
    /\ Advance(r, "activate", "finalize")
    /\ UNCHANGED <<op, conflict, account, events, worker, faults>>

BeginFinalizing(r) ==
    /\ runner[r].pc = "finalize"
    /\ op' = IF op.status = "applying"
             THEN [op EXCEPT !.status = "finalizing"] ELSE op
    /\ runner' = [runner EXCEPT ![r].pc = "complete"]
    /\ UNCHANGED <<conflict, batch, target, account, events, worker, faults>>

\* completeParent: the conflict, the event and the operation in a transaction.
\* No count of its updates is looked at.
CompleteParent(r) ==
    /\ runner[r].pc = "complete"
    /\ conflict' = IF conflict.status = "conflict"
                   THEN [ status |-> IF Retains THEN "active" ELSE "released",
                          claimants |-> FALSE ]
                   ELSE conflict
    /\ events' = events \cup {"completed"}
    /\ op' = IF op.status = "finalizing"
             THEN [op EXCEPT !.status = "completed", !.cleanup = "pending",
                             !.terminalEvent = "completed"]
             ELSE op
    /\ runner' = [runner EXCEPT ![r] = IdleRunner]
    /\ UNCHANGED <<batch, target, account, worker, faults>>

\* The catch block of apply().
ApplyFailed(r) ==
    /\ runner[r].pc = "applyFailed"
    /\ op' = IF op.status = "applying"
             THEN [op EXCEPT !.status = "failed-retryable"] ELSE op
    /\ runner' = [runner EXCEPT ![r] = IdleRunner]
    /\ UNCHANGED <<conflict, batch, target, account, events, worker, faults>>

-----------------------------------------------------------------------------
(* cancel() *)

Cancel(r) ==
    /\ runner[r].pc = "idle"
    /\ Resumable
    /\ runner' = [runner EXCEPT ![r].pc = "cancel"]
    /\ UNCHANGED <<documents, worker, faults>>

\* The operation turns to compensating, if it still can, and the batches are
\* read; they are compensated from the last to the first.
BeginCancelling(r) ==
    /\ runner[r].pc = "cancel"
    /\ op' = IF op.status \in {"applying", "failed-retryable", "pending"}
             THEN [op EXCEPT !.status = "compensating"] ELSE op
    /\ runner' = [runner EXCEPT ![r].pc = "compensate", ![r].at = Batches,
                     ![r].seen = [b \in Batch |-> batch[b].status]]
    /\ UNCHANGED <<conflict, batch, target, account, events, worker, faults>>

\* Mutant: only a prepared batch is compensated, an activated one is skipped.
CompensatePrepared(r) ==
    LET b == runner[r].at IN
    /\ runner[r].pc = "compensate"
    /\ IF runner[r].seen[b] # "absent"
       THEN /\ target' = [target EXCEPT ![b] =
                  IF @.status = "pending" THEN [ status |-> "released", gated |-> FALSE ]
                  ELSE @]
            /\ batch' = [batch EXCEPT ![b].status = "compensated"]
            /\ SetAggregateIdentifier(b, "original")
       ELSE UNCHANGED <<batch, target, account>>
    /\ runner' = [runner EXCEPT ![r].at = @ - 1,
                     ![r].pc = IF b = 1 THEN "reopen" ELSE "compensate"]
    /\ UNCHANGED <<op, conflict, events, worker, faults>>

\* compensateBatch, for the batch as it was read; without the conflict there
\* is no original identifier to go back to.
CompensateBatch(r) ==
    LET b == runner[r].at
        Onward == runner' = [runner EXCEPT ![r].at = @ - 1,
                               ![r].pc = IF b = 1 THEN "reopen" ELSE "compensate"]
    IN
    /\ runner[r].pc = "compensate"
    /\ \/ /\ runner[r].seen[b] \in {"absent", "compensated"}
          /\ Onward
          /\ UNCHANGED <<batch, target, account>>
       \/ /\ runner[r].seen[b] \notin {"absent", "compensated"}
          /\ conflict.status = "conflict"
          /\ batch' = [batch EXCEPT ![b].status = "compensated"]
          /\ target' = [target EXCEPT ![b] =
                           [ status |-> "released", gated |-> FALSE ]]
          /\ SetAggregateIdentifier(b, "original")
          /\ Onward
       \/ /\ runner[r].seen[b] \notin {"absent", "compensated"}
          /\ conflict.status # "conflict"
          /\ runner' = [runner EXCEPT ![r].pc = "cancelFailed"]
          /\ UNCHANGED <<batch, target, account>>
    /\ UNCHANGED <<op, conflict, events, worker, faults>>

\* The identifier is in conflict again, whatever it is now.
ReopenConflict(r) ==
    /\ runner[r].pc = "reopen"
    /\ conflict' = [conflict EXCEPT !.status = "conflict"]
    /\ runner' = [runner EXCEPT ![r].pc = "abandon"]
    /\ UNCHANGED <<op, batch, target, account, events, worker, faults>>

BeginAbandoning(r) ==
    /\ runner[r].pc = "abandon"
    /\ op' = IF op.status = "compensating"
             THEN [op EXCEPT !.status = "finalizing"] ELSE op
    /\ runner' = [runner EXCEPT ![r].pc = "finish"]
    /\ UNCHANGED <<conflict, batch, target, account, events, worker, faults>>

\* finishFailedParent
FinishFailedParent(r) ==
    /\ runner[r].pc = "finish"
    /\ events' = events \cup {"failed-terminal"}
    /\ op' = IF op.status = "finalizing"
             THEN [op EXCEPT !.status = "failed-terminal", !.cleanup = "pending",
                             !.terminalEvent = "failed-terminal"]
             ELSE op
    /\ runner' = [runner EXCEPT ![r] = IdleRunner]
    /\ UNCHANGED <<conflict, batch, target, account, worker, faults>>

\* The catch block of cancel().
CancelFailed(r) ==
    /\ runner[r].pc = "cancelFailed"
    /\ op' = IF op.status = "compensating"
             THEN [op EXCEPT !.status = "failed-retryable"] ELSE op
    /\ runner' = [runner EXCEPT ![r] = IdleRunner]
    /\ UNCHANGED <<conflict, batch, target, account, events, worker, faults>>

-----------------------------------------------------------------------------
(* The reconciliation job *)

\* claim(): every operation that is not over, or whose cleanup is pending.
Claim(w) ==
    /\ worker[w].pc = "idle"
    /\ op.status # "absent"
    /\ op.status \in Terminal => op.cleanup = "pending"
    /\ ~op.leased
    /\ op' = [op EXCEPT !.owner = w, !.leased = TRUE]
    /\ worker' = [worker EXCEPT ![w] =
          [ from |-> op.status,
            pc |-> IF op.status \in Terminal THEN "ungate" ELSE "attach" ]]
    /\ UNCHANGED <<conflict, batch, target, account, events, runner, faults>>

Owned(w) == op.owner = w

\* attachMissingReservationReferences: there is no assignment to attach to, but
\* more pending reservations than an operation may have make it retryable.
AttachMissingReferences(w) ==
    LET pending == {b \in Batch : target[b].status = "pending"} IN
    /\ worker[w].pc = "attach"
    /\ op' = IF /\ Cardinality(pending) > MaxAssignments
                /\ op.status = worker[w].from /\ Owned(w)
             THEN [op EXCEPT !.status = "failed-retryable"] ELSE op
    /\ worker' = [worker EXCEPT ![w].pc =
          IF worker[w].from = "finalizing" THEN "record" ELSE "move"]
    /\ UNCHANGED <<conflict, batch, target, account, events, runner, faults>>

\* process() on an operation without assignments: nothing is left to recover.
NextStatus(from) ==
    IF from \in {"pending", "failed-retryable"} THEN "applying" ELSE "finalizing"

Move(w) ==
    /\ worker[w].pc = "move"
    /\ op' = IF op.status = worker[w].from /\ Owned(w)
             THEN [op EXCEPT !.status = NextStatus(worker[w].from)] ELSE op
    /\ worker' = [worker EXCEPT ![w].pc = "leave"]
    /\ UNCHANGED <<conflict, batch, target, account, events, runner, faults>>

\* finalize(): all of no assignments are compensated, so the outcome is failure.
RecordRecovered(w) ==
    /\ worker[w].pc = "record"
    /\ events' = events \cup {"failed-terminal"}
    /\ worker' = [worker EXCEPT ![w].pc = "finish"]
    /\ UNCHANGED <<op, conflict, batch, target, account, runner, faults>>

FinishRecovered(w) ==
    /\ worker[w].pc = "finish"
    /\ op' = IF op.status = "finalizing" /\ Owned(w)
             THEN [op EXCEPT !.status = "failed-terminal", !.expires = TRUE,
                             !.terminalEvent = "failed-terminal"]
             ELSE op
    /\ worker' = [worker EXCEPT ![w].pc = "leave"]
    /\ UNCHANGED <<conflict, batch, target, account, events, runner, faults>>

\* cleanup(): at most MaxAssignments gates are opened, those of a failed repair
\* released; what is left of the limit expires batches.
Cleanup(w) ==
    LET gated == {b \in Batch : target[b].gated}
        live == {b \in Batch : batch[b].status # "absent" /\ ~batch[b].expired} IN
    /\ worker[w].pc = "ungate"
    /\ \E G \in SUBSET gated, B \in SUBSET live :
          /\ Cardinality(G) = IF Cardinality(gated) < MaxAssignments
                              THEN Cardinality(gated) ELSE MaxAssignments
          /\ LET left == MaxAssignments - Cardinality(G) IN
             Cardinality(B) = IF Cardinality(live) < left
                              THEN Cardinality(live) ELSE left
          /\ target' = [b \in Batch |->
                IF b \notin G THEN target[b]
                ELSE [ status |-> IF worker[w].from = "failed-terminal"
                                  THEN "released" ELSE target[b].status,
                       gated |-> FALSE ]]
          /\ batch' = [b \in Batch |->
                IF b \in B THEN [batch[b] EXCEPT !.expired = TRUE] ELSE batch[b]]
    /\ worker' = [worker EXCEPT ![w].pc = "close"]
    /\ UNCHANGED <<op, conflict, account, events, runner, faults>>

\* Mutant: closed after one bounded pass.
CloseAfterOnePass(w) ==
    /\ worker[w].pc = "close"
    /\ op' = IF /\ Owned(w) /\ op.status \in Terminal
                /\ op.cleanup = "pending" /\ op.terminalEvent # None
             THEN [op EXCEPT !.cleanup = "completed", !.expires = TRUE] ELSE op
    /\ worker' = [worker EXCEPT ![w].pc = "leave"]
    /\ UNCHANGED <<conflict, batch, target, account, events, runner, faults>>

\* With no gate and no batch left, the operation may expire.
CloseCleanup(w) ==
    LET done == /\ \A b \in Batch : ~target[b].gated
                /\ \A b \in Batch : batch[b].status # "absent" => batch[b].expired
    IN
    /\ worker[w].pc = "close"
    /\ op' = IF /\ done /\ Owned(w) /\ op.status \in Terminal
                /\ op.cleanup = "pending" /\ op.terminalEvent # None
             THEN [op EXCEPT !.cleanup = "completed", !.expires = TRUE] ELSE op
    /\ worker' = [worker EXCEPT ![w].pc = "leave"]
    /\ UNCHANGED <<conflict, batch, target, account, events, runner, faults>>

ReleaseLease(w) ==
    /\ worker[w].pc = "leave"
    /\ op' = IF Owned(w) THEN [op EXCEPT !.leased = FALSE] ELSE op
    /\ worker' = [worker EXCEPT ![w] = IdleWorker]
    /\ UNCHANGED <<conflict, batch, target, account, events, runner, faults>>

-----------------------------------------------------------------------------
(* Everything else that happens *)

\* Another account takes a replacement that is free.
TakeIdentifier(b) ==
    /\ target[b].status \in {"absent", "released"}
    /\ target' = [target EXCEPT ![b].status = "other"]
    /\ UNCHANGED <<op, conflict, batch, account, events, runner, worker, faults>>

\* A lease runs out: after its worker died, or, as a fault, under a slow one.
ExpireLease ==
    LET held == worker[op.owner].pc # "idle" IN
    /\ op.leased
    /\ held => faults < MaxFaults
    /\ op' = [op EXCEPT !.leased = FALSE]
    /\ faults' = IF held THEN faults + 1 ELSE faults
    /\ UNCHANGED <<conflict, batch, target, account, events, runner, worker>>

\* A call fails, the administrator is no longer authorized, or the command dies.
FailRunner(r) ==
    LET failed == CASE runner[r].pc \in {"prepare", "activate", "activating",
                                         "finalize", "complete"} -> "applyFailed"
                    [] runner[r].pc \in {"compensate", "reopen", "abandon",
                                         "finish"} -> "cancelFailed"
                    [] OTHER -> "idle" IN
    /\ faults < MaxFaults
    /\ runner[r].pc # "idle"
    /\ \/ failed # "idle" /\ runner' = [runner EXCEPT ![r] =
                                          [IdleRunner EXCEPT !.pc = failed]]
       \/ runner' = [runner EXCEPT ![r] = IdleRunner]
    /\ faults' = faults + 1
    /\ UNCHANGED <<documents, worker>>

FailWorker(w) ==
    /\ faults < MaxFaults
    /\ worker[w].pc \notin {"idle", "leave"}
    /\ \/ worker' = [worker EXCEPT ![w] = IdleWorker]
       \/ worker' = [worker EXCEPT ![w].pc = "leave"]
    /\ faults' = faults + 1
    /\ UNCHANGED <<documents, runner>>

-----------------------------------------------------------------------------
Command(r) ==
    \/ Apply(r) \/ StartApplying(r) \/ PrepareBatch(r) \/ ActivateBatch(r)
    \/ ActivateReservations(r) \/ BeginFinalizing(r) \/ CompleteParent(r)
    \/ ApplyFailed(r)
    \/ Cancel(r) \/ BeginCancelling(r) \/ CompensateBatch(r) \/ ReopenConflict(r)
    \/ BeginAbandoning(r) \/ FinishFailedParent(r) \/ CancelFailed(r)

Pass(w) ==
    \/ Claim(w) \/ AttachMissingReferences(w) \/ Move(w) \/ RecordRecovered(w)
    \/ FinishRecovered(w) \/ Cleanup(w) \/ CloseCleanup(w) \/ ReleaseLease(w)

Next ==
    \/ DryRun
    \/ \E r \in Runner : Command(r) \/ FailRunner(r)
    \/ \E w \in Worker : Pass(w) \/ FailWorker(w)
    \/ \E b \in Batch : TakeIdentifier(b)
    \/ ExpireLease

Spec == Init /\ [][Next]_vars

-----------------------------------------------------------------------------
(* Properties *)

\* Sign-in with the replacement: the reservation is active and agrees with the
\* account, and its gate, if there is one, leads to a completed repair.
SignsIn(b) ==
    /\ target[b].status = "active" /\ account[b] = "replacement"
    /\ target[b].gated => op.status = "completed"

\* A repair takes effect at once: as long as it is not completed no account signs
\* in with its replacement, whatever batches are active, cancelled or resumed,
\* and whoever opened gates.
NoPartialOwnership == (\E b \in Batch : SignsIn(b)) => op.status = "completed"

\* ... and as a whole: once it is completed every account signs in with its
\* replacement, also when a cancellation compensated some batches, failed and the
\* repair was taken up again.
AllOrNothing == op.status = "completed" => \A b \in Batch : SignsIn(b)

\* An account has its replacement exactly while the reservation is held for it,
\* so no compensated or abandoned batch leaves an account without a reservation
\* or a reservation without its account.
AccountFollowsReservation ==
    \A b \in Batch :
        account[b] = "replacement" <=> target[b].status \in {"pending", "active"}

\* The cleanup of a repair is closed when nothing is left of it, in however many
\* bounded passes and by however many instances it was done.
CleanedUp ==
    op.cleanup = "completed" =>
        \A b \in Batch : /\ ~target[b].gated
                         /\ batch[b].status # "absent" => batch[b].expired

============================================================================
