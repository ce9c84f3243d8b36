---------------------------- MODULE KeyRotation ----------------------------
(***************************************************************************)
(* Rotation of the audit-correlation key while repairs and throttle        *)
(* buckets still depend on older versions of it:                           *)
(* src/src/auth/auth-identifier-repair-key-policy.service.ts,              *)
(* src/scripts/preflight-auth-audit-key-rotation.ts, and the life of the   *)
(* reconciler that must finish the repairs before a version can be retired *)
(* (src/src/auth/auth-identifier-reconciliation.service.ts: bootstrap,     *)
(* migration probe, schedule, bounded pass, shutdown).                     *)
(*                                                                         *)
(* What a pass does to a repair is IdentifierOperations and OfflineRepair; *)
(* here it moves the repair one phase on.  What a request does to a bucket *)
(* is AuthThrottle; here a bucket of a version is live or it is not.       *)
(***************************************************************************)
EXTENDS Naturals, FiniteSets, SequencesExt

CONSTANTS
    Instance,           \* application processes
    Repair,             \* offline repairs that may be started
    Version,            \* versions of the key
    FirstVersion,       \* the version deployed at first
    Unset,
    MaxPreviousKeys,    \* MAX_PREVIOUS_KEYS, two in the code
    BatchSize,          \* identifierReconciliationBatchSize
    MaxRestarts,        \* bound: shutdowns that no rollout asks for
    MaxFailures         \* bound: crashes and failed database calls

ASSUME KeyAssumption ==
    /\ FirstVersion \in Version
    /\ IsFiniteSet(Version)

ASSUME RotationBounds ==
    /\ MaxPreviousKeys \in Nat \ {0} /\ BatchSize \in Nat \ {0}
    /\ MaxRestarts \in Nat /\ MaxFailures \in Nat

VARIABLES
    migration,  \* how far migration 003 has come
    repair,     \* offline repairs, the fields a key version depends on
    order,      \* repairs by updatedAt, the oldest first
    bucket,     \* versions with an unexpired throttle bucket
    deployed,   \* configuration a process reads when it starts
    process,    \* AuthIdentifierReconciliationService in each process
    pass,       \* runBoundedPass in each process
    operator,   \* the rotation the operator is after
    restarts, failures

rotationVars == <<migration, repair, order, bucket, deployed, process, pass,
                  operator, restarts, failures>>

\* parsePreviousKeys and loadAuthConfig: a current version and at most
\* MaxPreviousKeys others.
Ring == { k \in [current : Version, previous : SUBSET Version] :
            /\ k.current \notin k.previous
            /\ Cardinality(k.previous) <= MaxPreviousKeys }

ASSUME UnsetAssumption == Unset \notin Instance \cup Version \cup Repair \cup Ring

\* configuredKeys
Configured(k) == {k.current} \cup k.previous

\* An incomplete status, a terminal one whose cleanupStatus is pending, a
\* terminal one that expires.
Phase == {"absent", "incomplete", "cleanup", "closed"}

\* large: more reservations wait than a pass may attach to the operation.
NoRepair == [ phase |-> "absent", version |-> Unset, lease |-> Unset,
              large |-> FALSE ]

\* start is readinessStart: the query for the migration record, the same
\* query once the lifecycle generation has moved on, or the startup pass.
\* waiters are the callers that share its promise.
Down == [ stage |-> "down", ring |-> Unset, start |-> "none", waiters |-> {},
          scheduled |-> FALSE, probe |-> FALSE ]

NoPass == [pc |-> "idle", list |-> <<>>, claimed |-> 0]

\* asked are the queries without an answer; required is what the others found,
\* and in the end requiredPreviousVersions.
NoRotation == [ pc |-> "idle", candidate |-> Unset,
                asked |-> {}, required |-> {} ]

RotationInit ==
    /\ migration = "pending"
    /\ repair = [r \in Repair |-> NoRepair]
    /\ order = <<>>
    /\ bucket = {}
    /\ deployed = [current |-> FirstVersion, previous |-> {}]
    /\ process = [i \in Instance |-> Down]
    /\ pass = [i \in Instance |-> NoPass]
    /\ operator = NoRotation
    /\ restarts = 0
    /\ failures = 0

Running(i) == process[i].stage = "running"

\* The indexes come first and the record last.
Indexed == migration \in {"indexed", "recorded"}

UNCHANGED_DB == UNCHANGED <<migration, repair, order, bucket>>
UNCHANGED_OPS == UNCHANGED <<deployed, operator>>

-----------------------------------------------------------------------------
(* The life of the reconciler in a process.                                *)

\* How startWhenMigrationsReady ends for those that wait for it: a bootstrap
\* that was not started registers the probe, a probe that was is cleared.
Finish(p, started) ==
    [p EXCEPT
       !.start = "none",
       !.waiters = {},
       !.probe = IF started THEN @ /\ "probe" \notin p.waiters
                 ELSE @ \/ ( /\ "bootstrap" \in p.waiters
                             /\ p.stage = "running"
                             /\ ~p.scheduled )]

\* startWhenMigrationsReady: one promise for all callers; the first sends
\* the query.
AskToStart(p, caller) ==
    IF p.start = "none" /\ p.scheduled
    THEN Finish([p EXCEPT !.waiters = {caller}], TRUE)
    ELSE [p EXCEPT !.start = IF @ = "none" THEN "check" ELSE @,
                   !.waiters = @ \cup {caller}]

\* A process starts on the deployed configuration: onApplicationBootstrap.
StartProcess(i) ==
    /\ process[i].stage = "down"
    /\ process' = [process EXCEPT ![i] =
                     AskToStart([Down EXCEPT !.stage = "running",
                                             !.ring = deployed],
                                "bootstrap")]
    /\ UNCHANGED <<pass, restarts, failures>> /\ UNCHANGED_DB /\ UNCHANGED_OPS

\* onApplicationBootstrap of a service that was shut down before: the
\* generation moves on, a query that is still in flight is shared.
BootstrapAgain(i) ==
    /\ restarts < MaxRestarts
    /\ process[i].stage = "down" /\ process[i].ring # Unset
    /\ process' = [process EXCEPT ![i] =
                     AskToStart([@ EXCEPT !.stage = "running"], "bootstrap")]
    /\ restarts' = restarts + 1
    /\ UNCHANGED <<pass, failures>> /\ UNCHANGED_DB /\ UNCHANGED_OPS

\* Mutant: the lifecycle is not looked at again after the query.
MayStartLate(p) == p.start \in {"check", "stale"}

\* startWhenMigrationsReadyOnce after its query, when the generation is
\* still the one it started in.
MayStart(p) == p.start = "check" /\ p.stage = "running"

\* reconcileOnce: a pass that runs is shared.
BeginPass(q) == IF q.pc = "idle" THEN [q EXCEPT !.pc = "query"] ELSE q

ReadinessKnown(i) ==
    LET p == process[i] IN
    /\ p.start \in {"check", "stale"}
    /\ IF migration = "recorded" /\ MayStart(p) /\ ~p.scheduled
       THEN /\ process' = [process EXCEPT ![i] =
                             [@ EXCEPT !.scheduled = TRUE, !.start = "pass"]]
            /\ pass' = [pass EXCEPT ![i] = BeginPass(@)]
       ELSE /\ process' = [process EXCEPT ![i] = Finish(@, p.scheduled)]
            /\ UNCHANGED pass
    /\ UNCHANGED <<restarts, failures>> /\ UNCHANGED_DB /\ UNCHANGED_OPS

\* The query fails; bootstrap and probe contain the rejection.
ReadinessUnknown(i) ==
    /\ failures < MaxFailures
    /\ process[i].start \in {"check", "stale"}
    /\ process' = [process EXCEPT ![i] = Finish(@, FALSE)]
    /\ failures' = failures + 1
    /\ UNCHANGED <<pass, restarts>> /\ UNCHANGED_DB /\ UNCHANGED_OPS

\* runReadinessProbe, by the interval of registerReadinessProbe.
ProbeTick(i) ==
    /\ process[i].probe
    /\ "probe" \notin process[i].waiters
    /\ process' = [process EXCEPT ![i] = AskToStart(@, "probe")]
    /\ UNCHANGED <<pass, restarts, failures>> /\ UNCHANGED_DB /\ UNCHANGED_OPS

\* The interval of registerSchedule.
ScheduleTick(i) ==
    /\ process[i].scheduled
    /\ pass[i].pc = "idle"
    /\ pass' = [pass EXCEPT ![i] = BeginPass(@)]
    /\ UNCHANGED <<process, restarts, failures>>
    /\ UNCHANGED_DB /\ UNCHANGED_OPS

\* onApplicationShutdown: a query in flight belongs to an old generation.
Stopped(p) ==
    [p EXCEPT !.stage = "draining", !.scheduled = FALSE, !.probe = FALSE,
              !.start = IF @ = "check" THEN "stale" ELSE @]

Shutdown(i) ==
    /\ Running(i)
    /\ \/ process[i].ring # deployed /\ UNCHANGED restarts
       \/ restarts < MaxRestarts /\ restarts' = restarts + 1
    /\ process' = [process EXCEPT ![i] = Stopped(@)]
    /\ UNCHANGED <<pass, failures>> /\ UNCHANGED_DB /\ UNCHANGED_OPS

\* onModuleDestroy returns: the active pass has ended, and mongoose may
\* close its connection.
Drained(i) ==
    /\ process[i].stage = "draining"
    /\ pass[i].pc = "idle"
    /\ process' = [process EXCEPT ![i].stage = "down"]
    /\ UNCHANGED <<pass, restarts, failures>> /\ UNCHANGED_DB /\ UNCHANGED_OPS

Crash(i) ==
    /\ failures < MaxFailures
    /\ process[i].stage # "down"
    /\ process' = [process EXCEPT ![i] = Down]
    /\ pass' = [pass EXCEPT ![i] = NoPass]
    /\ failures' = failures + 1
    /\ UNCHANGED restarts /\ UNCHANGED_DB /\ UNCHANGED_OPS

-----------------------------------------------------------------------------
(* A bounded pass.                                                         *)

Touched(r) == Append(SelectSeq(order, LAMBDA q : q # r), r)

\* candidateFilter, and the filter of claim.
Reconcilable(r) ==
    /\ repair[r].phase \in {"incomplete", "cleanup"}
    /\ repair[r].lease = Unset

\* Mutant: the current key alone is looked up.
CurrentKeyMatches(i, r) == repair[r].version = process[i].ring.current

\* repairWorkerDecision and getKeyMaterial of repairKeyAvailable
RepairKeyAvailable(i, r) == repair[r].version \in Configured(process[i].ring)

\* The pass ends, and the start that ran it.
EndPass(i) ==
    /\ pass' = [pass EXCEPT ![i] = NoPass]
    /\ process' = [process EXCEPT ![i] =
                     IF @.start = "pass" THEN Finish(@, TRUE) ELSE @]

QueryCandidates(i) ==
    /\ pass[i].pc = "query"
    /\ LET found == SelectSeq(order, Reconcilable)
           limit == IF Len(found) < 2 * BatchSize
                    THEN Len(found) ELSE 2 * BatchSize
       IN  pass' = [pass EXCEPT ![i] =
                      [@ EXCEPT !.pc = "next",
                                !.list = SubSeq(found, 1, limit)]]
    /\ UNCHANGED <<process, restarts, failures>>
    /\ UNCHANGED_DB /\ UNCHANGED_OPS

QueryFails(i) ==
    /\ failures < MaxFailures
    /\ pass[i].pc = "query"
    /\ EndPass(i)
    /\ failures' = failures + 1
    /\ UNCHANGED restarts /\ UNCHANGED_DB /\ UNCHANGED_OPS

PassIsOver(i) ==
    /\ pass[i].pc = "next"
    /\ pass[i].list = <<>> \/ pass[i].claimed >= BatchSize
    /\ EndPass(i)
    /\ UNCHANGED <<restarts, failures>> /\ UNCHANGED_DB /\ UNCHANGED_OPS

\* One candidate of the loop: no key, a lost claim, or a claim, which writes
\* updatedAt and puts the repair behind the others.
TakeCandidate(i) ==
    /\ pass[i].pc = "next"
    /\ pass[i].list # <<>> /\ pass[i].claimed < BatchSize
    /\ LET r == Head(pass[i].list) IN
       IF RepairKeyAvailable(i, r) /\ Reconcilable(r)
       THEN /\ repair' = [repair EXCEPT ![r].lease = i]
            /\ order' = Touched(r)
            /\ pass' = [pass EXCEPT ![i] =
                          [@ EXCEPT !.pc = "work", !.claimed = @ + 1]]
       ELSE /\ pass' = [pass EXCEPT ![i].list = Tail(@)]
            /\ UNCHANGED <<repair, order>>
    /\ UNCHANGED <<migration, bucket, process, restarts, failures>>
    /\ UNCHANGED_OPS

\* cleanupStatus is pending only once apply or cancel has finished the repair:
\* a repair that the job finalizes, like one that is cleaned up, expires at once.
\* A large one goes from applying to failed-retryable and back and stays
\* incomplete.
NextPhase(r) ==
    IF \/ repair[r].phase = "absent"
       \/ repair[r].phase = "incomplete" /\ repair[r].large
    THEN repair[r].phase ELSE "closed"

\* process, and then releaseLease, whether process failed or not.
Process(i) ==
    /\ pass[i].pc = "work"
    /\ LET r == Head(pass[i].list)
           mine == repair[r].lease = i
           Ended(phase) == [repair EXCEPT ![r] =
                              [repair[r] EXCEPT
                                 !.phase = phase,
                                 !.lease = IF mine THEN Unset
                                           ELSE repair[r].lease]]
       IN  /\ \/ repair' = Ended(NextPhase(r)) /\ UNCHANGED failures
              \/ /\ failures < MaxFailures /\ failures' = failures + 1
                 /\ repair' = Ended(repair[r].phase)
           /\ order' = IF repair'[r].phase = "closed"
                       THEN SelectSeq(order, LAMBDA q : q # r)
                       ELSE Touched(r)
    /\ pass' = [pass EXCEPT ![i] = [@ EXCEPT !.pc = "next",
                                             !.list = Tail(@)]]
    /\ UNCHANGED <<migration, bucket, process, restarts>> /\ UNCHANGED_OPS

\* leaseExpiresAt and the clock skew pass.
LoseLease(r) ==
    /\ repair[r].lease # Unset
    /\ repair' = [repair EXCEPT ![r].lease = Unset]
    /\ UNCHANGED <<migration, order, bucket, process, pass, restarts, failures>>
    /\ UNCHANGED_OPS

-----------------------------------------------------------------------------
(* What makes and drops references to a version.                           *)

\* dryRun of the repair service: the manifest is hashed with the current key.
DryRun(i, r) ==
    /\ Running(i)
    /\ repair[r].phase = "absent"
    /\ \E large \in BOOLEAN :
         repair' = [repair EXCEPT ![r] =
                      [ NoRepair EXCEPT !.phase = "incomplete",
                                        !.version = process[i].ring.current,
                                        !.large = large ]]
    /\ order' = Touched(r)
    /\ UNCHANGED <<migration, bucket, process, pass, restarts, failures>>
    /\ UNCHANGED_OPS

\* apply or cancel, which the operator runs to the end: verifyPersistedManifest
\* needs the key the dry run used.
FinishRepair(i, r) ==
    /\ Running(i)
    /\ repair[r].phase = "incomplete"
    /\ RepairKeyAvailable(i, r)
    /\ repair' = [repair EXCEPT ![r].phase = "cleanup"]
    /\ order' = Touched(r)
    /\ UNCHANGED <<migration, bucket, process, pass, restarts, failures>>
    /\ UNCHANGED_OPS

\* The retention of a terminal operation ends.
Forget(r) ==
    /\ repair[r].phase = "closed"
    /\ repair' = [repair EXCEPT ![r] = NoRepair]
    /\ UNCHANGED <<migration, order, bucket, process, pass, restarts, failures>>
    /\ UNCHANGED_OPS

\* Mutant: the operations query leaves out the terminal ones.
RequiredByOpenRepairs ==
    { repair[r].version : r \in {q \in Repair : repair[q].phase = "incomplete"} }

\* getRequiredKeyVersions: the two queries, which name an index and so fail
\* before the migration made it.
RequiredByRepairs ==
    { repair[r].version : r \in
        {q \in Repair : \/ repair[q].phase = "incomplete"
                        \/ repair[q].phase = "cleanup"} }

RequiredByBuckets == bucket

MissingThrottleVersions(i) == RequiredByBuckets \ Configured(process[i].ring)

\* consumeMany: denied while a referenced version is missing; otherwise the
\* attempt is counted in a bucket of the current version, unless one of a
\* previous version goes on.
CountAttempt(i) ==
    /\ Running(i) /\ Indexed
    /\ MissingThrottleVersions(i) = {}
    /\ bucket' = bucket \cup {process[i].ring.current}
    /\ UNCHANGED <<migration, repair, order, process, pass, restarts, failures>>
    /\ UNCHANGED_OPS

ExpireBuckets(v) ==
    /\ v \in bucket
    /\ bucket' = bucket \ {v}
    /\ UNCHANGED <<migration, repair, order, process, pass, restarts, failures>>
    /\ UNCHANGED_OPS

\* Migration 003 makes the indexes and is then recorded.
Migrate ==
    /\ migration # "recorded"
    /\ migration' = IF migration = "pending" THEN "indexed" ELSE "recorded"
    /\ UNCHANGED <<repair, order, bucket, process, pass, restarts, failures>>
    /\ UNCHANGED_OPS

-----------------------------------------------------------------------------
(* The operator: the preflight, then the deployment it allowed.            *)

\* The last rotation has reached every process there is.
RolledOut == \A i \in Instance : process[i].ring \in {Unset, deployed}

\* runAuditKeyRotationPreflight.  The candidate previous versions are the one
\* that is retired; parseAuditKeyRotationPreflightInput refuses a candidate
\* that is among them.
AskPreflight(c) ==
    /\ operator.pc = "idle" \/ (operator.pc = "blocked"
                                /\ operator.candidate = c)
    /\ c # deployed.current
    /\ RolledOut
    /\ operator' = [NoRotation EXCEPT !.pc = "asking", !.candidate = c,
                                      !.asked = {"repairs", "buckets"}]
    /\ UNCHANGED <<deployed, process, pass, restarts, failures>>
    /\ UNCHANGED_DB

\* Exit 1: one query failed, whatever the other does; the operator asks again.
PreflightFails ==
    /\ operator.pc = "asking"
    /\ \/ ~Indexed /\ UNCHANGED failures
       \/ failures < MaxFailures /\ failures' = failures + 1
    /\ operator' = [NoRotation EXCEPT !.pc = "blocked",
                                      !.candidate = operator.candidate]
    /\ UNCHANGED <<deployed, process, pass, restarts>> /\ UNCHANGED_DB

\* preflightRotation
RequiredPrevious(candidate, previous, required) ==
    previous \cup (required \ {candidate})

Decided(c, required) ==
    LET previous == RequiredPrevious(c, {deployed.current}, required) IN
    IF Cardinality(previous) > MaxPreviousKeys
    THEN [NoRotation EXCEPT !.pc = "blocked", !.candidate = c]
    ELSE [NoRotation EXCEPT !.pc = "ok", !.candidate = c, !.required = previous]

\* getRequiredKeyVersions: Promise.all sends both queries, and they answer in
\* either order; the later answer decides.
Answered(query, found) ==
    /\ operator.pc = "asking" /\ query \in operator.asked /\ Indexed
    /\ LET required == operator.required \cup found IN
       operator' = IF operator.asked = {query}
                   THEN Decided(operator.candidate, required)
                   ELSE [operator EXCEPT !.asked = @ \ {query},
                                         !.required = required]
    /\ UNCHANGED <<deployed, process, pass, restarts, failures>>
    /\ UNCHANGED_DB

QueryRepairs == Answered("repairs", RequiredByRepairs)

QueryBuckets == Answered("buckets", RequiredByBuckets)

\* The candidate becomes current with requiredPreviousVersions beside it.
Deploy ==
    /\ operator.pc = "ok"
    /\ deployed' = [ current |-> operator.candidate,
                     previous |-> operator.required ]
    /\ operator' = NoRotation
    /\ UNCHANGED <<process, pass, restarts, failures>> /\ UNCHANGED_DB

-----------------------------------------------------------------------------
Lifecycle(i) ==
    \/ StartProcess(i) \/ BootstrapAgain(i)
    \/ ReadinessKnown(i) \/ ReadinessUnknown(i)
    \/ ProbeTick(i) \/ ScheduleTick(i)
    \/ Shutdown(i) \/ Drained(i) \/ Crash(i)

PassStep(i) ==
    \/ QueryCandidates(i) \/ QueryFails(i) \/ PassIsOver(i)
    \/ TakeCandidate(i) \/ Process(i)

Rotation ==
    \/ \E c \in Version : AskPreflight(c)
    \/ PreflightFails \/ QueryRepairs \/ QueryBuckets \/ Deploy

RotationNext ==
    \/ \E i \in Instance : Lifecycle(i) \/ PassStep(i) \/ CountAttempt(i)
    \/ \E i \in Instance, r \in Repair : DryRun(i, r) \/ FinishRepair(i, r)
    \/ \E r \in Repair : LoseLease(r) \/ Forget(r)
    \/ \E v \in Version : ExpireBuckets(v)
    \/ Migrate
    \/ Rotation

\* A supervisor keeps the processes up and rolls a deployment out; intervals
\* fire, queries answer, leases and buckets run out of time; the operator
\* applies the migration, finishes the repairs begun, and asks again after a
\* blocked preflight.
Fairness ==
    /\ \A i \in Instance :
         /\ WF_rotationVars(StartProcess(i))
         /\ WF_rotationVars(ReadinessKnown(i))
         /\ WF_rotationVars(ProbeTick(i))
         /\ WF_rotationVars(ScheduleTick(i))
         /\ WF_rotationVars(Shutdown(i) /\ process[i].ring # deployed)
         /\ WF_rotationVars(Drained(i))
         /\ WF_rotationVars(QueryCandidates(i))
         /\ WF_rotationVars(PassIsOver(i))
         /\ WF_rotationVars(TakeCandidate(i))
         /\ WF_rotationVars(Process(i))
    /\ \A r \in Repair :
         /\ WF_rotationVars(LoseLease(r))
         /\ WF_rotationVars(\E i \in Instance : FinishRepair(i, r))
    /\ \A v \in Version : WF_rotationVars(ExpireBuckets(v))
    /\ WF_rotationVars(Migrate)
    /\ WF_rotationVars(\E c \in Version : /\ operator.pc = "blocked"
                                         /\ AskPreflight(c))
    /\ WF_rotationVars(QueryRepairs) /\ WF_rotationVars(QueryBuckets)
    /\ WF_rotationVars(Deploy)

RotationSpec == RotationInit /\ [][RotationNext]_rotationVars /\ Fairness

-----------------------------------------------------------------------------
(* Properties.                                                             *)

\* Every variable keeps its type.
RotationTypeOK ==
    /\ migration \in {"pending", "indexed", "recorded"}
    /\ repair \in [Repair -> [ phase : Phase, version : Version \cup {Unset},
                               large : BOOLEAN,
                               lease : Instance \cup {Unset} ]]
    /\ order \in Seq(Repair)
    /\ bucket \subseteq Version
    /\ deployed \in Ring
    /\ process \in [Instance ->
         [ stage : {"down", "running", "draining"}, ring : Ring \cup {Unset},
           start : {"none", "check", "stale", "pass"},
           waiters : SUBSET {"bootstrap", "probe"},
           scheduled : BOOLEAN, probe : BOOLEAN ]]
    /\ pass \in [Instance -> [ pc : {"idle", "query", "next", "work"},
                               list : Seq(Repair), claimed : Nat ]]
    /\ operator \in [ pc : {"idle", "asking", "blocked", "ok"},
                      candidate : Version \cup {Unset},
                      asked : SUBSET {"repairs", "buckets"},
                      required : SUBSET Version ]

\* A version in use by a repair that still has work or cleanup before it, or
\* by a running throttle window, stays configured, whatever was started and
\* counted between the preflight's queries and the deployment.
KeysRetained ==
    /\ \A r \in Repair : repair[r].phase \notin {"absent", "closed"} =>
         repair[r].version \in Configured(deployed)
    /\ bucket \subseteq Configured(deployed)

\* After onModuleDestroy no pass uses the connection, and neither a query
\* that was in flight nor the probe brings the reconciler back.
NothingAfterShutdown ==
    \A i \in Instance : process[i].stage = "down" =>
        /\ pass[i].pc = "idle"
        /\ ~process[i].scheduled /\ ~process[i].probe

\* A rotation that was blocked goes through in the end: the repairs and the
\* windows of the oldest version come to an end and nothing new refers to it.
RotationResumes == operator.pc = "blocked" ~> operator.pc = "idle"

=============================================================================
