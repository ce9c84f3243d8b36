---------------------------- MODULE TokenSession ----------------------------
(***************************************************************************)
(* Refresh-token families and their single-use rotation                    *)
(* (src/src/auth/token-session.service.ts).                                *)
(*                                                                         *)
(* Two MongoDB collections are shared by every application instance: the   *)
(* token families and the replay markers.  A rotation is a chain of        *)
(* separate database operations with an await between any two of them, so  *)
(* each operation is one action here and every handler keeps in its own    *)
(* record what it read earlier.  A handler may stop between two operations *)
(* (crash, propagated database error), the timer of an instance repairs    *)
(* markers whose lease ran out, MongoDB removes expired documents.         *)
(***************************************************************************)
EXTENDS Naturals, FiniteSets

CONSTANTS
    Family,         \* family ids (random UUIDs)
    Subject,        \* accounts that own families
    TokenHash,      \* SHA-256 digests
    Hash,           \* the digest of each refresh token
    Request,        \* concurrent executions of rotate()
    Instance,       \* application instances, each with one repair timer
    None,           \* an unset reference
    RefreshTtl,     \* lifetime of a family, in ticks
    RotationLease,  \* ownership lease of a pending marker, in ticks
    BatchSize,      \* markers examined by one repair pass
    MaxTokens,      \* bound: refresh tokens ever generated
    MaxTime,        \* bound: the clock stops here
    MaxFaults       \* bound: injected failures

Token == 1 .. MaxTokens

\* A numeric field that is not set in its document or handler.
Absent == 0

ASSUME BoundsAssumption ==
    /\ MaxTokens \in Nat /\ MaxTime \in Nat /\ MaxFaults \in Nat
    /\ RefreshTtl \in Nat \ {0} /\ RotationLease \in Nat \ {0}
    /\ BatchSize \in Nat \ {0}

\* SHA-256 is taken to be free of collisions on the tokens generated.
ASSUME HashAssumption ==
    /\ Hash \in [Token -> TokenHash]
    /\ \A t, u \in Token : Hash[t] = Hash[u] => t = u

ASSUME NoneAssumption == None \notin Family \cup TokenHash \cup Subject

VARIABLES
    family,         \* collection refresh_token_families, by familyId
    marker,         \* collection refresh_token_replay_markers, by tokenHash
    request,        \* the local state of each rotate() call
    reconciler,     \* the local state of each instance's repair pass
    now,            \* the clock
    tokenCount,     \* refresh tokens generated so far
    operationCount, \* rotation operation ids generated so far
    faults,         \* failures injected so far
    owner,          \* history: the family a token was generated for
    delivered,      \* history: tokens some client has received
    exchanges,      \* history: <<presented, returned>> of granted rotations
    signedOut       \* history: families a client asked to sign out of

db == <<family, marker>>
ids == <<tokenCount, operationCount>>
history == <<owner, delivered, exchanges, signedOut>>
vars == <<family, marker, request, reconciler, now, ids, faults, history>>

-----------------------------------------------------------------------------
(* Documents and handler records *)

FamilyDoc ==
    [ status : {"absent", "active", "revoked", "replayed", "deleted"},
      subjectId : Subject \cup {None},
      currentTokenHash : TokenHash \cup {None},
      lastRotationOperationId : Nat,
      expiresAt : Nat ]

NoFamilyDoc(status) ==
    [ status |-> status, subjectId |-> None, currentTokenHash |-> None,
      lastRotationOperationId |-> Absent, expiresAt |-> 0 ]

MarkerDoc ==
    [ status : {"absent", "pending", "committed"},
      tokenHash : TokenHash \cup {None},
      familyId : Family \cup {None},
      rotationOperationId : Nat,
      leaseExpiresAt : Nat,
      expiresAt : Nat ]

NoMarkerDoc ==
    [ status |-> "absent", tokenHash |-> None, familyId |-> None,
      rotationOperationId |-> Absent, leaseExpiresAt |-> Absent,
      expiresAt |-> 0 ]

RequestPc ==
    { "idle", "findMarker", "findFamily", "createMarker", "racedMarker",
      "readOwner", "takeOver", "cas", "recover", "commit", "revokeOrphan",
      "revokeOrphanAgain", "finalizeCommit", "finalizeRevoke",
      "revokeReplay" }

RequestState ==
    [ pc : RequestPc,
      token : 0 .. MaxTokens,        \* the presented token
      at : Nat,                      \* "now" as captured when rotate() began
      familyId : Family \cup {None},
      operationId : Nat,
      seen : MarkerDoc,              \* the marker read earlier
      next : 0 .. MaxTokens,         \* the replacement token (see Present)
      replay : BOOLEAN ]             \* history: token was already exchanged

IdleRequest ==
    [ pc |-> "idle", token |-> Absent, at |-> 0, familyId |-> None,
      operationId |-> Absent, seen |-> NoMarkerDoc, next |-> Absent,
      replay |-> FALSE ]

ReconcilerState ==
    [ pc : {"idle", "inspect", "commit", "revoke"},
      at : Nat,
      batch : SUBSET MarkerDoc,      \* markers still to be examined
      current : MarkerDoc ]

IdleReconciler ==
    [pc |-> "idle", at |-> 0, batch |-> {}, current |-> NoMarkerDoc]

TypeOK ==
    /\ family \in [Family -> FamilyDoc]
    /\ marker \in [TokenHash -> MarkerDoc]
    /\ request \in [Request -> RequestState]
    /\ reconciler \in [Instance -> ReconcilerState]
    /\ now \in Nat
    /\ tokenCount \in 0 .. MaxTokens
    /\ operationCount \in Nat
    /\ faults \in Nat
    /\ owner \in [Token -> Family \cup {None}]
    /\ delivered \subseteq Token
    /\ exchanges \subseteq Token \X Token
    /\ signedOut \subseteq Family

Init ==
    /\ family = [f \in Family |-> NoFamilyDoc("absent")]
    /\ marker = [h \in TokenHash |-> NoMarkerDoc]
    /\ request = [r \in Request |-> IdleRequest]
    /\ reconciler = [i \in Instance |-> IdleReconciler]
    /\ now = 0
    /\ tokenCount = 0
    /\ operationCount = 0
    /\ faults = 0
    /\ owner = [t \in Token |-> None]
    /\ delivered = {}
    /\ exchanges = {}
    /\ signedOut = {}

-----------------------------------------------------------------------------
(* The database operations the handlers are made of *)

\* A document that MongoDB returns; absent and deleted ones are not there.
Exists(f) == family[f].status \notin {"absent", "deleted"}

\* Mutant: the filter forgets the hash.
AcceptsAnyHash(f, hash, time) ==
    /\ family[f].status = "active"
    /\ family[f].expiresAt > time

\* The filter shared by prepareRotation, the compare-and-swap and the
\* takeover test: the family still answers to this hash.
Accepts(f, hash, time) ==
    /\ family[f].status = "active"
    /\ family[f].currentTokenHash = hash
    /\ family[f].expiresAt > time

\* Mutant: the update is not restricted to active families.
RevokeAgain(F, status) ==
    family' = [f \in Family |->
        IF f \in F /\ Exists(f)
        THEN [family[f] EXCEPT !.status = status, !.currentTokenHash = None]
        ELSE family[f]]

\* revocationUpdate applied to the families of a set that are still active.
Revoke(F, status) ==
    family' = [f \in Family |->
        IF f \in F /\ family[f].status = "active"
        THEN [family[f] EXCEPT !.status = status, !.currentTokenHash = None]
        ELSE family[f]]

\* commitMarker finds the pending marker only under its operation id.
Commits(hash, operationId) ==
    /\ marker[hash].status = "pending"
    /\ marker[hash].rotationOperationId = operationId

CommitMarker(hash, operationId) ==
    marker' = IF Commits(hash, operationId)
              THEN [marker EXCEPT ![hash].status = "committed",
                                  ![hash].leaseExpiresAt = Absent]
              ELSE marker

\* The family records this very operation: its compare-and-swap happened.
RecordsOperation(f, operationId) ==
    /\ Exists(f)
    /\ family[f].lastRotationOperationId = operationId

-----------------------------------------------------------------------------
(* rotate(refreshToken) *)

Step(r, pc) == request' = [request EXCEPT ![r].pc = pc]

\* The call ends: with the replacement if it is in exchanges, with the generic
\* denial otherwise.
Finish(r) == request' = [request EXCEPT ![r] = IdleRequest]

Rest == UNCHANGED <<reconciler, now, faults>>

\* The call begins: the client sends any token it ever received.  The random
\* replacement is drawn here; nothing can read it before the compare-and-swap
\* stores its hash.  MaxTokens thereby bounds the calls, and no call begins
\* so late that its lease would outlive the clock.
Present(r, t) ==
    /\ request[r].pc = "idle"
    /\ t \in delivered
    /\ tokenCount < MaxTokens
    /\ now + RotationLease <= MaxTime
    /\ tokenCount' = tokenCount + 1
    /\ request' = [request EXCEPT ![r] =
           [IdleRequest EXCEPT !.pc = "findMarker", !.token = t, !.at = now,
               !.next = tokenCount + 1,
               !.replay = \E u \in Token : <<t, u>> \in exchanges]]
    /\ UNCHANGED <<db, operationCount, history>>
    /\ Rest

\* Mutant: a committed marker is answered with the denial alone.
HandleWithoutRevoking(r, m) ==
    request' = [request EXCEPT ![r] =
        IF m.status = "committed" THEN IdleRequest
        ELSE [@ EXCEPT !.pc = "readOwner", !.seen = m, !.familyId = m.familyId,
                       !.operationId = m.rotationOperationId]]

\* A marker was found: handleExistingMarker is entered with what was read.
HandleExistingMarker(r, m) ==
    request' = [request EXCEPT
        ![r].pc = IF m.status = "committed" THEN "revokeReplay"
                                            ELSE "readOwner",
        ![r].seen = m, ![r].familyId = m.familyId,
        ![r].operationId = m.rotationOperationId]

\* prepareRotation: is there a marker for the presented hash?
FindMarker(r) ==
    LET m == marker[Hash[request[r].token]] IN
    /\ request[r].pc = "findMarker"
    /\ IF m.status # "absent" THEN HandleExistingMarker(r, m)
                              ELSE Step(r, "findFamily")
    /\ UNCHANGED <<db, ids, history>>
    /\ Rest

\* prepareRotation: the family that currently answers to the hash.
FindFamily(r) ==
    LET q == request[r] IN
    /\ q.pc = "findFamily"
    /\ \/ \E f \in Family :
             /\ Accepts(f, Hash[q.token], q.at)
             /\ request' = [request EXCEPT ![r].pc = "createMarker",
                                           ![r].familyId = f]
       \/ /\ \A f \in Family : ~Accepts(f, Hash[q.token], q.at)
          /\ Finish(r)
    /\ UNCHANGED <<db, ids, history>>
    /\ Rest

\* prepareRotation returns: the call owns the marker under this operation id.
OwnMarker(r, operationId) ==
    request' = [request EXCEPT ![r].pc = "cas", ![r].operationId = operationId]

\* Mutant: the marker lives as long as its lease.
MarkerExpiryAsLease(f) == now + RotationLease

\* A marker lives as long as its family: expiresAt is copied from the family
\* document read before.  That field never changes, and a deleted document
\* keeps its fields here.
MarkerExpiry(f) == family[f].expiresAt

\* prepareRotation: insert the marker under a fresh operation id; the unique
\* index on tokenHash turns a second insert into a duplicate-key error.
CreateMarker(r) ==
    LET q == request[r]
        h == Hash[q.token] IN
    /\ q.pc = "createMarker"
    /\ \/ /\ marker[h].status = "absent"
          /\ operationCount' = operationCount + 1
          /\ marker' = [marker EXCEPT ![h] =
                [ status |-> "pending", tokenHash |-> h,
                  familyId |-> q.familyId,
                  rotationOperationId |-> operationCount + 1,
                  leaseExpiresAt |-> q.at + RotationLease,
                  expiresAt |-> MarkerExpiry(q.familyId) ]]
          /\ OwnMarker(r, operationCount + 1)
       \/ /\ marker[h].status # "absent"
          /\ Step(r, "racedMarker")
          /\ UNCHANGED <<marker, operationCount>>
    /\ UNCHANGED <<family, tokenCount, history>>
    /\ Rest

\* prepareRotation: the marker that won the race is read again; it may have
\* been removed by the TTL monitor in between.
RacedMarker(r) ==
    LET m == marker[Hash[request[r].token]] IN
    /\ request[r].pc = "racedMarker"
    /\ IF m.status # "absent" THEN HandleExistingMarker(r, m)
                              ELSE Finish(r)
    /\ UNCHANGED <<db, ids, history>>
    /\ Rest

\* handleExistingMarker on a pending marker: read the owning family and decide.
\* A family that records the marker's operation was rotated and orphaned, one
\* that no longer accepts the hash is inconsistent; both are finalized and
\* revoked.  Only then is the lease looked at.
ReadOwner(r) ==
    LET q == request[r]
        m == q.seen
        orphaned == RecordsOperation(m.familyId, m.rotationOperationId)
        canTakeOver == Accepts(m.familyId, m.tokenHash, q.at) IN
    /\ q.pc = "readOwner"
    /\ \/ /\ orphaned \/ ~canTakeOver \/ m.leaseExpiresAt = Absent
          /\ Step(r, "finalizeCommit")
       \/ /\ ~orphaned /\ canTakeOver
          /\ m.leaseExpiresAt > q.at
          /\ Finish(r)
       \/ /\ ~orphaned /\ canTakeOver
          /\ m.leaseExpiresAt # Absent /\ m.leaseExpiresAt <= q.at
          /\ Step(r, "takeOver")
    /\ UNCHANGED <<db, ids, history>>
    /\ Rest

\* handleExistingMarker: take the expired lease over under a new operation id,
\* provided nobody else has done so since the marker was read.
TakeOver(r) ==
    LET q == request[r]
        h == q.seen.tokenHash
        takenOver ==
            /\ Commits(h, q.seen.rotationOperationId)
            /\ marker[h].leaseExpiresAt # Absent
            /\ marker[h].leaseExpiresAt <= q.at IN
    /\ q.pc = "takeOver"
    /\ \/ /\ takenOver
          /\ operationCount' = operationCount + 1
          /\ marker' = [marker EXCEPT
                ![h].rotationOperationId = operationCount + 1,
                ![h].leaseExpiresAt = q.at + RotationLease]
          /\ OwnMarker(r, operationCount + 1)
       \/ /\ ~takenOver
          /\ Finish(r)
          /\ UNCHANGED <<marker, operationCount>>
    /\ UNCHANGED <<family, tokenCount, history>>
    /\ Rest

\* The update half of the compare-and-swap, for a family that matched.
SwapToken(r) ==
    LET q == request[r] IN
    /\ family' = [family EXCEPT
          ![q.familyId].currentTokenHash = Hash[q.next],
          ![q.familyId].lastRotationOperationId = q.operationId]
    /\ owner' = [owner EXCEPT ![q.next] = q.familyId]

\* rotate: the compare-and-swap on the family.  Its filter names the family,
\* the hash, the status and the expiry against the time the call began; it
\* does not look at the marker.
Cas(r) ==
    LET q == request[r] IN
    /\ q.pc = "cas"
    /\ \/ /\ Accepts(q.familyId, Hash[q.token], q.at)
          /\ SwapToken(r)
          /\ Step(r, "commit")
       \/ /\ ~Accepts(q.familyId, Hash[q.token], q.at)
          /\ Step(r, "finalizeCommit")
          /\ UNCHANGED <<family, owner>>
    /\ UNCHANGED <<marker, ids, delivered, exchanges, signedOut>>
    /\ Rest

\* recoverAfterInterruptedCas: a family that still accepts the token (by the
\* clock of this moment) is left for a takeover, any other is finalized.
Recover(r) ==
    LET q == request[r] IN
    /\ q.pc = "recover"
    /\ IF Accepts(q.familyId, Hash[q.token], now)
       THEN Finish(r)
       ELSE Step(r, "finalizeCommit")
    /\ UNCHANGED <<db, ids, history>>
    /\ Rest

\* rotate: commit the marker; only then is the replacement returned.  Without
\* a marker to commit the family is revoked, twice: the denial is thrown
\* inside the try block whose catch revokes again.
Commit(r) ==
    LET q == request[r]
        h == Hash[q.token] IN
    /\ q.pc = "commit"
    /\ CommitMarker(h, q.operationId)
    /\ \/ /\ Commits(h, q.operationId)
          /\ delivered' = delivered \cup {q.next}
          /\ exchanges' = exchanges \cup {<<q.token, q.next>>}
          /\ Finish(r)
       \/ /\ ~Commits(h, q.operationId)
          /\ Step(r, "revokeOrphan")
          /\ UNCHANGED <<delivered, exchanges>>
    /\ UNCHANGED <<family, ids, owner, signedOut>>
    /\ Rest

\* rotate: the two revocations after a marker that could not be committed.
RevokeOrphan(r) ==
    /\ request[r].pc \in {"revokeOrphan", "revokeOrphanAgain"}
    /\ Revoke({request[r].familyId}, "revoked")
    /\ IF request[r].pc = "revokeOrphan" THEN Step(r, "revokeOrphanAgain")
                                         ELSE Finish(r)
    /\ UNCHANGED <<marker, ids, history>>
    /\ Rest

\* finalizeAndRevoke, first operation.
FinalizeCommit(r) ==
    LET q == request[r] IN
    /\ q.pc = "finalizeCommit"
    /\ CommitMarker(Hash[q.token], q.operationId)
    /\ Step(r, "finalizeRevoke")
    /\ UNCHANGED <<family, ids, history>>
    /\ Rest

\* finalizeAndRevoke, second operation.
FinalizeRevoke(r) ==
    /\ request[r].pc = "finalizeRevoke"
    /\ Revoke({request[r].familyId}, "revoked")
    /\ Finish(r)
    /\ UNCHANGED <<marker, ids, history>>
    /\ Rest

\* revokeAsReplay: a committed marker answers for the presented hash.
RevokeReplay(r) ==
    /\ request[r].pc = "revokeReplay"
    /\ Revoke({request[r].familyId}, "replayed")
    /\ Finish(r)
    /\ UNCHANGED <<marker, ids, history>>
    /\ Rest

RequestStep(r) ==
    \/ FindMarker(r) \/ FindFamily(r) \/ CreateMarker(r) \/ RacedMarker(r)
    \/ ReadOwner(r) \/ TakeOver(r) \/ Cas(r) \/ Recover(r) \/ Commit(r)
    \/ RevokeOrphan(r) \/ FinalizeCommit(r) \/ FinalizeRevoke(r)
    \/ RevokeReplay(r)

-----------------------------------------------------------------------------
(* Failures of single database operations, and crashes *)

Fault ==
    /\ faults < MaxFaults
    /\ faults' = faults + 1

\* The handler ends without an answer after its last completed operation: the
\* process dies, or an operation fails whose error nothing below handles.
Abort(r) ==
    /\ request[r].pc # "idle"
    /\ Fault
    /\ Finish(r)
    /\ UNCHANGED <<db, ids, history, reconciler, now>>

\* The compare-and-swap reports an error, whether or not it was applied.
CasFault(r) ==
    /\ request[r].pc = "cas"
    /\ Fault
    /\ Step(r, "recover")
    /\ \/ UNCHANGED <<family, owner>>
       \/ /\ Accepts(request[r].familyId, Hash[request[r].token], request[r].at)
          /\ SwapToken(r)
    /\ UNCHANGED <<marker, ids, delivered, exchanges, signedOut, reconciler, now>>

\* commitMarker reports an error to rotate, whether or not it was applied; the
\* catch block revokes the family.
CommitFault(r) ==
    /\ request[r].pc = "commit"
    /\ Fault
    /\ Step(r, "revokeOrphanAgain")
    /\ \/ UNCHANGED marker
       \/ CommitMarker(Hash[request[r].token], request[r].operationId)
    /\ UNCHANGED <<family, ids, history, reconciler, now>>

\* A failure the code steps over: the first of the two orphan revocations, or
\* the commit inside finalizeAndRevoke.
SkipFault(r) ==
    /\ Fault
    /\ \/ request[r].pc = "revokeOrphan" /\ Step(r, "revokeOrphanAgain")
       \/ request[r].pc = "finalizeCommit" /\ Step(r, "finalizeRevoke")
    /\ UNCHANGED <<db, ids, history, reconciler, now>>

RequestFault(r) == Abort(r) \/ CasFault(r) \/ CommitFault(r) \/ SkipFault(r)

-----------------------------------------------------------------------------
(* createFamily and the revocations other services ask for *)

\* A sign-in creates a family whose first token the client receives.
CreateFamily(f, s) ==
    LET t == tokenCount + 1 IN
    /\ family[f].status = "absent"
    /\ tokenCount < MaxTokens
    /\ tokenCount' = t
    /\ family' = [family EXCEPT ![f] =
          [ status |-> "active", subjectId |-> s,
            currentTokenHash |-> Hash[t],
            lastRotationOperationId |-> Absent,
            expiresAt |-> now + RefreshTtl ]]
    /\ owner' = [owner EXCEPT ![t] = f]
    /\ delivered' = delivered \cup {t}
    /\ UNCHANGED <<marker, request, operationCount, exchanges, signedOut>>
    /\ Rest

\* revokeRefreshToken: sign-out with a token the client holds revokes the
\* active family that currently answers to it.
RevokeRefreshToken(t) ==
    /\ t \in delivered
    /\ Revoke({f \in Family : family[f].currentTokenHash = Hash[t]}, "revoked")
    /\ signedOut' = signedOut \cup {owner[t]}
    /\ UNCHANGED <<marker, request, ids, owner, delivered, exchanges>>
    /\ Rest

\* revokeFamily, called by the refresh handler for an unusable account.
RevokeFamily(f) ==
    /\ Revoke({f}, "revoked")
    /\ UNCHANGED <<marker, request, ids, history>>
    /\ Rest

\* revokeSubject: sign-out everywhere, or an account change.
RevokeSubject(s) ==
    /\ Revoke({f \in Family : family[f].subjectId = s}, "revoked")
    /\ UNCHANGED <<marker, request, ids, history>>
    /\ Rest

-----------------------------------------------------------------------------
(* reconcileExpiredPendingMarkers: the repair pass of an instance *)

ExpiredPending(time) ==
    { marker[h] : h \in { g \in TokenHash :
        /\ marker[g].status = "pending"
        /\ marker[g].leaseExpiresAt # Absent
        /\ marker[g].leaseExpiresAt <= time } }

\* The documents that sort().limit(BatchSize) may return; markers with equal
\* leases come in any order.
IsBatch(batch, found) ==
    /\ batch \subseteq found
    /\ \A m \in batch, other \in found \ batch :
           m.leaseExpiresAt <= other.leaseExpiresAt
    /\ \/ batch = found /\ Cardinality(found) <= BatchSize
       \/ Cardinality(batch) = BatchSize

QuietExceptReconciler ==
    UNCHANGED <<request, ids, now, history>>

\* The timer fires, no pass of this instance is running, and the query returns
\* something (an empty pass changes nothing).
StartReconciliation(i) ==
    /\ reconciler[i].pc = "idle"
    /\ \E batch \in SUBSET ExpiredPending(now) :
          /\ IsBatch(batch, ExpiredPending(now))
          /\ batch # {}
          /\ reconciler' = [reconciler EXCEPT ![i] =
                [IdleReconciler EXCEPT !.pc = "inspect", !.at = now,
                                       !.batch = batch]]
    /\ UNCHANGED <<db, faults>>
    /\ QuietExceptReconciler

\* Move on to the next marker of the batch, or end the pass.
NextMarker(i, batch) ==
    reconciler' = [reconciler EXCEPT ![i] =
        IF batch = {} THEN IdleReconciler
        ELSE [IdleReconciler EXCEPT !.pc = "inspect", !.at = reconciler[i].at,
                                    !.batch = batch]]

\* The marker the loop has reached: the earliest lease first.
Reached(i, m) ==
    /\ reconciler[i].pc = "inspect"
    /\ m \in reconciler[i].batch
    /\ \A n \in reconciler[i].batch : m.leaseExpiresAt <= n.leaseExpiresAt

\* Mutant: every expired marker is repaired.
NeverAwaitsTakeover(m, time) == FALSE

\* Mutant: any active family is left alone.
AwaitsWhileActive(m, time) ==
    family[m.familyId].status = "active" /\ family[m.familyId].expiresAt > time

\* The family still accepts the token of the marker: the rotation never got to
\* its compare-and-swap and a request may take it over.
AwaitsTakeover(m, time) == Accepts(m.familyId, m.tokenHash, time)

\* Read the family of the marker reached; one that awaits a takeover is skipped.
InspectMarker(i) ==
    /\ \E m \in reconciler[i].batch :
          /\ Reached(i, m)
          /\ IF AwaitsTakeover(m, reconciler[i].at)
             THEN NextMarker(i, reconciler[i].batch \ {m})
             ELSE reconciler' = [reconciler EXCEPT
                      ![i].pc = "commit", ![i].current = m,
                      ![i].batch = reconciler[i].batch \ {m}]
    /\ UNCHANGED <<db, faults>>
    /\ QuietExceptReconciler

ReconcilerCommit(i) ==
    LET m == reconciler[i].current IN
    /\ reconciler[i].pc = "commit"
    /\ CommitMarker(m.tokenHash, m.rotationOperationId)
    /\ reconciler' = [reconciler EXCEPT ![i].pc = "revoke"]
    /\ UNCHANGED <<family, faults>>
    /\ QuietExceptReconciler

ReconcilerRevoke(i) ==
    /\ reconciler[i].pc = "revoke"
    /\ Revoke({reconciler[i].current.familyId}, "revoked")
    /\ NextMarker(i, reconciler[i].batch)
    /\ UNCHANGED <<marker, faults>>
    /\ QuietExceptReconciler

ReconcilerStep(i) ==
    \/ StartReconciliation(i) \/ InspectMarker(i)
    \/ ReconcilerCommit(i) \/ ReconcilerRevoke(i)

\* An operation of the pass fails (a failed commit is stepped over, any other
\* failure gives up the marker), or the instance dies.
ReconcilerFault(i) ==
    /\ Fault
    /\ \/ \E m \in reconciler[i].batch :
             Reached(i, m) /\ NextMarker(i, reconciler[i].batch \ {m})
       \/ /\ reconciler[i].pc = "commit"
          /\ reconciler' = [reconciler EXCEPT ![i].pc = "revoke"]
       \/ /\ reconciler[i].pc = "revoke"
          /\ NextMarker(i, reconciler[i].batch)
       \/ /\ reconciler[i].pc # "idle"
          /\ reconciler' = [reconciler EXCEPT ![i] = IdleReconciler]
    /\ UNCHANGED db
    /\ QuietExceptReconciler

-----------------------------------------------------------------------------
(* The environment: MongoDB's TTL monitor and the clock *)

ExpireFamily(f) ==
    /\ Exists(f)
    /\ family[f].expiresAt <= now
    /\ family' = [family EXCEPT ![f].status = "deleted"]
    /\ UNCHANGED <<marker, request, ids, history>>
    /\ Rest

ExpireMarker(h) ==
    /\ marker[h].status # "absent"
    /\ marker[h].expiresAt <= now
    /\ marker' = [marker EXCEPT ![h] = NoMarkerDoc]
    /\ UNCHANGED <<family, request, ids, history>>
    /\ Rest

Tick ==
    /\ now < MaxTime
    /\ now' = now + 1
    /\ UNCHANGED <<db, request, reconciler, ids, faults, history>>

Next ==
    \/ \E r \in Request :
          \/ \E t \in Token : Present(r, t)
          \/ RequestStep(r)
          \/ RequestFault(r)
    \/ \E f \in Family, s \in Subject : CreateFamily(f, s)
    \/ \E t \in Token : RevokeRefreshToken(t)
    \/ \E f \in Family : RevokeFamily(f) \/ ExpireFamily(f)
    \/ \E s \in Subject : RevokeSubject(s)
    \/ \E i \in Instance : ReconcilerStep(i) \/ ReconcilerFault(i)
    \/ \E h \in TokenHash : ExpireMarker(h)
    \/ Tick

Spec == Init /\ [][Next]_vars

\* A handler that is not interrupted reaches its next operation, the timer of
\* every instance keeps firing, and time passes.
Fairness ==
    /\ \A r \in Request : WF_vars(RequestStep(r))
    /\ \A i \in Instance : WF_vars(ReconcilerStep(i))
    /\ WF_vars(Tick)

FairSpec == Spec /\ Fairness

-----------------------------------------------------------------------------
(* Safety *)

\* A refresh token is exchanged for one successor only, whatever races, lost
\* answers and repairs take place (spec.md FR-031: "single-use rotating refresh
\* credentials").
SingleUse ==
    \A x, y \in exchanges : x[1] = y[1] => x = y

\* No replacement is returned before the marker of the presented token is
\* committed, and the marker stays until the family has expired (data-model.md:
\* "so replay of any generation can still identify and revoke the family").
CommittedBeforeReturned ==
    \A x \in exchanges :
        \/ /\ marker[Hash[x[1]]].status = "committed"
           /\ marker[Hash[x[1]]].familyId = owner[x[1]]
        \/ family[owner[x[1]]].expiresAt <= now

\* A marker is committed only for a token no family can accept any more: the
\* repairs of requests and of the timer, acting on what they read before,
\* never burn a token its client may still exchange.
CommittedIsSpent ==
    \A h \in TokenHash : marker[h].status = "committed" =>
        \A f \in Family : ~Accepts(f, h, now)

\* A request presenting a token that had already been exchanged, unless it is
\* interrupted by a failure, ends only after its family is revoked or
\* expired (spec.md FR-031: "revoke the complete session family when a
\* previously exchanged refresh credential is reused").
ReplayRevokes ==
    [][ \A r \in Request :
          (/\ request[r].replay
           /\ request[r].pc # "idle"
           /\ request'[r].pc = "idle"
           /\ faults' = faults)
          => LET f == owner[request[r].token] IN
             family'[f].status # "active" \/ family'[f].expiresAt <= now ]_vars

\* Revocation is final and the first one wins: no later step of a rotation,
\* repair or sign-out makes the family active, relabels it or gives it a hash.
RevocationIsFinal ==
    [][ \A f \in Family :
          family[f].status \in {"revoked", "replayed"} =>
             /\ family'[f].status \in {family[f].status, "deleted"}
             /\ family'[f].currentTokenHash = None ]_vars

-----------------------------------------------------------------------------
(* Liveness *)

\* An orphaned marker (its family is no longer waiting for this token) does
\* not stay pending: a handler or the timer commits it.
PendingOrphanFinalized ==
    \A h \in TokenHash :
        (/\ marker[h].status = "pending"
         /\ ~Accepts(marker[h].familyId, h, now))
        ~> marker[h].status # "pending"

\* The current token of the family reached no client and no call is left that
\* could return it.
Stranded(f) ==
    /\ family[f].status = "active"
    /\ \E t \in Token :
          /\ family[f].currentTokenHash = Hash[t]
          /\ t \notin delivered
          /\ \A r \in Request : request[r].next # t

\* A rotation interrupted after its compare-and-swap does not leave the family
\* active (README.md: "Interrupted post-CAS or inconsistent state is revoked").
InterruptedRotationRevoked ==
    \A f \in Family : Stranded(f) ~> ~Stranded(f)

-----------------------------------------------------------------------------
(* A statement of the documentation that the code does not keep *)

\* README.md: "Current-session sign-out revokes only the presented family."
SignOutRevokesFamily ==
    \A f \in signedOut : family[f].status # "active"

=============================================================================
