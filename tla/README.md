# TLA+ models of the book library

The repository is a NestJS application over MongoDB with a browser frontend. A
library lends books to members; staff users and members sign in and keep their
sessions alive with rotating refresh tokens. This directory models the parts
whose correctness depends on the order in which concurrent requests, timers and
failures touch the shared documents. Paths below are relative to the repository
root.

## 1. Inventory

Several instances of the application run against one database. Inside an
instance, requests interleave at every `await`; between instances, at every
database operation. One document update is atomic, a transaction is a snapshot
with write-conflict detection, everything else is not isolated.

| component | state | operations | what makes it correct |
|---|---|---|---|
| refresh-token sessions (`src/auth/token-session.service.ts`) | token families, replay markers | `createFamily`, `rotate`, the repair timer, three revocations | a token is exchanged once; a replay ends the family; interrupted rotations are repaired; revocation is final |
| borrowings (`src/borrowings`) | loans, counters in books and members | `create`, `returnBorrowing` (transactions), queries | copies are conserved; counters equal open loans; limits and policy hold at the commit |
| books, book categories, membership types | their documents | `create`, `update` | quantities stay consistent with open loans |
| members, staff users | account documents, `authVersion` | `create`, `update`, `setMemberCredentials`, `bumpAuthVersion` | every change that matters invalidates what was issued before; an account owns the identifier it signs in with |
| authentication service | none of its own | shared sign-in, `refresh`, `logout`, `logoutAll` | stale credentials are refused; no sign-in with an identifier in dispute or under repair |
| protected requests (JWT strategy, guards) | access tokens (signed, not stored) | `validate`, the guards of a route | a handler runs only for who is entitled to it |
| sign-in throttle (`auth-throttle.service.ts`, its guard) | counting buckets with a window, per secret version | `consumeSignInAttempt`, `consumeSignInIdentifierFailure`, `consumeRefreshAttempt` | a window admits no more than its limit, also when its bucket is created or expires concurrently and when the secret is rotated; exceptions refuse |
| sign-in identifiers (`auth-identifier.service.ts`) | reservations, operations with assignments and leases | `resolveConflict` as a transaction or a saga, `resolveActiveIdentifier` | one owner per identifier; an operation ends with its event, once |
| identifier reconciliation | leases on operations | bounded pass: claim, recover, finalize, clean up; start-up, probe, shutdown | works beside requests and other instances; nothing runs after shutdown |
| offline identifier repair | parent operation, batches, gated reservations | `dryRun`, `apply`, `cancel`, the key policy | takes effect as a whole or not at all; its key outlives it |
| database migrations (`migrations/`) | migration records | `up`, `down` | a migration interrupted anywhere can be repeated |
| frontend session (`frontend/src/lib`) | session and access token in memory, query cache, refresh cookie | login, refresh, sign-out, queries | one refresh at a time; nothing of the session after sign-out |
| security activity | append-only audit events | `record` | terminal states have their event |
| configuration | none | loading the keys | a process starts only with a ring it can use |
| health | none | readiness over migrations and keys | stateless; not modelled |
| origin guard, frontend features, scripts, quality tooling | none shared | - | - |

Interactions: the authentication service calls the account services and
`TokenSessionService` and reads the identifier registry, the operation that
gates a reservation, and the account; account changes revoke families directly
in the same collection and reserve and release identifiers; requests and the
reconciliation job drive the same operation documents, the operator's repair
command drives a third kind of them; lending reads and writes the documents the
catalogue and member services edit; the frontend drives login, `refresh` and
`logout` through a cookie all tabs share; the operator rotates a secret that the
throttle, the security events and the repairs depend on.

What is hard here: a rotation is a chain of five to eight database operations
that can be overtaken, taken over or cut off anywhere; lending relies on write
conflicts on documents that non-transactional handlers also write; session
invalidation relies on a version that some handlers increment in place and
others overwrite; resolving an identifier is a saga over three collections which
two kinds of actors resume from what they read before; a repair becomes visible
through one status although it changes accounts batch by batch; answers reach
the browser in any order. `PROJECT.json` lists these hazards line by line.

## 2. Modules

| module | models | extends / composes |
|---|---|---|
| `TokenSession` | families, markers, `rotate`, repair timer, revocations | - |
| `Lending` | borrowings, books, categories, membership types, members as borrowers | instantiates `Circulation` |
| `Circulation` | what lending promises: each commit moves one copy | - |
| `AccountSessions` | accounts, `authVersion`, sign-in, refresh, sign-out, account handlers | `TokenSession` seen as one step |
| `ProtectedRequests` | token validation, the guards, the handlers behind them | `AccountSessions` |
| `AuthThrottle` | throttle buckets, the guard, the failure path of sign-in, key rotation | - |
| `IdentifierOperations` | `resolveConflict`, transaction and saga, beside the reconciliation job | - |
| `OfflineRepair` | `dryRun`, `apply`, `cancel` beside the reconciliation job | - |
| `SharedSignIn` | the sign-in of clients while a repair runs | `OfflineRepair` |
| `IdentifierReservations` | the registry: migration 003, account handlers, bootstrap script | - |
| `KeyRotation` | key preflight and rollout, processes, probes, shutdown, bounded passes | `IdentifierOperations`, `OfflineRepair`, `AuthThrottle` seen as phases |
| `BrowserSession` | session store, API client, query cache, cookie | `TokenSession` seen as a status |
| `MC...` | constants, patches and symmetry for TLC | the module of the same name |
| `TokenSessionProofs`, `LendingProofs`, `AuthThrottleProofs`, `IdentifierReservationsProofs`, `BrowserSessionProofs` | theorems | the module of the same name, `TLAPS` |
| `AccountSessionsProofs` | theorems about `AccountSessions` and `ProtectedRequests` | `ProtectedRequests`, `TLAPS` |
| `SharedSignInProofs` | theorems about `OfflineRepair` and `SharedSignIn` | `SharedSignIn`, `TLAPS` |
| `ReconciliationProofs` | theorems about `IdentifierOperations` and `KeyRotation` | both modules, `FiniteSetTheorems`, `TLAPS` |

Definitions named in a comment as *Mutant* are not part of a specification: each
is an altered copy of the definition below it, and shows that a property
notices that error. Every module but `Circulation` has a type invariant; all are
proved, that of `KeyRotation` except for its queue (section 5). `KeyRotation`
names its own `RotationInit`, `RotationNext`, `RotationSpec`, `RotationTypeOK`
and `Unset` because `ReconciliationProofs` extends it next to
`IdentifierOperations`.

### TokenSession

One action per database operation. A request record holds what `rotate` keeps in
local variables: the presented token, the `now` captured on entry, the marker it
read, its operation id. `pc` names the operation that comes next:
`findMarker`, `findFamily`, `createMarker`, `racedMarker` are `prepareRotation`;
`readOwner`, `takeOver` are `handleExistingMarker`; `cas`, `recover`, `commit`,
`revokeOrphan(Again)` are the body of `rotate` and `recoverAfterInterruptedCas`;
`finalizeCommit`, `finalizeRevoke` are `finalizeAndRevoke`; `revokeReplay` is
`revokeAsReplay`. The repair pass of an instance has the same granularity.

Failures: `Abort` (a crash, or an error nothing handles), `CasFault` and
`CommitFault` (the operation reports an error, applied or not), `SkipFault` and
`ReconcilerFault` (errors the code steps over). `ExpireFamily` and
`ExpireMarker` are MongoDB's TTL monitor, at any time after the expiry. Tokens
are numbers, `Hash` is an injection (`HashAssumption`: no SHA-256 collisions).
The replacement token is drawn when the call begins rather than after
`prepareRotation`; nothing reads it before the compare-and-swap stores its hash.
`owner`, `delivered`, `exchanges`, `signedOut` and the field `replay` are history
and guard nothing except that a client presents only tokens it received.

### Lending and Circulation

`BeginBorrow` / `BeginReturn` take the snapshot and run the policy check,
`CommitBorrow` / `CommitReturn` write and commit. `changed` collects the
documents written by others since the snapshot; `Conflicts` is MongoDB's
write-conflict rule, `Retry` is `withTransaction` running the closure again.
The PATCH handlers and `MembersService.create` are two steps, a read and a later
save of the fields that changed, as values (`Changed`, `Saved`: mongoose sets
modified paths only). Days and the clock share one unit. Loan state `overdue` is
left out because no code assigns it.

`Circulation` knows only the shelf and the loans. `Desk` in `Lending` maps the
documents to it; `ImplementsCirculation` states the refinement.

### AccountSessions

A token or family carries the version of the account as it was read, and, as
history, how many invalidations (`cutoff`) the account had had. Handlers are cut
at their awaits: `Authenticate` / `CreateSession`, `Rotate` / `CheckSubject` /
`DenyRefreshAndRevoke`, `RevokeSubject` / `BumpAuthVersion` (`$inc`), and for
the account handlers `Edit` / `Save` / `RevokeSessions`. Each may end between
two of them. `Save` writes the fields that changed; replacing the roles array
makes mongoose match and increment `__v`, so two changes of roles exclude each
other while a change of roles and one of status do not. Password hashing,
audit events and token expiry are left out; without expiry, more credentials
stay alive than in the code. `overtaken` is history: the accounts for which a
`Save` overwrote an `authVersion` another handler had raised since the read. The
version is saved as a value, so that increment is lost; the properties speak of
all other accounts.

### AuthThrottle

`bucket[k][v]` is the document for key `k` (a dimension and a source, identifier
or family) under secret version `v`; the HMAC is taken as injective, so the pair
identifies it. A count of zero is an absent document. `request[r].at` is the
`now` captured on entry, used by every later filter. `step[r][k]` is the progress
of `consumeDimension` for one key: `lookup` is the first `findOneAndUpdate`;
`upsert` and `insert` are the second, cut where MongoDB matches nothing and
inserts, because that is where the unique index can refuse; `recount` is the
update in the catch block. The keys of an attempt run side by side, and an
exception decides the request at once while the other keys are still counted
(`Promise.all`).

`ArriveSignIn` and `ArriveRefresh` are the guard up to `consumeMany`, `CheckKeys`
is `hasEveryReferencedKey`, `DecideAllow` and `DecideRefuse` are the rest of
`consumeMany` and `assertAuthThrottleAllowed`. The handlers are reduced to what
the throttle sees: validation refuses, the call succeeds, or it throws and
`recordIdentifierFailure` counts once more. `Restart` stops an instance with all
it has under way and starts it with another configuration; `previous` holds the
older versions, and version 0 a configuration `loadKeyring` refuses. All
instances read one clock. `grants` and `opened` are history: what a window
admitted, which attempt opened it, and which others were past their check at that
moment (`beside`). An operation that throws has not been applied; an applied one
whose answer is lost would only count more.

### ProtectedRequests

The variables of `AccountSessions` and the requests whose handler runs. A request
is admitted in one step: `JwtStrategy.validate` reads the account, everything
after it until the handler works on the context built there. `Allowed` is what
the guard of the route decides from that context, `Entitled` what the documents
say; `HandledWithAuthority` compares the two, and they differ in where the
permissions come from. No route carries `RolesGuard`, and only the health routes
are `@Public`. Entitlement is judged at the read; an account that loses its
role a moment later may still be served, as in the code.

### IdentifierOperations

One document per operation id, with the phase of each assignment and the lease;
one reservation per identifier; the identifier field of each claimant. A request
is `resolveConflict` cut at its awaits: on a MongoDB with transactions one
commit, otherwise the saga with `reserve`, `apply`, `activate` for every
assignment, the finalization with its event, and the compensation from the last
applied assignment to the first. The job claims operations under a lease and
carries on, `attachMissingReservationReferences` included. Both keep what they
read in `executor` and `worker`, which is why a request that was overtaken may
still write. The mark that follows a restored reservation
(`MarkRecovered`) and every turn of the loop of `synchronizeAppliedAssignments`
are steps of their own. `Reservable` is the filter of the update that takes an identifier,
`Reserved` what a later recovery accepts as already reserved. `seen` is the
assignment list a compensation works from and `undo` the positions it has still
to go back over; `Latest` picks the last of them. The assignment actions `claim` and
`release` exist in `execute()` but no caller submits them.

### OfflineRepair and SharedSignIn

The batches of the manifest, the replacement reservations and the accounts they
belong to (a transaction changes a whole batch, so one of each per batch), the
parent operation, the commands with what they read, the job of each instance. A
batch is prepared (reservation pending, account changed), then activated
(reservation active behind `activationGateOperationId`), and one transaction
completes the parent. `cancel` compensates the batches it listed at its
beginning, the last first. The job sees the parent as an operation without
assignments and treats it so: `NextStatus` and `FinishRecovered` are what
`process` and `finalize` do with an empty list. `Cleanup` opens a bounded number
of gates per pass. Failing means that a call throws and the catch block runs, or
that the command dies.

`SharedSignIn` adds handlers of `createSharedSession`, which all three login
routes call. They read the reservation, the gating operation and the account in
three steps and create the family in a fourth. Its clients use replacement
identifiers; the conflicting identifier itself is refused because its
reservation is not active. An operation that expired may be gone when it is
looked up; its gated reservations are then refused.

### IdentifierReservations

Migration 003 (`up`) as a run that may be interrupted between any two of its
operations and started again, the record that ends it, the conflict events it
writes under the id of the reservation; then the account handlers. A member
request is cut at every call, with `reserveIdentifier` as a read followed by
an insert or a conditional update whose outcome is not looked at, and with both
catch blocks. A staff request is a transaction: its commit is one step, and
`AbortStaff` is an aborted attempt after which `withTransaction` runs the closure
again on a document that mongoose regards as saved. `rerun` is history: the
accounts whose last change of email was committed by such a repetition, which
reserves the new email and does not store it. Identifiers are numbers
because the backfill visits them in order. `bootstrap-admin` writes an account
and no reservation.

### KeyRotation

`deployed` is the configuration a process reads when it starts; each process has
its own ring. The operator asks the preflight for a candidate (two queries,
answered in either order; the later answer decides), deploys it when it is
accepted, and starts the next rotation only when every process runs the last one
(`RolledOut`). Repairs carry the version they were signed under. A pass finalizes
one it can finish, which then expires at once, since only a command leaves a
cleanup behind; "large" ones wait for the operator's command. `process` and
`pass` are `bootstrap`, the migration check, the readiness probe, the schedule,
`runBoundedPass` and `onModuleDestroy`, each cut at its awaits; an answer of an
earlier life of a process is `stale`. A repair whose version is not in the ring
is skipped and keeps its place in `order`.

### BrowserSession

A call is sent with the cookie and the token of that moment, served later and
answered later still; the answers come in any order, or not at all. `session`
is the store, `generation` the check `getGeneration()` makes after an await,
`pending` the shared promise of a refresh, `cache` the users whose data the
query client holds. Tabs share the cookie and nothing else. `live` is the
assumption on the library that `queryClient.clear()` forgets the queries in
flight. The server is a status and a number per family.

## 3. Runs

Every run finishes within four minutes on two otherwise idle workers, and every
one is expected to hold.

| run | question and properties |
|---|---|
| `rotation` | two rotations, the timer, sign-outs, two failures, expiry and deletion on one family: `SingleUse`, `CommittedBeforeReturned`, `CommittedIsSpent`, `ReplayRevokes`, `RevocationIsFinal` |
| `repair` | one failure: no family stays active with a token nobody holds (`InterruptedRotationRevoked`), no orphaned marker stays pending (`PendingOrphanFinalized`) |
| `circulation` | two desks, two books, two members, three loans: `Conservation`, `CountMatchesLoans`, `WithinLimit`, refinement of `Circulation` (`ImplementsCirculation`) |
| `eligibility` | status changes of all four documents between check and commit, overdue loans: `OpensOnlyIfEligible`, `NoLoanWhileOverdue` |
| `signout_all` | two sign-outs everywhere beside an account handler, two sign-ins, a refresh: `StaleCredentialsRejected` |
| `account_update` | two account handlers that overlap, a sign-in, a refresh, a protected request, a staff user and a member: the same, `PermissionsFollowRoles`, `HandledWithAuthority` |
| `throttle` | two requests on the three kinds of route and on two instances, of which one is restarted with the rotated ring or with the former one; one failure, expiry: `WindowLimit`, `OneLiveWindow`, `FailsClosed`, `MissingKeyRefuses`, `RunningWindowKept` |
| `saga` | a request and two jobs resolve a conflict: `AuditedBeforeTerminal`, `OwnReplacement`, `StatusLifecycle`, `OthersKeepTheirs` |
| `offline` | a repair in two batches, applied, cancelled, cut off and taken up again, two jobs, two sign-ins: `NoPartialOwnership`, `AllOrNothing`, `AccountFollowsReservation`, `CleanedUp`, `NoEarlySession` |
| `reservations` | an interrupted migration, then two account changes; two failures or transactions that run again: `StaffReserved`, `MigrationComplete`, `NeverStolen` |
| `keys` | three key versions, a repair that waits, restarts and a crash: `KeysRetained`, `NothingAfterShutdown`, `RotationResumes` |
| `browser` | five calls of one tab, three in flight: `SignedOutMeansForgotten`, `StaysSignedOut`, `OfferedOnce` |

### Bounds

- `TokenSession`: two requests are the smallest number that can race, be taken
  over and replay; three tokens give two generations plus a call that
  must be denied; one tick of lease and two or three of lifetime let a lease and
  a family run out in the middle of a call. `BatchSize` stands for the 100 of
  the code: what matters is whether the expired markers fit, and here they do.
  When they do not (`BatchSize = 1` with two families), `PendingOrphanFinalized`
  fails: a marker that awaits its takeover is skipped unchanged and keeps the
  head of the sorted query, in front of an orphan. `Present` starts no call whose
  lease would outlive the clock, so a stopped clock does not hide a repair.
- `Lending`: two calls conflict in every way two transactions can; three loans
  reach a limit of one or two and allow a loan after a return. `MaxTime = 2`
  with a period of one makes a loan overdue.
- `AccountSessions`, `ProtectedRequests`: `MaxCutoffs` bounds the invalidations of
  all accounts together; two suffice for one to be lost. Two handlers are the smallest number that can lose one, and the
  account that has not lost one is still checked. Two permissions and two lists of
  roles make a route one list is entitled to and the other is not.
- `AuthThrottle`: a limit of one makes the second attempt the one to refuse, and
  a failed sign-in counts twice, so two requests reach every bucket, every race
  of the upsert and a denied recount. A window of one tick in a clock of one ends
  while an attempt with an older time is under way, is rolled and is deleted.
  The instances start with any of the two rings, together or in the middle of a
  rollout; one restart is the rotation of one of them or its reversal, which
  removes a secret in use. No refresh token leads to a family: a refresh then
  counts one key, and the two keys of one attempt are those of a sign-in without
  a password. The five properties are proved for any constants (section 5).
- `IdentifierOperations`: two claimants, two mappings of two assignments each, a
  retain and replacements, an outsider who holds one of the identifiers. One
  fault and two jobs give a dead request, a takeover and an expired lease under a
  slow job; requests of one operation come one after the other (section 4 says
  what happens otherwise).
- `OfflineRepair`, `SharedSignIn`: two batches are prepared, activated and
  compensated in different phases; `MaxAssignments = 1` makes the cleanup take
  several passes and the pending batches overflow the limit; two faults let a
  command die, be resumed and fail again. `Retains = FALSE` changes only what the
  conflicting reservation becomes.
- `IdentifierReservations`: two identifiers, one of them a member number, a staff
  user and a member that both may claim both; two requests race, two runs of the
  migration are one interruption and its repetition; two failures let a
  transaction run again beside another failing call, or twice.
- `KeyRotation`: with one previous key and three versions the third rotation is
  blocked as long as the first version is in use.
- `BrowserSession`: five calls are a login, a sign-out and a second login with
  two answers late. Two tabs of one user with four calls were checked once (1.2
  million states): the three properties hold there too.
- Symmetry is used only in runs without liveness properties.
- Deadlock is checked for `TokenSession`. Everything else may come to rest (no
  loan record, no invalidation, no request, no repair left), so it is not checked
  there.

### Fairness

`FairSpec` of `TokenSession` assumes that a handler which is not interrupted
reaches its next operation, that the repair timer of a running instance fires
(`onModuleInit`, every 60 s) and runs, and that time passes. It assumes nothing
of clients, the TTL monitor or failures.

`RotationSpec` of `KeyRotation` assumes the same of the steps of a process (start, probe,
schedule, pass, drain), that a process which does not run the deployed
configuration is restarted, that windows and leases end, and of the operator that
a blocked rotation is asked for again and that a repair he began is applied
or cancelled in the end. The last is no property of the code: a large repair is
finished by nobody else. It assumes nothing of crashes, of voluntary restarts or
of new repairs.

## 4. Disagreements between documentation and code

No run checks these; each was met while modelling, and those with a property name
are counterexamples TLC gives when that property is checked, or when its named
exception or the hypothesis of a theorem is dropped.

Sessions:

- Sign-out with a token that was just exchanged revokes nothing, so the family
  lives on (`README.md:190`; `SignOutRevokesFamily` of `TokenSession` states the
  promise).
- Commit and revocation in `finalizeAndRevoke` are two operations; a second
  failure between them takes the marker out of the set every repair examines
  (`repair` with `MaxFaults = 2` violates `InterruptedRotationRevoked`).
- `handleExistingMarker` looks at the family before the lease, so a request that
  arrives between the owner's compare-and-swap and its commit revokes the family
  although the lease runs; `contracts/auth-api.md:203` promises a denial without
  mutation.
- Two account writes from the same read produce one `authVersion`
  (`specs/003-auth-roles-permissions/data-model.md:30`), so a session the second
  of them should have ended may go on. `StaleCredentialsRejected`,
  `PermissionsFollowRoles` and `HandledWithAuthority` except the accounts in
  `overtaken`; without the exception two overlapping handlers violate them.
- The success event of a sign-in is written after `createFamily`
  (`auth.service.ts:125`); when it fails the client gets an error and the family
  stays active. `setAggregateIdentifier` increments `authVersion` and revokes no
  family; the version alone ends the sessions.
- The account of a reserved identifier is looked up by login identifier, member
  number or email, so an equal email that is not reserved can keep the rightful
  member out.

Throttle:

- While a rotation of the secret is rolled out, an instance with the old
  configuration and one with the new one may both pass the check and find no
  bucket, and each opens one under its own current version
  (`data-model.md:409`, `quickstart.md:59`): the key then has two windows.
  `OneLiveWindow` says that this takes two attempts of different instances which
  were both past their check when the first window was opened; likewise
  `MissingKeyRefuses` except an attempt that was past its check.
- `routeCategory` compares the end of the path with `/login`, which
  `staff-login` does not have: this route is passed on uncounted, and
  `recordIdentifierFailure` finds no context. `README.md:192` says that shared
  and compatibility routes consume the same counters. The model follows the
  code, and `FailsClosed` speaks of the other routes.

Lending:

- Quantity edits are lost updates against lending: a PATCH may leave fewer copies
  than open loans (`specs/001-book-borrowing-system/data-model.md:24`;
  `TotalCoversLoans` states the promise). The status `overdue` is never written.

Identifier operations (`data-model.md` and `contracts/` of specs/003):

- Requests that overlap and bring different mappings under one operation id can
  give two accounts the same identifier: `assertOperationManifest` compares ids
  of assignments, not replacements, and sees nothing while the first has not
  written yet. `OwnReplacement` breaks with two such requests, and holds with two
  that bring the same mapping. It also breaks when they come one after the other:
  the first dies after a reservation, the second passes `assertOperationManifest`,
  takes that reservation for its own and applies its replacement unreserved.
- `OwnReplacement` also breaks with two operation ids and one request at a time.
  Between the compensation of a request and its finalization the job takes the
  operation back to `failed-retryable`. A retry then finds the reference of the
  compensated assignment (`findRecoverableReservation`, `src/src/auth/auth-identifier.service.ts:690`),
  does not look at the status of the reservation, which was released, and writes
  the account. If it dies there, the other operation may take that identifier for
  another claimant.
- A retained identifier is active before the other assignments are applied
  (`data-model.md:178`, `auth-api.md:133`).
- An operation whose assignments are all compensated can be submitted again while
  it is being finalized, and is then reported as completed. Compensation starts
  from applied assignments, so a claim that was settled is kept
  (`data-model.md:183`).
- After a crash an operation may be completed with the conflict still open; a
  conflict that is reopened after its release has no claimants; a retry of a
  completed request gets 404 instead of the recorded result
  (`auth-api.md:138`).
- An operation can go round between `applying` and `failed-retryable`.

Offline repair:

- The job finalizes a repair it finds in `finalizing` as an operation with no
  assignments, hence as failed, although the conflict may be resolved already
  (`data-model.md:210`); both terminal events may then be on record.
- Two commands that overlap work from stale lists of batches: `AllOrNothing` and
  `AccountFollowsReservation` break, `NoPartialOwnership` does not.
- Gates may outlive an operation that expires, and more pending reservations than
  an operation may have turn a finalizing repair into a retryable one.

Registry:

- A staff transaction that is repeated after the document was saved loses the
  email (`data-model.md:117`): the account keeps one that is free for others
  (`StaffReserved` excepts the accounts in `rerun`); a policy check that fails after the reservation
  leaks it (`data-model.md:118`).
- The administrator `bootstrap-admin` writes has no reservation and cannot use the
  shared sign-in (`quickstart.md:107`).
- A member whose email changes loses the reservation of an equal login
  identifier; the catch blocks at `members.service.ts:233` and `:361` release an
  identifier that is in use. Two accounts that claim a released identifier both
  succeed, and one of them owns nothing (`data-model.md:124`).
- Two migration runs side by side, one of them interrupted, lose a conflict event.

Keys and browser:

- Keys are retained only because the operator waits until a rollout has reached
  every process; nothing in the code makes him.
- Repairs whose key is missing keep the head of the batch; twice the batch size
  of them starve the others.
- A login that is answered after another user signed in, or beside a refresh in
  flight, leaves the session of one user with the cookie of the other; data
  cached for the previous user can be shown to the next; a sign-out with a login
  in flight leaves an active family.
- A 401 for an old token (`client.ts:86`) clears the session of a new one. Two
  tabs can replay each other's token. A failed sign-out is swallowed and the
  cookie survives.

The compare-and-swap of `rotate` does not look at the lease either, so an owner
whose marker was taken over may still swap; `SingleUse` shows that this never
yields a second exchange, because the commit of the marker decides.

## 5. Proofs

All statements hold for every value of the constants that satisfies the named
assumptions of the modules: bounds are natural numbers, finite sets are finite,
hashes are injective, the sentinel `None` and the ids of different collections
differ, and inputs have the shape the DTOs and `validateInput` let through
(`InputAssumption`, `PatchAssumption`, `IdAssumption` of `Lending`,
`ManifestAssumption` of `IdentifierOperations`). TLC evaluates each of them in
every run. Further hypotheses stand in the statement of a theorem and are named
below; each excludes a behaviour of section 4 in which the property breaks.

Each proof has the same layout: an inductive invariant, a lemma per action or per
group of actions that write the same documents, a lemma that puts them together
for `Next`, and the theorems. The invariants were model-checked on the instances
of the runs before they were proved.

`TokenSessionProofs` (no hypotheses)

- `TypeCorrect`: `TypeOK` alone is not inductive, because whether a handler
  follows a family id or an unset field depends on its `pc`. `TypeInv` adds that
  delivered tokens, markers and requests refer to families that exist.
- `RotationSingleUse`: a family's current hash belongs to an issued token, to no
  other family, and is not the replacement a call still holds
  (`CurrentIssued`, `CurrentUnique`, `NextUnseen`, `NextDistinct`). So after a
  successful compare-and-swap the presented token is current nowhere
  (`CommitSpent`), no second call stands at the commit with it
  (`CommitDistinct`), and it stays so after the exchange (`ExchangedSpent`).
  Most steps only move program counters or revoke; `QuietStepKeeps` deals with
  them at once and the proof is about the four steps that do more. Markers and
  leases play no part in the argument: single use rests on the
  compare-and-swap alone, markers serve the detection of replays.
- `RevocationFinal`: every update of a family is a creation, a revocation of
  active families, a swap on an active family, or a deletion
  (`NextFamilyMoves`).
- `RepairsBurnNoToken`, `MarkerOutlivesExchange`, `ReplayRevokesFamily`: here the
  markers matter. A delivered token, its markers and the handlers and repair
  passes that hold one belong to one family for good (`OwnershipInv`). An
  operation id is about one token, and a family that records it has stopped
  holding that token (`OperationIds`): this is why a repair that finds the id of
  a marker in the family may conclude that the token is spent, however old its
  reading is. So whoever stands before a commit has a spent token
  (`CommitsSpent`), a spent token stays spent, and a call with an exchanged token
  is on the way to the revocation or the family has ended (`ReplaysCaught`).

`LendingProofs`

- `TypeCorrect`, `LoansOpenOnlyIfEligible`, `NoLoansWhileOverdue` (no
  hypotheses). `LendingInv` says that references lead to documents, that an
  editor has found what it will save, and that what a transaction has read still
  holds of every document nobody has written since (`Snapshot`,
  `BorrowSnapshot`, `ReturnSnapshot`). At a commit without conflict nothing was
  written, so the policy check still holds. The loans of the member are only
  read by the transaction, but a loan made meanwhile writes the member.
- `CopiesConserved` and `LendingImplementsCirculation`, the refinement, under
  `TotalsKept`: no PATCH sets `totalQuantity`. One that does saves an available
  count computed from an earlier read and overwrites what was lent since.
  Statuses and categories may be edited at any time.
- `CountsMatchLoans` under `CountsKept`: no PATCH sets `activeLoanCount`, and
  members are created with a count of zero. `CreatorInv` says that a member is
  created once, `CountEdits` that editors leave the counter alone.
- `LimitsHold` under `CountsKept` and `LimitsKept`: nobody moves a member to
  another type or changes the limit of a type, which may put it below what is
  already out. A borrower whose document nobody wrote since is below the limit
  (`BelowLimit`), so two desks cannot both give the last loan.

`AccountSessionsProofs`

- `TypeCorrect`, along the same lines.
- `CredentialsInvalidated`, `PermissionsCurrent` (no hypotheses): any number of
  account handlers and sign-outs may overlap. An invalidation raises the version
  of its account or puts the account into `overtaken` (`Raised`), and an account
  stays there. `VersionInv` says for tokens, families and sign-ins in flight of
  the other accounts that what was born before the last invalidation carries a
  smaller version (`Superseded`), that what carries the present version carries
  the present roles, and that a handler which writes roles raises the version.
- `RequestTypes`: a request of `ProtectedRequests` is handled for an account.
- `AuthorityCurrent`, about `ProtectedRequests`: what the guard demands covers
  what the route needs (`GuardCoversNeeds`); the permissions of a valid token are
  those of the roles of an active account (`ValidPermissions`, from
  `VersionInv`); so a request is admitted only if it is entitled
  (`AdmitEntitled`), and later changes of the account do not alter that.

`ReconciliationProofs`

- `TypeCorrect`, `TerminalOperationsAudited`, `OperationsFollowLifecycle`,
  `OthersUntouched` (no hypotheses), for any number of requests, jobs and failures.
  `OperationInv` says what a request or job may still believe about the operation
  it works on (`RequestOK`, `JobOK`): the outcome it is about to write is
  terminal and its event is on record, and the status a job moves an operation
  from is one it can be moved from. Each action is shown to replace at most one
  request, one job and one document by a legal successor (`StepOK`). The
  reservation of an account outside the operation is active and refers to no
  operation (`OthersOK`), and every update of a reservation filters by its status,
  its subject or its operation.
- `VersionsInUseStayConfigured`, `ReconcilerStaysDown` (no hypotheses), both from
  `RotationInvariant`. `KeysRetained` is not inductive: between the answers to the
  two queries of the preflight repairs start and attempts are counted, by processes that run
  whatever ring they started with. `RingInv` says that the version a ring signs
  with is still configured, `PreflightInv` that during a rotation every process
  runs the deployed ring and that what the preflight has found so far, with the
  present and the coming version, covers what is in use: what is added later is
  signed with the present version, which the queries never give up. `StageInv`
  ties the timers and the pass of a process to its stage. The queue of repairs
  does not matter to any of this: a pass may take any repair.

`SharedSignInProofs`

- `RepairTypes`: `TypeOK` is strengthened by where the batch in hand lies
  (`AtInv`) and by what a command or job read when it began (`FromInv`): only an
  operation that was not over is written over, and a cleanup is of one that is.
- `RepairUnlocksAtOnce`: `GateInv` says that an active replacement is behind the
  gate unless the repair is completed. Activation sets the gate, only a cleanup
  takes it away, and a cleanup that leaves a reservation active knows from
  `FromInv` that the repair is completed. Steps are grouped by what they write
  (`CommandMoves`, `BatchMoves`, `JobMoves`). For any number of batches,
  concurrent commands and jobs, where the run has one command at a time.
- `RepairsAllOrNothing`, `AccountsFollowReservations`, `RepairsCleanedUp`, under
  `SingleRunner`: one command at a time, which an administrator runs
  interactively (`npm run auth:identifier-repair`). The jobs, failures and
  interruptions are not limited. A batch, its reservation and its account move
  together (`LinkInv`), what a command has done can be read off where it is
  (`CommandInv`), and a job cleans up what a command ended (`CleanupInv`).
- `SignInWaitsForRepair`: a sign-in past the gate is of a completed repair
  (`SignInInv`), which stays completed (`CompletedStays`).
- `SignInKeepsRepair`: the composition implements the repair. `SignInTypes`: its
  own variables keep their types.

`AuthThrottleProofs`

- `TypeCorrect`: `TypeInv` adds that absent buckets have no expiry, that captured
  times lie in the past, and that whoever counts has a current secret version.
- `LimitHolds`: an operation counts in a bucket that is live at the captured
  time, opens a window where none is, or counts nothing (`ConsumeCases`,
  `ConsumeBuckets`); in each case the admitted attempts stay below the count
  (`GrantInv`). For any number of instances, restarts and failures.
- `WindowKept`: what is live now is live at every captured time, so no upsert
  resets it.
- `GuardFailsClosed`: an attempt whose keys are being counted has no key left in
  the queue, and what got through was admitted by all of them (`AdmissionInv`).
  No hypotheses.
- `RotationKeepsWindow`, `RemovalRefuses` (no hypotheses): any number of
  instances with any secrets, restarted at any time. Neither is inductive;
  `RotationInv` follows who opened the windows that run. Their openers had
  started (`OpenerInv`), and who counted beside them was past its check
  (`BesideInv`, `ProgressInv`). An attempt that is about to open a window found
  none it could count in, so it was under way when each of those that run was
  opened (`WaitingInv`); and a window its own instance opened meanwhile has its
  own current version, because a restart would have ended the attempt
  (`SameRingInv`). So a second window is one of another instance and of an
  attempt beside the first.

`IdentifierReservationsProofs` (no hypotheses)

- `TypeCorrect`, `IdentifiersNeverStolen`: a request takes what is free and gives
  up what is its own subject's (`Effect`, of `Takes` and `Gives`).
- `MigrationEndsComplete`: until the record is written, all reservations are the
  migration's own, and the conflicts are between accounts that there still are
  (`BackfillInv`). What a run read is still so, and it uses the id of the
  reservation an earlier run made (`GroupInv`), so its event is the one of that
  document, and the conflicts it has passed have theirs (`EventInv`).
- `StaffHoldTheirs`: the staff accounts a run of the migration has read are those
  there are, except for the script's, and a reservation an earlier, interrupted
  run made is theirs too (`StaffInv`); after it, a staff email is taken in the
  transaction that writes it (`Effect`), unless the closure ran again, which puts
  the account into `rerun`.

`BrowserSessionProofs` (no hypotheses)

- `TypeCorrect`: the numbers of the families stay within the calls that were sent
  (`BudgetInv`).
- `SignOutForgets`, `SignOutLasts`: nothing that was sent before the sign-out and
  is still on its way can set the session or fill the cache: a quiet tab has no
  login in flight and its refresh is of an old generation (`QuietInv`), and the
  queries of a tab that signed out no longer count (`ForgottenInv`).
- `TokensOfferedOnce`: a token is in one answer and nowhere else until that
  answer is applied (`FreshInv`), and a tab has one refresh in flight; its cookie
  is a token it had exchanged only while that answer is on its way
  (`RefreshInv`).

Only model-checked:

- Liveness (`InterruptedRotationRevoked`, `PendingOrphanFinalized`,
  `RotationResumes`), which is outside what the prover handles.
- `OwnReplacement`, on the instance of `saga`: one operation id, requests that come
  one after the other, mappings that agree. The code enforces none of
  these, and without them the property breaks in the ways section 4 describes.
- The part of `RotationTypeOK` about the queue of repairs and the lists taken from
  it, which are filtered with `SelectSeq`: a recursive definition. `RotationShape`
  is the rest.

## 6. Not modelled

- The staff handlers on a MongoDB without transactions (`staff-users.service.ts`
  257-263, 293-301): they take the steps of the member handlers.
- `down()` of the migrations, versions 001 and 002 and the creation of indexes:
  schema work of one process with no state other components rely on.
- `login`, `createStaffSession`, `memberLogin`, `createMemberSession` of the
  authentication service, `refreshSession`'s absent callers in the user interface
  (the function is modelled as exported and tested), and `failInvalidOperation`: no
  route or reachable state leads there.
- Audit events nothing reads, header checks, the source address, liveness of the
  process, configuration parsing beyond the keys, rendering, demo data and the
  quality tooling. They keep no state that another component relies on.
- Signatures, HMACs and hashes are taken as injective.
