----------------------- MODULE IdentifierReservations -----------------------
(***************************************************************************)
(* Who owns a sign-in identifier.  The registry auth_identifiers holds one *)
(* reservation per identifier; it is filled from the accounts by migration *)
(* 003 (src/migrations/versions/003-auth-roles-permissions.ts, run by      *)
(* src/migrations/migrate.ts) and kept by the handlers of the staff and    *)
(* the member accounts (staff-users.service.ts, members.service.ts).  The  *)
(* script bootstrap-admin.ts writes an account without it.                 *)
(*                                                                         *)
(* A call to the database is one step and other requests run between two   *)
(* of them; a staff change is one transaction.  The handlers run once the  *)
(* migration is recorded; nothing but the migration and the script changes *)
(* the documents before.                                                   *)
(***************************************************************************)
EXTENDS Integers, FiniteSets

CONSTANTS
    Identifiers,    \* identifiers are 1..Identifiers, in the order of the backfill
    Staff, Member,  \* the subjects
    Number,         \* Number[m]: the identifier that is m's memberNumber, or None
    Request,        \* concurrent requests
    None,
    MaxAttempts,    \* bound: runs of the migration
    MaxFaults       \* bound: calls that fail

Identifier == 1..Identifiers
Subject == Staff \cup Member

ASSUME SubjectAssumption == Staff \cap Member = {} /\ IsFiniteSet(Subject)
ASSUME NumberAssumption == Number \in [Member -> Identifier \cup {None}]
ASSUME NoneAssumption == None \notin Identifier \cup Subject
ASSUME BoundsAssumption == Identifiers \in Nat /\ MaxAttempts \in Nat /\ MaxFaults \in Nat

VARIABLES
    account,        \* staffusers and members: the identifiers of each account
    reservation,    \* auth_identifiers
    request,        \* requests in progress
    migration,      \* the run of the migration in progress
    migrated,       \* migration_records holds version 003
    sessions,       \* refresh-token families of the old version are active
    events,         \* identifier-conflict-detected, by id of the reservation
    scripted,       \* accounts that bootstrap-admin.ts wrote
    rerun,          \* history: accounts whose last change of email was committed
                    \* by a transaction that had run again
    faults

store == <<account, reservation>>
deployment == <<migration, migrated, sessions, events>>
vars == <<store, request, deployment, scripted, rerun, faults>>

\* email: the staff user's or the member's; login: the member's loginIdentifier.
Account == [ exists : BOOLEAN, email : Identifier \cup {None},
             login : Identifier \cup {None} ]

\* claimants: conflictingSubjects; id: the run of the migration that made it,
\* 0 when a handler did.
Reservation ==
    [ status : {"absent", "active", "released", "conflict"},
      subject : Subject \cup {None}, claimants : SUBSET Subject,
      id : 0..MaxAttempts ]

Unreserved == [ status |-> "absent", subject |-> None, claimants |-> {}, id |-> 0 ]

Steps == {"idle", "find", "insert", "retake", "validate", "save", "release", "revoke",
          "undo", "transaction"}

RequestState ==
    [ pc : Steps, subject : Subject \cup {None}, field : {"email", "login"},
      previous : Identifier \cup {None}, next : Identifier \cup {None},
      creates : BOOLEAN, clean : BOOLEAN ]

Idle == [ pc |-> "idle", subject |-> None, field |-> "email", previous |-> None,
          next |-> None, creates |-> FALSE, clean |-> FALSE ]

\* found: the reservations this run read before it changed any.
Migration ==
    [ pc : {"idle", "revoke", "read", "upsert", "audit", "record"},
      attempt : 0..MaxAttempts, at : 1..(Identifiers + 1),
      groups : [Identifier -> SUBSET Subject],
      found : [Identifier -> 0..MaxAttempts] ]

Ready(attempt) ==
    [ pc |-> "idle", attempt |-> attempt, at |-> 1,
      groups |-> [i \in Identifier |-> {}], found |-> [i \in Identifier |-> 0] ]

TypeOK ==
    /\ account \in [Subject -> Account]
    /\ reservation \in [Identifier -> Reservation]
    /\ request \in [Request -> RequestState]
    /\ migration \in Migration
    /\ migrated \in BOOLEAN /\ sessions \in BOOLEAN
    /\ events \subseteq Identifier \X (1..MaxAttempts)
    /\ scripted \subseteq Staff
    /\ rerun \subseteq Staff
    /\ faults \in 0..MaxFaults

\* The unique indexes on staff email, member email and member login.
Unique(a) ==
    \A s, t \in Subject :
        s # t /\ a[s].exists /\ a[t].exists /\ (s \in Staff <=> t \in Staff) =>
        \A f \in {"email", "login"} : a[s][f] = a[t][f] => a[s][f] = None

\* The accounts an installation of the old version can hold.
Legacy ==
    {a \in [Subject -> Account] :
        /\ \A s \in Subject : ~a[s].exists => a[s].email = None /\ a[s].login = None
        /\ \A s \in Staff : a[s].login = None /\ (a[s].exists <=> a[s].email # None)
        /\ Unique(a)}

Init ==
    /\ account \in Legacy
    /\ reservation = [i \in Identifier |-> Unreserved]
    /\ request = [r \in Request |-> Idle]
    /\ migration = Ready(0)
    /\ migrated = FALSE /\ sessions = TRUE
    /\ events = {} /\ scripted = {} /\ rerun = {} /\ faults = 0

-----------------------------------------------------------------------------
(* Migration 003 *)

\* runPendingMigrations finds no record of version 003.
StartMigration ==
    /\ migration.pc = "idle" /\ ~migrated
    /\ migration.attempt < MaxAttempts
    /\ migration' = [migration EXCEPT !.pc = "revoke", !.attempt = @ + 1]
    /\ UNCHANGED <<store, request, migrated, sessions, events, scripted, rerun, faults>>

RevokeLegacySessions ==
    /\ migration.pc = "revoke"
    /\ sessions' = FALSE
    /\ migration' = [migration EXCEPT !.pc = "read"]
    /\ UNCHANGED <<store, request, migrated, events, scripted, rerun, faults>>

\* addCandidate: a subject claims an identifier once, whatever the field.
Claims(s, i) ==
    /\ account[s].exists
    /\ \/ s \in Staff /\ account[s].email = i
       \/ s \in Member /\ i \in {account[s].login, Number[s]}

ReadAccounts ==
    /\ migration.pc = "read"
    /\ migration' = [migration EXCEPT !.pc = "upsert", !.at = 1,
          !.groups = [i \in Identifier |-> {s \in Subject : Claims(s, i)}],
          !.found = [i \in Identifier |-> reservation[i].id]]
    /\ UNCHANGED <<store, request, migrated, sessions, events, scripted, rerun, faults>>

\* Mutant: every run makes a new id.
NewIdentifierId(i) == migration.attempt

\* The identifierId this run uses: the one it read, or a new one.
IdentifierId(i) ==
    IF migration.found[i] # 0 THEN migration.found[i] ELSE migration.attempt

\* $setOnInsert: an existing reservation is left as it is.
Backfilled(i) ==
    LET claimants == migration.groups[i] IN
    IF reservation[i] # Unreserved THEN reservation[i]
    ELSE IF Cardinality(claimants) > 1
    THEN [ status |-> "conflict", subject |-> None, claimants |-> claimants,
           id |-> IdentifierId(i) ]
    ELSE [ status |-> "active", subject |-> CHOOSE s \in claimants : TRUE,
           claimants |-> {}, id |-> IdentifierId(i) ]

NextIdentifier == [migration EXCEPT !.pc = "upsert", !.at = @ + 1]

UpsertReservation ==
    LET i == migration.at IN
    /\ migration.pc = "upsert"
    /\ \/ /\ i > Identifiers
          /\ migration' = [migration EXCEPT !.pc = "record"]
          /\ UNCHANGED reservation
       \/ /\ i <= Identifiers /\ migration.groups[i] = {}
          /\ migration' = NextIdentifier
          /\ UNCHANGED reservation
       \/ /\ i <= Identifiers /\ migration.groups[i] # {}
          /\ reservation' = [reservation EXCEPT ![i] = Backfilled(i)]
          /\ migration' = IF Cardinality(migration.groups[i]) > 1
                          THEN [migration EXCEPT !.pc = "audit"]
                          ELSE NextIdentifier
    /\ UNCHANGED <<account, request, migrated, sessions, events, scripted, rerun, faults>>

AuditConflict ==
    /\ migration.pc = "audit"
    /\ events' = events \cup {<<migration.at, IdentifierId(migration.at)>>}
    /\ migration' = NextIdentifier
    /\ UNCHANGED <<store, request, migrated, sessions, scripted, rerun, faults>>

RecordMigration ==
    /\ migration.pc = "record"
    /\ migrated' = TRUE
    /\ migration' = Ready(0)
    /\ UNCHANGED <<store, request, sessions, events, scripted, rerun, faults>>

\* A failed call or a stopped process: nothing of up() is rolled back.
AbortMigration ==
    /\ migration.pc # "idle"
    /\ faults < MaxFaults
    /\ migration' = Ready(migration.attempt)
    /\ faults' = faults + 1
    /\ UNCHANGED <<store, request, migrated, sessions, events, scripted,
                   rerun>>

-----------------------------------------------------------------------------
(* bootstrapFirstAdministrator: an account with no reservation.  It is refused *)
(* while there is an active administrator, which the model does not tell from  *)
(* other staff.                                                                *)

BootstrapAdmin(s, i) ==
    LET created == [account EXCEPT ![s].exists = TRUE, ![s].email = i] IN
    /\ ~account[s].exists
    /\ Unique(created)
    /\ account' = created
    /\ scripted' = scripted \cup {s}
    /\ UNCHANGED <<reservation, request, deployment, rerun, faults>>

-----------------------------------------------------------------------------
(* The account handlers *)

Reserved(i, s) == reservation[i].status = "active" /\ reservation[i].subject = s

\* MembersService.create: nothing is reserved, not even the email.
CreateMember(m, i) ==
    LET created == [account EXCEPT ![m] = [ exists |-> TRUE, email |-> i,
                                            login |-> None ]] IN
    /\ migrated /\ ~account[m].exists
    /\ Unique(created)
    /\ account' = created
    /\ UNCHANGED <<reservation, request, deployment, scripted, rerun, faults>>

Begin(r, s, field, i, creates, pc) ==
    /\ migrated /\ request[r].pc = "idle"
    /\ account[s].exists = ~creates
    /\ request' = [request EXCEPT ![r] =
          [ pc |-> pc, subject |-> s, field |-> field,
            previous |-> account[s][field], next |-> i, creates |-> creates,
            clean |-> FALSE ]]
    /\ UNCHANGED <<store, deployment, scripted, rerun, faults>>

\* MembersService.update with another email.
UpdateMember(r, m, i) == i # account[m].email /\ Begin(r, m, "email", i, FALSE, "find")

\* setMemberCredentials, the same login identifier included; another member
\* must not hold it.
SetMemberCredentials(r, m, i) ==
    /\ \A n \in Member \ {m} : account[n].exists => account[n].login # i
    /\ Begin(r, m, "login", i, FALSE, "find")

CreateStaff(r, s, i) ==
    /\ \A t \in Staff : account[t].exists => account[t].email # i
    /\ Begin(r, s, "email", i, TRUE, "transaction")

UpdateStaff(r, s, i) ==
    i # account[s].email /\ Begin(r, s, "email", i, FALSE, "transaction")

Step(r, pc) == request' = [request EXCEPT ![r].pc = pc]

\* The answer, or identifierError.
Finish(r) == request' = [request EXCEPT ![r] = Idle]

\* reserveIdentifier reads: the subject's own is enough, a free one is taken,
\* any other refuses the request.
FindReservation(r) ==
    LET q == request[r]
        status == reservation[q.next].status IN
    /\ q.pc = "find"
    /\ \/ Reserved(q.next, q.subject) /\ Step(r, "validate")
       \/ status = "absent" /\ Step(r, "insert")
       \/ status = "released" /\ Step(r, "retake")
       \/ /\ status \in {"active", "conflict"} /\ ~Reserved(q.next, q.subject)
          /\ Finish(r)
    /\ UNCHANGED <<store, deployment, scripted, rerun, faults>>

Taken(i, s) ==
    [reservation EXCEPT ![i].status = "active", ![i].subject = s]

\* An identifier nobody had: the unique index refuses the second insert.
InsertReservation(r) ==
    LET q == request[r] IN
    /\ q.pc = "insert"
    /\ \/ /\ reservation[q.next].status = "absent"
          /\ reservation' = Taken(q.next, q.subject)
          /\ Step(r, "validate")
       \/ /\ reservation[q.next].status # "absent"
          /\ Finish(r)
          /\ UNCHANGED reservation
    /\ UNCHANGED <<account, deployment, scripted, rerun, faults>>

\* Mutant: the update is not conditional on the status.
RetakeAnyway(r) ==
    /\ request[r].pc = "retake"
    /\ reservation' = Taken(request[r].next, request[r].subject)
    /\ Step(r, "validate")
    /\ UNCHANGED <<account, deployment, scripted, rerun, faults>>

\* A released one: the update is conditional and its outcome not looked at, so a
\* request that comes too late goes on all the same.
RetakeReservation(r) ==
    LET q == request[r] IN
    /\ q.pc = "retake"
    /\ reservation' = IF reservation[q.next].status = "released"
                      THEN Taken(q.next, q.subject) ELSE reservation
    /\ Step(r, "validate")
    /\ UNCHANGED <<account, deployment, scripted, rerun, faults>>

\* An update that also names a membership type that is not active fails here,
\* and keeps the reservation.
ValidatePolicy(r) ==
    /\ request[r].pc = "validate"
    /\ Step(r, "save") \/ (request[r].field = "email" /\ Finish(r))
    /\ UNCHANGED <<store, deployment, scripted, rerun, faults>>

Stored(q) == [account EXCEPT ![q.subject] =
    IF q.creates THEN [ exists |-> TRUE, email |-> q.next, login |-> None ]
    ELSE [@ EXCEPT ![q.field] = q.next]]

Save(r) ==
    LET q == request[r] IN
    /\ q.pc = "save"
    /\ \/ /\ Unique(Stored(q))
          /\ account' = Stored(q)
          /\ Step(r, "release")
       \/ /\ ~Unique(Stored(q))
          /\ Step(r, "undo")
          /\ UNCHANGED account
    /\ UNCHANGED <<reservation, deployment, scripted, rerun, faults>>

\* releaseIdentifier
Released(i, s) ==
    IF i # None /\ Reserved(i, s)
    THEN [reservation EXCEPT ![i].status = "released"] ELSE reservation

ReleasePrevious(r) ==
    LET q == request[r] IN
    /\ q.pc = "release"
    /\ reservation' = IF q.previous = q.next THEN reservation
                      ELSE Released(q.previous, q.subject)
    /\ Step(r, "revoke")
    /\ UNCHANGED <<account, deployment, scripted, rerun, faults>>

\* revokeSessions and the security event; the request is answered.
RevokeSessions(r) ==
    /\ request[r].pc = "revoke"
    /\ Finish(r)
    /\ UNCHANGED <<store, deployment, scripted, rerun, faults>>

\* The catch block.
UndoReservation(r) ==
    LET q == request[r] IN
    /\ q.pc = "undo"
    /\ reservation' = Released(q.next, q.subject)
    /\ Finish(r)
    /\ UNCHANGED <<account, deployment, scripted, rerun, faults>>

\* Mutant: as RetakeReservation, the transaction goes on when the identifier is taken.
CommitStaffAnyway(r) ==
    LET q == request[r] IN
    /\ q.pc = "transaction"
    /\ IF Unique(Stored(q))
       THEN /\ account' = Stored(q)
            /\ reservation' = IF reservation[q.next].status \in {"absent", "released"}
                              THEN Taken(q.next, q.subject) ELSE reservation
       ELSE UNCHANGED store
    /\ Finish(r)
    /\ UNCHANGED <<deployment, scripted, rerun, faults>>

\* persistCreateWithIdentifier and persistIdentifierChange: reservation, account
\* and release in one transaction, which runs again after a write conflict.
CommitStaff(r) ==
    LET q == request[r]
        free == reservation[q.next].status \in {"absent", "released"}
        stored == IF q.clean THEN account ELSE Stored(q)
        accepted == /\ free \/ Reserved(q.next, q.subject)
                    /\ Unique(stored)
                    /\ ~(q.clean /\ q.creates) IN
    /\ q.pc = "transaction"
    /\ \/ /\ accepted
          /\ reservation' = [i \in Identifier |->
                CASE i = q.next -> Taken(i, q.subject)[i]
                  [] i = q.previous /\ i # q.next -> Released(i, q.subject)[i]
                  [] OTHER -> reservation[i]]
          /\ account' = stored
          /\ rerun' = IF q.clean THEN rerun \cup {q.subject}
                      ELSE rerun \ {q.subject}
          /\ IF q.creates THEN Finish(r) ELSE Step(r, "revoke")
       \/ ~accepted /\ Finish(r) /\ UNCHANGED <<store, rerun>>
    /\ UNCHANGED <<deployment, scripted, faults>>

\* The transaction is aborted after the document was saved in it: the document
\* in memory no longer knows of a change, and the closure runs again with it.  A
\* new document is then not found, an old one is saved without its new email.
AbortStaff(r) ==
    /\ request[r].pc = "transaction"
    /\ faults < MaxFaults
    /\ request' = [request EXCEPT ![r].clean = TRUE]
    /\ faults' = faults + 1
    /\ UNCHANGED <<store, deployment, scripted, rerun>>

\* A call fails; the process may also stop.
FailRequest(r) ==
    LET q == request[r] IN
    /\ q.pc \notin {"idle", "transaction"}
    /\ faults < MaxFaults
    /\ \/ Finish(r)
       \/ q.pc \in {"save", "release", "revoke"} /\ q.subject \in Member /\ Step(r, "undo")
    /\ faults' = faults + 1
    /\ UNCHANGED <<store, deployment, scripted, rerun>>

-----------------------------------------------------------------------------
MigrationStep ==
    \/ StartMigration \/ RevokeLegacySessions \/ ReadAccounts \/ UpsertReservation
    \/ AuditConflict \/ RecordMigration \/ AbortMigration

Handler(r) ==
    \/ \E m \in Member, i \in Identifier :
          UpdateMember(r, m, i) \/ SetMemberCredentials(r, m, i)
    \/ \E s \in Staff, i \in Identifier : CreateStaff(r, s, i) \/ UpdateStaff(r, s, i)
    \/ FindReservation(r) \/ InsertReservation(r) \/ RetakeReservation(r)
    \/ ValidatePolicy(r) \/ Save(r) \/ ReleasePrevious(r) \/ RevokeSessions(r)
    \/ UndoReservation(r) \/ CommitStaff(r) \/ AbortStaff(r) \/ FailRequest(r)

Next ==
    \/ MigrationStep
    \/ \E s \in Staff, i \in Identifier : BootstrapAdmin(s, i)
    \/ \E m \in Member, i \in Identifier \cup {None} : CreateMember(m, i)
    \/ \E r \in Request : Handler(r)

Spec == Init /\ [][Next]_vars

-----------------------------------------------------------------------------
(* Properties *)

Holds(s, i) ==
    \/ Reserved(i, s)
    \/ reservation[i].status = "conflict" /\ s \in reservation[i].claimants

\* The email of a staff account is reserved for it, or known to be disputed: no
\* interleaving of staff and member changes, no retry of the migration and no
\* call that fails leaves a staff account with an identifier that is free for
\* others.  Two kinds of accounts are excepted: the script reserves nothing, and
\* a change of email whose transaction ran again is reserved but not stored,
\* while the email the account keeps is given up (AbortStaff).
StaffReserved ==
    migrated =>
        \A s \in Staff \ (scripted \cup rerun) :
            account[s].exists => Holds(s, account[s].email)

\* An identifier that is active for a subject never passes to another one
\* directly, and only a request of that subject gives it up, whatever stale
\* reservation another request has read and whichever call fails.
NeverStolen ==
    [][\A i \in Identifier :
          reservation[i].status = "active" /\ reservation'[i] # reservation[i] =>
              /\ reservation'[i] = [reservation[i] EXCEPT !.status = "released"]
              /\ \E r \in Request : /\ request[r].subject = reservation[i].subject
                                    /\ request'[r] # request[r]]_vars

\* Once version 003 is recorded, however often its runs were interrupted, no
\* session of the old version is active and every conflict it found has its
\* security event, under the id of the reservation itself.
MigrationComplete ==
    migrated =>
        /\ ~sessions
        /\ \A i \in Identifier : reservation[i].status = "conflict" =>
              <<i, reservation[i].id>> \in events

============================================================================
