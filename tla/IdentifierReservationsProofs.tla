------------------- MODULE IdentifierReservationsProofs --------------------
(***************************************************************************)
(* Proofs about IdentifierReservations: types, that an identifier passes   *)
(* from nobody to another directly, that the migration is complete once it *)
(* is recorded, and that every staff account has its identifier reserved.  *)
(***************************************************************************)
EXTENDS IdentifierReservations, FiniteSetTheorems, TLAPS

-----------------------------------------------------------------------------
(* Requests *)

\* The steps of a member's change; a staff change is one transaction.
MemberSteps == {"find", "insert", "retake", "validate", "save", "release", "undo"}

\* Who a request works for.  The handlers run once the migration is recorded.
RequestAt(q) ==
    /\ q.pc # "idle" => migrated /\ q.subject \in Subject /\ q.next \in Identifier
    /\ q.pc \in MemberSteps => q.subject \in Member
    /\ q.pc = "transaction" => q.subject \in Staff /\ q.field = "email"

RequestInv == \A r \in Request : RequestAt(request[r])

-----------------------------------------------------------------------------
(* The migration *)

RunInv ==
    /\ migration.pc # "idle" => migration.attempt # 0 /\ ~migrated
    /\ migration.pc = "audit" => migration.at \in Identifier
    /\ migration.pc = "record" => migration.at = Identifiers + 1
    /\ migrated \/ migration.pc \in {"read", "upsert", "audit", "record"} => ~sessions

\* Before version 003 is recorded every reservation is one the migration made,
\* and a conflict is between accounts that there still are: until then accounts
\* are only added.
BackfillInv ==
    ~migrated =>
        \A i \in Identifier :
            /\ reservation[i] # Unreserved => reservation[i].id # 0
            /\ reservation[i].status = "conflict" =>
                  \E s, t \in Subject : s # t /\ Claims(s, i) /\ Claims(t, i)

\* What this run read is still so, and it uses the id of the reservation that an
\* earlier run made.
GroupInv ==
    migration.pc \in {"upsert", "audit"} =>
        \A i \in Identifier :
            /\ \A s \in migration.groups[i] : Claims(s, i)
            /\ reservation[i] # Unreserved => reservation[i].id = IdentifierId(i)
            /\ reservation[i].status = "conflict" =>
                  \E s, t \in migration.groups[i] : s # t

\* The conflicts this run has passed, and in the end all, have their event.
EventInv ==
    \A i \in Identifier :
        /\ reservation[i].status = "conflict"
        /\ \/ migration.pc \in {"upsert", "audit"} /\ i < migration.at
           \/ migration.pc = "record"
           \/ migrated
        => <<i, reservation[i].id>> \in events

-----------------------------------------------------------------------------
(* Staff accounts *)

StaffEmailInv ==
    \A s \in Staff : account[s].exists => account[s].email \in Identifier

\* The identifiers this run has not come to.
Ahead(i) ==
    \/ ~migrated /\ migration.pc \in {"idle", "revoke", "read"}
    \/ migration.pc = "upsert" /\ i >= migration.at
    \/ migration.pc = "audit" /\ i > migration.at

\* The accounts with an email that is reserved for them.
Regular == Staff \ (scripted \cup rerun)

\* The staff accounts a run has read are those there are, but for those the
\* script wrote; a reservation that an earlier run made is theirs too.
StaffInv ==
    \A s \in Regular :
        account[s].exists =>
            /\ migration.pc \in {"upsert", "audit"} =>
                  s \in migration.groups[account[s].email]
            /\ \/ ~Ahead(account[s].email)
               \/ reservation[account[s].email] # Unreserved
               => Holds(s, account[s].email)

OwnershipInv ==
    /\ TypeOK /\ RequestInv /\ RunInv /\ BackfillInv /\ GroupInv /\ EventInv
    /\ StaffEmailInv /\ StaffInv

-----------------------------------------------------------------------------
(* What a step of a request may do to the accounts and the reservations *)

\* The reservation when the subject has taken the identifier.
Owned(i, s) == [reservation[i] EXCEPT !.status = "active", !.subject = s]

Takes(r, i) ==
    /\ i = request[r].next
    /\ reservation[i].status \in {"absent", "released"}
    /\ reservation'[i] = Owned(i, request[r].subject)

Gives(r, i) ==
    /\ Reserved(i, request[r].subject)
    /\ reservation'[i] = [reservation[i] EXCEPT !.status = "released"]
    /\ request'[r] # request[r]

\* A request takes what is free and gives what is its subject's; a staff account
\* gets an email that is reserved for it, and only one whose change was committed
\* by a closure that ran again keeps an email that is given up.
Effect(r) ==
    /\ migrated
    /\ UNCHANGED <<deployment, scripted, faults>>
    /\ rerun' \subseteq Staff
    /\ reservation' \in [Identifier -> Reservation] /\ account' \in [Subject -> Account]
    /\ \A i \in Identifier :
          reservation'[i] = reservation[i] \/ Takes(r, i) \/ Gives(r, i)
    /\ \A s \in Staff :
          account'[s] # account[s] \/ s \in rerun \ rerun' =>
             \E i \in Identifier : account'[s].email = i /\ Reserved(i, s)'
    /\ \A s \in Staff, i \in Identifier :
          s = request[r].subject /\ Gives(r, i) =>
             account'[s].email # i \/ s \in rerun'

-----------------------------------------------------------------------------
(* Types *)

\* A set of subjects with more than one member has two different ones.
LEMMA MoreThanOne ==
    ASSUME NEW C \in SUBSET Subject
    PROVE  Cardinality(C) > 1 <=> \E s, t \in C : s # t
<1>1. IsFiniteSet(C)
  BY SubjectAssumption, FS_Subset
<1>2. Cardinality(C) \in Nat
  BY <1>1, FS_CardinalityType
<1>3. CASE C = {}
  BY <1>3, FS_EmptySet
<1>4. CASE C # {}
  <2>1. PICK s : s \in C
    BY <1>4
  <2>2. /\ Cardinality(C \ {s}) = Cardinality(C) - 1
        /\ IsFiniteSet(C \ {s})
    BY <1>1, <2>1, FS_RemoveElement
  <2>3. Cardinality(C \ {s}) \in Nat /\ (Cardinality(C \ {s}) = 0 <=> C \ {s} = {})
    BY <2>2, FS_CardinalityType, FS_EmptySet
  <2> QED BY <1>2, <2>1, <2>2, <2>3
<1> QED BY <1>3, <1>4

LEMMA ReadyType ==
    ASSUME NEW n \in 0..MaxAttempts
    PROVE  /\ Ready(n) \in Migration /\ Ready(n).pc = "idle"
           /\ Ready(n).attempt = n
BY BoundsAssumption DEF Ready, Migration, Identifier

LEMMA UnreservedType ==
    /\ Unreserved \in Reservation
    /\ Unreserved.status = "absent" /\ Unreserved.id = 0
BY BoundsAssumption DEF Unreserved, Reservation

LEMMA InitOwnershipInv == Init => OwnershipInv
<1> SUFFICES ASSUME Init PROVE OwnershipInv
  OBVIOUS
<1>1. /\ migration \in Migration /\ migration.pc = "idle"
  BY ReadyType, BoundsAssumption DEF Init
<1>2. Unreserved \in Reservation /\ Unreserved.status = "absent"
  BY UnreservedType
<1>3. Idle \in RequestState /\ Idle.pc = "idle" /\ ~Idle.clean
  BY DEF Idle, RequestState, Steps
<1>4. \A i \in Identifier : reservation[i] = Unreserved
  BY DEF Init
<1>5. \A r \in Request : request[r] = Idle
  BY DEF Init
<1>6. TypeOK
  <2>1. account \in [Subject -> Account]
    BY Zenon DEF Init, Legacy
  <2>2. reservation \in [Identifier -> Reservation] /\ request \in [Request -> RequestState]
    BY <1>2, <1>3 DEF Init
  <2>3. /\ migrated \in BOOLEAN /\ sessions \in BOOLEAN
        /\ events = {} /\ scripted = {} /\ rerun = {} /\ faults \in 0..MaxFaults
    <3>1. /\ migrated = FALSE /\ sessions = TRUE /\ events = {}
          /\ scripted = {} /\ rerun = {} /\ faults = 0
      BY Zenon DEF Init
    <3>2. migrated \in BOOLEAN /\ sessions \in BOOLEAN
      BY <3>1, Zenon
    <3>3. faults \in 0..MaxFaults
      <4>1. 0 \in 0..MaxFaults
        BY BoundsAssumption
      <4> QED BY <3>1, <4>1, Zenon
    <3> QED BY <3>1, <3>2, <3>3, Zenon
  <2> QED BY <1>1, <2>1, <2>2, <2>3 DEF TypeOK
<1>7. RequestInv
  BY <1>3, <1>5 DEF RequestInv, RequestAt, MemberSteps
<1>8. RunInv /\ GroupInv
  BY <1>1 DEF RunInv, GroupInv, Init
<1>9. BackfillInv /\ EventInv
  BY <1>2, <1>4 DEF BackfillInv, EventInv
<1>10. StaffEmailInv
  <2>1. account \in Legacy
    BY DEF Init
  <2> QED BY <2>1 DEF Legacy, StaffEmailInv, Account, Subject
<1>11. StaffInv
  <2>1. \A i \in Identifier : Ahead(i) /\ reservation[i] = Unreserved
    BY <1>1, <1>4 DEF Ahead, Init
  <2> QED BY <1>1, <1>10, <2>1 DEF StaffInv, StaffEmailInv, Regular
<1> QED BY <1>6, <1>7, <1>8, <1>9, <1>10, <1>11 DEF OwnershipInv

-----------------------------------------------------------------------------
(* The migration *)

\* What a step of the migration leaves alone.
LEMMA MigrationFrame ==
    ASSUME OwnershipInv, MigrationStep
    PROVE  /\ UNCHANGED <<account, request, scripted, rerun>>
           /\ migrated => migrated'
           /\ faults' \in 0..MaxFaults
           /\ ~migrated
<1>1. UNCHANGED <<account, request, scripted, rerun>>
  BY Zenon DEF MigrationStep, StartMigration, RevokeLegacySessions, ReadAccounts,
     UpsertReservation, AuditConflict, RecordMigration, AbortMigration, store
<1>2. ~migrated
  <2>1. migration.pc # "idle" \/ ~migrated
    BY Zenon DEF MigrationStep, StartMigration, RevokeLegacySessions, ReadAccounts,
       UpsertReservation, AuditConflict, RecordMigration, AbortMigration
  <2> QED BY <2>1 DEF OwnershipInv, RunInv
<1>3. faults' = faults \/ (faults < MaxFaults /\ faults' = faults + 1)
  BY Zenon DEF MigrationStep, StartMigration, RevokeLegacySessions, ReadAccounts,
     UpsertReservation, AuditConflict, RecordMigration, AbortMigration
<1>4. faults \in 0..MaxFaults
  BY DEF OwnershipInv, TypeOK
<1> QED BY <1>1, <1>2, <1>3, <1>4, BoundsAssumption

\* The part of the invariant that only speaks of accounts and requests.
LEMMA AccountsStay ==
    ASSUME OwnershipInv, UNCHANGED <<account, request, scripted, rerun>>,
           migrated => migrated'
    PROVE  RequestInv' /\ StaffEmailInv'
BY DEF OwnershipInv, RequestInv, RequestAt, StaffEmailInv

\* A step of the migration that changes no reservation.
LEMMA MigrationSteps ==
    ASSUME OwnershipInv,
           \/ StartMigration \/ RevokeLegacySessions \/ ReadAccounts
           \/ AuditConflict \/ RecordMigration \/ AbortMigration
    PROVE  OwnershipInv'
<1>0. /\ TypeOK /\ RunInv /\ BackfillInv /\ GroupInv /\ EventInv /\ StaffInv
      /\ StaffEmailInv /\ migration \in Migration
      /\ reservation' = reservation
  BY Zenon DEF OwnershipInv, TypeOK, StartMigration, RevokeLegacySessions,
     ReadAccounts, AuditConflict, RecordMigration, AbortMigration, store
<1>1. /\ UNCHANGED <<account, request, scripted, rerun>>
      /\ migrated => migrated'
      /\ faults' \in 0..MaxFaults
      /\ ~migrated
  BY MigrationFrame DEF MigrationStep
<1>2. RequestInv' /\ StaffEmailInv'
  BY <1>1, AccountsStay
<1>3. BackfillInv'
  BY <1>0, <1>1 DEF BackfillInv, Claims
<1>f. ASSUME migration' \in Migration, migrated' \in BOOLEAN, sessions' \in BOOLEAN,
             events' \subseteq Identifier \X (1..MaxAttempts)
      PROVE  TypeOK'
  BY <1>0, <1>1, <1>f DEF TypeOK
<1>4. CASE StartMigration
  <2> DEFINE n == migration.attempt + 1
             q == [migration EXCEPT !.pc = "revoke", !.attempt = n]
  <2>1. n \in 0..MaxAttempts /\ n # 0
    BY <1>0, <1>4, BoundsAssumption DEF StartMigration, Migration
  <2>2. migration' = q
    BY <1>4 DEF StartMigration
  <2> HIDE DEF n
  <2>3. q \in Migration /\ q.pc = "revoke" /\ q.attempt = n
    BY <1>0, <2>1 DEF Migration
  <2> HIDE DEF q
  <2>4. UNCHANGED <<migrated, sessions, events, faults>> /\ migration.pc = "idle"
    BY <1>4 DEF StartMigration
  <2>5. RunInv' /\ GroupInv' /\ EventInv'
    BY <1>0, <1>1, <2>1, <2>2, <2>3, <2>4 DEF RunInv, GroupInv, EventInv
  <2>6. \A i : Ahead(i)' /\ Ahead(i)
    BY <1>1, <2>2, <2>3, <2>4 DEF Ahead
  <2>7. StaffInv'
    BY <1>0, <1>1, <2>2, <2>3, <2>4, <2>6
       DEF StaffInv, Regular, Holds, Reserved
  <2>8. TypeOK'
    BY <1>0, <1>f, <2>2, <2>3, <2>4 DEF TypeOK
  <2> QED BY <1>2, <1>3, <2>5, <2>7, <2>8 DEF OwnershipInv
<1>5. CASE RevokeLegacySessions
  <2> DEFINE q == [migration EXCEPT !.pc = "read"]
  <2>1. migration' = q
    BY <1>5 DEF RevokeLegacySessions
  <2>2. q \in Migration /\ q.pc = "read" /\ q.attempt = migration.attempt
    BY <1>0 DEF Migration
  <2> HIDE DEF q
  <2>3. UNCHANGED <<migrated, events, faults>> /\ sessions' = FALSE
        /\ migration.pc = "revoke"
    BY <1>5 DEF RevokeLegacySessions
  <2>4. RunInv' /\ GroupInv' /\ EventInv'
    BY <1>0, <1>1, <2>1, <2>2, <2>3 DEF RunInv, GroupInv, EventInv
  <2>5. \A i : Ahead(i)' /\ Ahead(i)
    BY <1>1, <2>1, <2>2, <2>3 DEF Ahead
  <2>6. StaffInv'
    BY <1>0, <1>1, <2>1, <2>2, <2>3, <2>5
       DEF StaffInv, Regular, Holds, Reserved
  <2>7. TypeOK'
    BY <1>0, <1>f, <2>1, <2>2, <2>3 DEF TypeOK
  <2> QED BY <1>2, <1>3, <2>4, <2>6, <2>7 DEF OwnershipInv
<1>6. CASE ReadAccounts
  <2> DEFINE g == [i \in Identifier |-> {s \in Subject : Claims(s, i)}]
             f == [i \in Identifier |-> reservation[i].id]
             q == [migration EXCEPT !.pc = "upsert", !.at = 1, !.groups = g,
                                    !.found = f]
  <2>1. migration' = q
    BY <1>6 DEF ReadAccounts
  <2>2. g \in [Identifier -> SUBSET Subject] /\ f \in [Identifier -> 0..MaxAttempts]
        /\ 1 \in 1..(Identifiers + 1)
    BY <1>0, BoundsAssumption DEF TypeOK, Reservation
  <2>3. \A i \in Identifier : /\ \A s \in Subject : s \in g[i] <=> Claims(s, i)
                              /\ g[i] \subseteq Subject
                              /\ f[i] = reservation[i].id
    OBVIOUS
  <2> HIDE DEF g, f
  <2>4. /\ q \in Migration /\ q.pc = "upsert" /\ q.at = 1 /\ q.groups = g
        /\ q.found = f /\ q.attempt = migration.attempt
    BY <1>0, <2>2 DEF Migration
  <2> HIDE DEF q
  <2>5. UNCHANGED <<migrated, sessions, events, faults>> /\ migration.pc = "read"
    BY <1>6 DEF ReadAccounts
  <2>6. RunInv'
    BY <1>0, <1>1, <2>1, <2>4, <2>5 DEF RunInv
  <2>7. GroupInv'
    <3> SUFFICES ASSUME NEW i \in Identifier
                 PROVE  /\ \A s \in g[i] : Claims(s, i)'
                        /\ reservation[i] # Unreserved =>
                              reservation[i].id = IdentifierId(i)'
                        /\ reservation[i].status = "conflict" =>
                              \E s, t \in g[i] : s # t
      BY <1>0, <2>1, <2>4 DEF GroupInv
    <3>1. \A s \in g[i] : Claims(s, i)'
      BY <1>1, <2>3 DEF Claims
    <3>2. reservation[i] # Unreserved => reservation[i].id = IdentifierId(i)'
      BY <1>0, <1>1, <2>1, <2>3, <2>4 DEF BackfillInv, IdentifierId
    <3>3. reservation[i].status = "conflict" => \E s, t \in g[i] : s # t
      BY <1>0, <1>1, <2>3 DEF BackfillInv
    <3> QED BY <3>1, <3>2, <3>3
  <2>8. EventInv'
    BY <1>0, <1>1, <2>1, <2>4, <2>5 DEF EventInv, Identifier
  <2>9. \A i \in Identifier : Ahead(i)' /\ Ahead(i)
    BY <1>1, <2>1, <2>4, <2>5 DEF Ahead, Identifier
  <2>10. StaffInv'
    <3> SUFFICES ASSUME NEW s \in Regular, account[s].exists
                 PROVE  /\ s \in g[account[s].email]
                        /\ \/ ~Ahead(account[s].email)'
                           \/ reservation[account[s].email] # Unreserved
                           => Holds(s, account[s].email)'
      BY <1>0, <1>1, <2>1, <2>4, <2>5 DEF StaffInv, Regular
    <3>1. account[s].email \in Identifier /\ Claims(s, account[s].email)
      BY <1>0 DEF StaffEmailInv, Claims, Regular
    <3>2. PICK e \in Identifier : e = account[s].email
      BY <3>1
    <3>3. s \in g[e] /\ Ahead(e)'
      BY <2>3, <2>9, <3>1, <3>2 DEF Subject, Regular
    <3>4. reservation[e] # Unreserved => Holds(s, e)'
      BY <1>0, <3>2 DEF StaffInv, Holds, Reserved
    <3> QED BY <1>1, <3>2, <3>3, <3>4
  <2>11. TypeOK'
    BY <1>0, <1>f, <2>1, <2>4, <2>5 DEF TypeOK
  <2> QED BY <1>2, <1>3, <2>6, <2>7, <2>8, <2>10, <2>11 DEF OwnershipInv
<1>7. CASE AuditConflict
  <2> DEFINE k == migration.at
             q == [migration EXCEPT !.pc = "upsert", !.at = k + 1]
             e == <<k, IdentifierId(k)>>
  <2>1. migration' = q /\ events' = events \cup {e}
    BY <1>7 DEF AuditConflict, NextIdentifier
  <2>2. /\ UNCHANGED <<migrated, sessions, faults>> /\ migration.pc = "audit"
        /\ k \in Identifier /\ k + 1 \in 1..(Identifiers + 1)
    BY <1>0, <1>7, BoundsAssumption DEF AuditConflict, RunInv, Identifier
  <2>3. e \in Identifier \X (1..MaxAttempts)
    <3>1. IdentifierId(k) \in 1..MaxAttempts
      BY <1>0, <2>2, BoundsAssumption DEF IdentifierId, RunInv, Migration
    <3> QED BY <2>2, <3>1
  <2>4. /\ q \in Migration /\ q.pc = "upsert" /\ q.at = k + 1
        /\ q.groups = migration.groups /\ q.found = migration.found
        /\ q.attempt = migration.attempt
    <3> HIDE DEF k
    <3> QED BY <1>0, <2>2 DEF Migration
  <2> HIDE DEF q
  <2>5. RunInv'
    BY <1>0, <1>1, <2>1, <2>2, <2>4 DEF RunInv
  <2>6. GroupInv'
    BY <1>0, <1>1, <2>1, <2>2, <2>4 DEF GroupInv, IdentifierId, Claims
  <2>7. EventInv'
    <3> SUFFICES ASSUME NEW i \in Identifier, reservation[i].status = "conflict",
                        i < k + 1
                 PROVE  <<i, reservation[i].id>> \in events'
      BY <1>0, <1>1, <2>1, <2>2, <2>4 DEF EventInv
    <3>1. CASE i < k
      BY <1>0, <2>1, <2>2, <3>1 DEF EventInv
    <3>2. CASE i = k
      <4>1. reservation[i] # Unreserved
        BY UnreservedType
      <4>2. reservation[i].id = IdentifierId(k)
        BY <1>0, <2>2, <3>2, <4>1 DEF GroupInv
      <4> QED BY <2>1, <3>2, <4>2
    <3> QED BY <2>2, <3>1, <3>2 DEF Identifier
  <2>8. \A i \in Identifier : Ahead(i)' <=> Ahead(i)
    BY <1>1, <2>1, <2>2, <2>4 DEF Ahead, Identifier
  <2>9. StaffInv'
    BY <1>0, <1>1, <2>1, <2>2, <2>4, <2>8
       DEF StaffInv, StaffEmailInv, Regular, Holds, Reserved
  <2>10. events' \subseteq Identifier \X (1..MaxAttempts)
    <3> HIDE DEF e
    <3> QED BY <1>0, <2>1, <2>3 DEF TypeOK
  <2>11. TypeOK'
    BY <1>0, <1>f, <2>1, <2>2, <2>4, <2>10 DEF TypeOK
  <2> QED BY <1>2, <1>3, <2>5, <2>6, <2>7, <2>9, <2>11 DEF OwnershipInv
<1>8. CASE RecordMigration
  <2>1. /\ migration' \in Migration /\ migration'.pc = "idle"
    BY <1>8, ReadyType, BoundsAssumption DEF RecordMigration
  <2>2. /\ migrated' = TRUE /\ UNCHANGED <<sessions, events, faults>>
        /\ migration.pc = "record"
    BY <1>8 DEF RecordMigration
  <2>3. RunInv' /\ GroupInv' /\ EventInv'
    BY <1>0, <1>1, <2>1, <2>2 DEF RunInv, GroupInv, EventInv
  <2>4. \A i : ~Ahead(i)' /\ ~Ahead(i)
    BY <1>1, <2>1, <2>2 DEF Ahead
  <2>5. StaffInv'
    BY <1>0, <1>1, <2>1, <2>2, <2>4 DEF StaffInv, Regular, Holds, Reserved
  <2>6. TypeOK'
    BY <1>0, <1>f, <2>1, <2>2 DEF TypeOK
  <2> QED BY <1>2, <1>3, <2>3, <2>5, <2>6 DEF OwnershipInv
<1>9. CASE AbortMigration
  <2>1. /\ migration' \in Migration /\ migration'.pc = "idle"
    BY <1>0, <1>9, ReadyType DEF AbortMigration, Migration
  <2>2. /\ UNCHANGED <<sessions, migrated, events>> /\ faults' = faults + 1
    BY <1>9 DEF AbortMigration
  <2>3. RunInv' /\ GroupInv' /\ EventInv'
    BY <1>0, <1>1, <2>1, <2>2 DEF RunInv, GroupInv, EventInv
  <2>4. StaffInv'
    <3>1. \A i : Ahead(i)'
      BY <1>1, <2>1, <2>2 DEF Ahead
    <3> QED BY <1>0, <1>1, <2>1, <2>2, <3>1
         DEF StaffInv, Regular, Holds, Reserved
  <2>5. TypeOK'
    BY <1>0, <1>f, <2>1, <2>2 DEF TypeOK
  <2> QED BY <1>2, <1>3, <2>3, <2>4, <2>5 DEF OwnershipInv
<1> QED BY <1>4, <1>5, <1>6, <1>7, <1>8, <1>9


\* What the backfill writes for the identifier it has come to.
LEMMA BackfilledFacts ==
    ASSUME OwnershipInv, migration.pc = "upsert", NEW i \in Identifier,
           migration.groups[i] # {}
    PROVE  LET b == Backfilled(i)
               C == migration.groups[i]
           IN  /\ b \in Reservation /\ b # Unreserved
               /\ b.id = IdentifierId(i) /\ b.id # 0
               /\ b.status = "conflict" => /\ Cardinality(C) > 1
                                          /\ \E s, t \in C : s # t
               /\ reservation[i] = Unreserved =>
                     \A s \in C :
                        \/ b.status = "conflict" /\ s \in b.claimants
                        \/ b.status = "active" /\ b.subject = s
<1> DEFINE C == migration.groups[i]
           n == IdentifierId(i)
           d == [ status |-> "conflict", subject |-> None, claimants |-> C, id |-> n ]
           one == CHOOSE s \in C : TRUE
           a == [ status |-> "active", subject |-> one, claimants |-> {}, id |-> n ]
<1>1. /\ migration \in Migration /\ reservation[i] \in Reservation
      /\ RunInv /\ GroupInv /\ BackfillInv
  BY DEF OwnershipInv, TypeOK
<1>2. C \in SUBSET Subject /\ C # {}
  BY <1>1 DEF Migration
<1>3. n \in 1..MaxAttempts
  BY <1>1, BoundsAssumption DEF IdentifierId, RunInv, Migration
<1>4. one \in C
  BY <1>2
<1>5. Cardinality(C) > 1 <=> \E s, t \in C : s # t
  BY <1>2, MoreThanOne
<1>6. Backfilled(i) = IF reservation[i] # Unreserved THEN reservation[i]
                      ELSE IF Cardinality(C) > 1 THEN d ELSE a
  BY DEF Backfilled
<1>7. reservation[i] # Unreserved =>
         /\ reservation[i].id = n
         /\ reservation[i].status = "conflict" => \E s, t \in C : s # t
  BY <1>1 DEF GroupInv
<1> HIDE DEF C, n, one
<1>8. /\ d \in Reservation /\ d.status = "conflict" /\ d.claimants = C /\ d.id = n
      /\ a \in Reservation /\ a.status = "active" /\ a.subject = one /\ a.id = n
  BY <1>2, <1>3, <1>4, BoundsAssumption DEF Reservation
<1>9. d # Unreserved /\ a # Unreserved
  BY <1>8, UnreservedType
<1> HIDE DEF d, a
<1> DEFINE b == Backfilled(i)
<1>10. CASE reservation[i] # Unreserved
  <2>1. b = reservation[i]
    BY <1>6, <1>10
  <2> HIDE DEF b
  <2>2. b \in Reservation /\ b.id = n /\ n # 0
    BY <1>1, <1>3, <1>7, <1>10, <2>1
  <2>3. b.status = "conflict" => Cardinality(C) > 1 /\ \E s, t \in C : s # t
    BY <1>5, <1>7, <1>10, <2>1
  <2> QED BY <1>10, <2>1, <2>2, <2>3 DEF C, n, b
<1>11. CASE reservation[i] = Unreserved /\ Cardinality(C) > 1
  <2>1. b = d
    BY <1>6, <1>11
  <2> HIDE DEF b
  <2> QED BY <1>3, <1>5, <1>8, <1>9, <1>11, <2>1 DEF C, n, b
<1>12. CASE reservation[i] = Unreserved /\ ~(Cardinality(C) > 1)
  <2>1. b = a
    BY <1>6, <1>12
  <2>2. \A s \in C : one = s
    BY <1>4, <1>5, <1>12
  <2> HIDE DEF b
  <2> QED BY <1>3, <1>8, <1>9, <1>12, <2>1, <2>2 DEF C, n, b
<1> QED BY <1>10, <1>11, <1>12

\* The step that keeps or writes one reservation and moves on.
LEMMA UpsertKeepsInv ==
    ASSUME OwnershipInv, UpsertReservation
    PROVE  OwnershipInv'
<1> DEFINE i == migration.at
           C == migration.groups[i]
<1>0. /\ TypeOK /\ RunInv /\ BackfillInv /\ GroupInv /\ EventInv /\ StaffInv
      /\ StaffEmailInv /\ migration \in Migration
      /\ migration.pc = "upsert"
      /\ UNCHANGED <<account, request, migrated, sessions, events, scripted, rerun, faults>>
  BY Zenon DEF OwnershipInv, TypeOK, UpsertReservation
<1>1. ~migrated
  BY MigrationFrame DEF MigrationStep
<1>2. RequestInv' /\ StaffEmailInv'
  BY <1>0, AccountsStay
<1>3. i \in 1..(Identifiers + 1)
  BY <1>0 DEF Migration
<1>s. ASSUME NEW s, NEW j PROVE Claims(s, j)' <=> Claims(s, j)
  BY <1>0 DEF Claims
\* What follows when the run goes on with the same reading.
<1>m. ASSUME NEW pc \in {"upsert", "audit", "record"},
             NEW at \in 1..(Identifiers + 1),
             migration' = [migration EXCEPT !.pc = pc, !.at = at]
      PROVE  /\ migration' \in Migration
             /\ migration'.pc = pc /\ migration'.at = at
             /\ migration'.groups = migration.groups
             /\ migration'.found = migration.found
             /\ migration'.attempt = migration.attempt
             /\ \A j : IdentifierId(j)' = IdentifierId(j)
  BY <1>0, <1>m DEF Migration, IdentifierId
<1>4. CASE i > Identifiers /\ migration' = [migration EXCEPT !.pc = "record"]
           /\ UNCHANGED reservation
  <2>1. i = Identifiers + 1
    BY <1>3, <1>4, BoundsAssumption
  <2>2. migration' = [migration EXCEPT !.pc = "record", !.at = i]
    BY <1>0, <1>4 DEF Migration
  <2>3. /\ migration' \in Migration /\ migration'.pc = "record"
        /\ migration'.at = i /\ migration'.attempt = migration.attempt
    BY <1>3, <1>m, <2>2
  <2>4. TypeOK'
    BY <1>0, <1>4, <2>3 DEF TypeOK
  <2>5. RunInv' /\ GroupInv'
    BY <1>0, <1>1, <2>1, <2>3 DEF RunInv, GroupInv
  <2>6. BackfillInv'
    BY <1>0, <1>1, <1>4, <1>s DEF BackfillInv
  <2>7. EventInv'
    BY <1>0, <1>4, <2>1, <2>3, BoundsAssumption DEF EventInv, Identifier
  <2>8. \A j \in Identifier : ~Ahead(j) /\ ~Ahead(j)'
    BY <1>0, <1>1, <2>1, <2>3, BoundsAssumption DEF Ahead, Identifier
  <2>9. StaffInv'
    BY <1>0, <1>4, <2>3, <2>8
       DEF StaffInv, StaffEmailInv, Regular, Holds, Reserved
  <2> QED BY <1>2, <2>4, <2>5, <2>6, <2>7, <2>9 DEF OwnershipInv
<1>5. CASE i \in Identifier /\ C = {} /\ migration' = NextIdentifier
           /\ UNCHANGED reservation
  <2> DEFINE k == i + 1
  <2>1. k \in 1..(Identifiers + 1)
    BY <1>5, BoundsAssumption DEF Identifier
  <2>2. migration' = [migration EXCEPT !.pc = "upsert", !.at = k]
    BY <1>5 DEF NextIdentifier
  <2> HIDE DEF k
  <2>3. /\ migration' \in Migration /\ migration'.pc = "upsert"
        /\ migration'.at = k /\ migration'.attempt = migration.attempt
        /\ migration'.groups = migration.groups
        /\ \A j : IdentifierId(j)' = IdentifierId(j)
    BY <1>m, <2>1, <2>2
  <2>4. TypeOK'
    BY <1>0, <1>5, <2>3 DEF TypeOK
  <2>5. RunInv' /\ GroupInv'
    BY <1>0, <1>1, <1>5, <1>s, <2>3 DEF RunInv, GroupInv
  <2>6. BackfillInv'
    BY <1>0, <1>1, <1>5, <1>s DEF BackfillInv
  <2>7. \A j \in Identifier : j < k <=> j < i \/ j = i
    BY <1>3, BoundsAssumption DEF Identifier, k
  <2>8. EventInv'
    <3>1. reservation[i].status # "conflict"
      BY <1>0, <1>5 DEF GroupInv
    <3> QED BY <1>0, <1>1, <1>5, <2>3, <2>7, <3>1 DEF EventInv
  <2>9. \A j \in Identifier : Ahead(j)' <=> Ahead(j) /\ j # i
    BY <1>0, <1>1, <2>3, <1>3, BoundsAssumption DEF Ahead, Identifier, k
  <2>10. StaffInv'
    <3> SUFFICES ASSUME NEW s \in Regular, account[s].exists
                 PROVE  /\ s \in migration.groups[account[s].email]
                        /\ \/ ~Ahead(account[s].email)'
                           \/ reservation[account[s].email] # Unreserved
                           => Holds(s, account[s].email)'
      BY <1>0, <1>5, <2>3 DEF StaffInv, Regular
    <3>1. account[s].email \in Identifier
      BY <1>0 DEF StaffEmailInv, Regular
    <3>2. s \in migration.groups[account[s].email]
      BY <1>0 DEF StaffInv
    <3> QED BY <1>0, <1>5, <2>9, <3>1, <3>2 DEF StaffInv, Holds, Reserved
  <2> QED BY <1>2, <2>4, <2>5, <2>6, <2>8, <2>10 DEF OwnershipInv
<1>6. ASSUME i \in Identifier, C # {},
             reservation' = [reservation EXCEPT ![i] = Backfilled(i)],
             migration' = IF Cardinality(C) > 1
                          THEN [migration EXCEPT !.pc = "audit"]
                          ELSE NextIdentifier
      PROVE  OwnershipInv'
  <2> DEFINE many == Cardinality(C) > 1
             k == IF many THEN i ELSE i + 1
             pc == IF many THEN "audit" ELSE "upsert"
             b == Backfilled(i)
  <2>1. k \in 1..(Identifiers + 1) /\ pc \in {"upsert", "audit", "record"}
    BY <1>6, BoundsAssumption DEF Identifier
  <2>2. migration' = [migration EXCEPT !.pc = pc, !.at = k]
    BY <1>0, <1>6 DEF NextIdentifier, Migration
  <2>3. /\ b \in Reservation /\ b # Unreserved
        /\ b.id = IdentifierId(i) /\ b.id # 0
        /\ b.status = "conflict" => many /\ \E s, t \in C : s # t
        /\ reservation[i] = Unreserved =>
              \A s \in C :
                 \/ b.status = "conflict" /\ s \in b.claimants
                 \/ b.status = "active" /\ b.subject = s
    <3>1. OwnershipInv /\ migration.pc = "upsert" /\ i \in Identifier
          /\ migration.groups[i] # {}
      BY <1>0, <1>6
    <3> HIDE DEF i
    <3> QED BY <3>1, BackfilledFacts
  <2>4. many => pc = "audit" /\ k = i
    OBVIOUS
  <2>5. ~many => pc = "upsert" /\ k = i + 1
    OBVIOUS
  <2>6. reservation' = [reservation EXCEPT ![i] = b]
    BY <1>6
  <2> HIDE DEF k, pc, b, many
  <2>7. /\ migration' \in Migration /\ migration'.pc = pc
        /\ migration'.at = k /\ migration'.attempt = migration.attempt
        /\ migration'.groups = migration.groups
        /\ \A j : IdentifierId(j)' = IdentifierId(j)
    BY <1>m, <2>1, <2>2
  <2>8. /\ reservation'[i] = b
        /\ \A j \in Identifier : j # i => reservation'[j] = reservation[j]
        /\ reservation' \in [Identifier -> Reservation]
    BY <1>0, <1>6, <2>3, <2>6 DEF TypeOK
  <2>9. TypeOK'
    BY <1>0, <2>7, <2>8 DEF TypeOK
  <2>10. RunInv'
    BY <1>0, <1>1, <1>6, <2>4, <2>5, <2>7 DEF RunInv
  <2>11. GroupInv'
    BY <1>0, <1>s, <2>3, <2>7, <2>8 DEF GroupInv
  <2>12. BackfillInv'
    <3>1. \A s \in C : s \in Subject /\ Claims(s, i)
      BY <1>0, <1>6 DEF GroupInv, Migration
    <3>c. PICK c \in Identifier : c = i
      BY <1>6
    <3>2. b.status = "conflict" =>
             \E s, t \in Subject : s # t /\ Claims(s, c)' /\ Claims(t, c)'
      BY <1>s, <2>3, <3>1, <3>c
    <3>3. ASSUME NEW j \in Identifier
          PROVE  /\ reservation'[j] # Unreserved => reservation'[j].id # 0
                 /\ reservation'[j].status = "conflict" =>
                      \E s, t \in Subject : s # t /\ Claims(s, j)' /\ Claims(t, j)'
      <4>1. CASE j = c
        BY <2>3, <2>8, <3>2, <3>c, <4>1
      <4>2. CASE j # c
        <5>1. /\ reservation[j] # Unreserved => reservation[j].id # 0
              /\ reservation[j].status = "conflict" =>
                    \E s, t \in Subject : s # t /\ Claims(s, j) /\ Claims(t, j)
          BY <1>0, <1>1 DEF BackfillInv
        <5> QED BY <1>s, <2>8, <3>c, <4>2, <5>1
      <4> QED BY <4>1, <4>2
    <3> QED BY <3>3 DEF BackfillInv
  <2>13. \A j \in Identifier : j < k => j < i \/ (j = i /\ ~many)
    BY <1>3, <2>4, <2>5, BoundsAssumption DEF Identifier
  <2>14. EventInv'
    <3>1. migration'.pc # "record" /\ ~migrated'
      BY <1>0, <1>1, <2>4, <2>5, <2>7
    <3>2. ASSUME NEW j \in Identifier, reservation'[j].status = "conflict", j < k
          PROVE  <<j, reservation'[j].id>> \in events
      <4>1. CASE j = i
        <5>1. ~(j < i)
          BY <1>3, <4>1, BoundsAssumption
        <5> QED BY <2>3, <2>8, <2>13, <3>2, <4>1, <5>1
      <4>2. CASE j # i
        BY <1>0, <2>8, <2>13, <3>2, <4>2 DEF EventInv
      <4> QED BY <4>1, <4>2
    <3> QED BY <1>0, <2>7, <3>1, <3>2 DEF EventInv
  <2>15. \A j \in Identifier : Ahead(j)' <=> Ahead(j) /\ j # i
    BY <1>0, <1>1, <1>3, <2>4, <2>5, <2>7, BoundsAssumption DEF Ahead, Identifier
  <2>16. StaffInv'
    <3> SUFFICES ASSUME NEW s \in Regular, account[s].exists
                 PROVE  /\ s \in migration.groups[account[s].email]
                        /\ \/ ~Ahead(account[s].email)'
                           \/ reservation'[account[s].email] # Unreserved
                           => Holds(s, account[s].email)'
      BY <1>0, <2>7 DEF StaffInv, Regular
    <3>1. PICK e \in Identifier : e = account[s].email
      BY <1>0 DEF StaffEmailInv, Regular
    <3>2. /\ s \in migration.groups[e]
          /\ ~Ahead(e) \/ reservation[e] # Unreserved => Holds(s, e)
      BY <1>0, <3>1 DEF StaffInv
    <3>3. ASSUME ~Ahead(e)' \/ reservation'[e] # Unreserved
          PROVE  Holds(s, e)'
      <4>1. CASE e = i /\ reservation[i] = Unreserved
        BY <2>3, <2>8, <3>2, <4>1 DEF Holds, Reserved
      <4>2. CASE e = i /\ reservation[i] # Unreserved
        <5>1. reservation'[e] = reservation[e]
          BY <2>8, <4>2 DEF Backfilled, b
        <5> QED BY <3>2, <4>2, <5>1 DEF Holds, Reserved
      <4>3. CASE e # i
        BY <2>8, <2>15, <3>2, <3>3, <4>3 DEF Holds, Reserved
      <4> QED BY <4>1, <4>2, <4>3
    <3> QED BY <1>0, <3>1, <3>2, <3>3
  <2> QED BY <1>2, <2>9, <2>10, <2>11, <2>12, <2>14, <2>16 DEF OwnershipInv
<1>7. i > Identifiers \/ i \in Identifier
  BY <1>3, BoundsAssumption DEF Identifier
<1> QED
  <2>1. \/ /\ i > Identifiers
           /\ migration' = [migration EXCEPT !.pc = "record"]
           /\ UNCHANGED reservation
        \/ /\ i <= Identifiers /\ C = {}
           /\ migration' = NextIdentifier
           /\ UNCHANGED reservation
        \/ /\ i <= Identifiers /\ C # {}
           /\ reservation' = [reservation EXCEPT ![i] = Backfilled(i)]
           /\ migration' = IF Cardinality(C) > 1
                           THEN [migration EXCEPT !.pc = "audit"]
                           ELSE NextIdentifier
    BY Zenon DEF UpsertReservation
  <2>2. i <= Identifiers => i \in Identifier
    BY <1>3, BoundsAssumption DEF Identifier
  <2> QED BY <1>4, <1>5, <1>6, <2>1, <2>2

\* A step of the migration keeps the invariant.
LEMMA MigrationKeepsInv ==
    ASSUME OwnershipInv, MigrationStep
    PROVE  OwnershipInv'
BY MigrationSteps, UpsertKeepsInv, Zenon DEF MigrationStep

-----------------------------------------------------------------------------
(* Requests *)

\* A request goes on to its next step.
LEMMA StepMoves ==
    ASSUME OwnershipInv, NEW r \in Request, NEW pc \in Steps,
           request[r].pc # "idle", Step(r, pc), migrated' = migrated,
           pc # "transaction",
           pc \in MemberSteps => request[r].subject \in Member
    PROVE  /\ request' \in [Request -> RequestState] /\ RequestInv'
           /\ request'[r].pc = pc
<1> DEFINE q == [request[r] EXCEPT !.pc = pc]
<1>1. request \in [Request -> RequestState] /\ RequestInv
  BY DEF OwnershipInv, TypeOK
<1>2. /\ q \in RequestState /\ q.pc = pc /\ q.subject = request[r].subject
      /\ q.next = request[r].next /\ q.clean = request[r].clean
  BY <1>1 DEF RequestState
<1>3. request' = [request EXCEPT ![r] = q]
  BY <1>1 DEF Step
<1> HIDE DEF q
<1>4. /\ request' \in [Request -> RequestState] /\ request'[r] = q
      /\ \A p \in Request : p # r => request'[p] = request[p]
  BY <1>1, <1>2, <1>3
<1>5. RequestAt(request[r])'
  BY <1>1, <1>2, <1>4 DEF RequestInv, RequestAt
<1>6. \A p \in Request : p # r => RequestAt(request[p])'
  BY <1>1, <1>4 DEF RequestInv, RequestAt
<1>7. \A p \in Request : RequestAt(request[p])'
  BY <1>5, <1>6
<1> QED BY <1>2, <1>4, <1>7 DEF RequestInv

\* A request is answered.
LEMMA FinishMoves ==
    ASSUME OwnershipInv, NEW r \in Request, Finish(r), migrated' = migrated
    PROVE  /\ request' \in [Request -> RequestState] /\ RequestInv'
           /\ request'[r].pc = "idle"
<1>1. request \in [Request -> RequestState] /\ RequestInv
  BY DEF OwnershipInv, TypeOK
<1>2. Idle \in RequestState /\ Idle.pc = "idle" /\ ~Idle.clean
  BY DEF Idle, RequestState, Steps
<1>3. /\ request' \in [Request -> RequestState] /\ request'[r] = Idle
      /\ \A p \in Request : p # r => request'[p] = request[p]
  BY <1>1, <1>2 DEF Finish
<1>4. \A p \in Request : RequestAt(request[p])'
  BY <1>1, <1>2, <1>3 DEF RequestInv, RequestAt, MemberSteps
<1> QED BY <1>2, <1>3, <1>4 DEF RequestInv

LEMMA TakenFacts ==
    ASSUME TypeOK, NEW i \in Identifier, NEW s \in Subject
    PROVE  /\ Taken(i, s) \in [Identifier -> Reservation]
           /\ Taken(i, s)[i] = Owned(i, s)
           /\ \A j \in Identifier : j # i => Taken(i, s)[j] = reservation[j]
           /\ Reserved(i, s) => Owned(i, s) = reservation[i]
           /\ Owned(i, s).status = "active" /\ Owned(i, s).subject = s
<1>1. reservation \in [Identifier -> Reservation]
  BY DEF TypeOK
<1>2. /\ Owned(i, s) \in Reservation
      /\ Owned(i, s).status = "active" /\ Owned(i, s).subject = s
      /\ Reserved(i, s) => Owned(i, s) = reservation[i]
  BY <1>1 DEF Reservation, Reserved, Owned
<1>3. Taken(i, s) = [reservation EXCEPT ![i] = Owned(i, s)]
  BY <1>1 DEF Taken, Owned
<1>4. /\ Taken(i, s) \in [Identifier -> Reservation] /\ Taken(i, s)[i] = Owned(i, s)
      /\ \A j \in Identifier : j # i => Taken(i, s)[j] = reservation[j]
  BY <1>1, <1>2, <1>3
<1> QED BY <1>2, <1>4

LEMMA ReleasedFacts ==
    ASSUME TypeOK, NEW i \in Identifier \cup {None}, NEW s \in Subject
    PROVE  /\ Released(i, s) \in [Identifier -> Reservation]
           /\ \A j \in Identifier :
                 \/ Released(i, s)[j] = reservation[j]
                 \/ /\ j = i /\ Reserved(j, s)
                    /\ Released(i, s)[j] = [reservation[j] EXCEPT !.status = "released"]
<1>1. reservation \in [Identifier -> Reservation]
  BY DEF TypeOK
<1>2. CASE i # None /\ Reserved(i, s)
  <2> DEFINE b == [reservation[i] EXCEPT !.status = "released"]
  <2>1. i \in Identifier
    BY <1>2
  <2>2. b \in Reservation
    BY <1>1, <2>1 DEF Reservation
  <2>3. Released(i, s) = [reservation EXCEPT ![i] = b]
    BY <1>1, <1>2, <2>1 DEF Released
  <2> HIDE DEF b
  <2>4. /\ Released(i, s) \in [Identifier -> Reservation] /\ Released(i, s)[i] = b
        /\ \A j \in Identifier : j # i => Released(i, s)[j] = reservation[j]
    BY <1>1, <2>1, <2>2, <2>3
  <2> QED BY <1>2, <2>1, <2>4 DEF b
<1>3. CASE ~(i # None /\ Reserved(i, s))
  BY <1>1, <1>3 DEF Released
<1> QED BY <1>2, <1>3

\* A step that has such an effect keeps the invariant.
LEMMA EffectKeepsInv ==
    ASSUME OwnershipInv, NEW r \in Request, Effect(r),
           request' \in [Request -> RequestState], RequestInv'
    PROVE  OwnershipInv'
<1>0. /\ TypeOK /\ RunInv /\ EventInv /\ StaffInv /\ StaffEmailInv /\ RequestInv
      /\ migrated
      /\ UNCHANGED <<migration, migrated, sessions, events, scripted, faults>>
      /\ migration.pc = "idle"
  BY DEF OwnershipInv, Effect, RunInv, deployment
<1>1. TypeOK'
  BY <1>0 DEF TypeOK, Effect
<1>2. RunInv' /\ BackfillInv' /\ GroupInv'
  BY <1>0 DEF RunInv, BackfillInv, GroupInv
<1>3. \A i \in Identifier : \/ reservation'[i] = reservation[i]
                            \/ Takes(r, i)
                            \/ Gives(r, i)
  BY DEF Effect
<1>4. \A i \in Identifier : reservation[i] \in Reservation
  BY <1>0 DEF TypeOK
<1>5. \A i \in Identifier : Takes(r, i) => /\ reservation'[i].status = "active"
                                           /\ reservation[i].status # "active"
                                           /\ reservation[i].status # "conflict"
  BY <1>4 DEF Takes, Owned, Reservation
<1>6. \A i \in Identifier : Gives(r, i) => /\ reservation'[i].status = "released"
                                           /\ reservation[i].status = "active"
                                           /\ reservation[i].subject = request[r].subject
  BY <1>4 DEF Gives, Reserved, Reservation
<1>7. EventInv'
  BY <1>0, <1>3, <1>5, <1>6 DEF EventInv
<1>8. StaffEmailInv'
  BY <1>0 DEF StaffEmailInv, Effect
<1>9. \A i : ~Ahead(i) /\ ~Ahead(i)'
  BY <1>0 DEF Ahead
<1>10. StaffInv'
  <2> SUFFICES ASSUME NEW s \in Staff, s \notin scripted \cup rerun',
                      account'[s].exists,
                      NEW e \in Identifier, e = account'[s].email
               PROVE  Holds(s, e)'
    BY <1>0, <1>8, <1>9 DEF StaffInv, StaffEmailInv, Regular
  <2>1. CASE account'[s] # account[s] \/ s \in rerun
    BY <2>1 DEF Effect, Holds
  <2>2. CASE account'[s] = account[s] /\ s \notin rerun
    <3>1. Holds(s, e)
      BY <1>0, <1>9, <2>2 DEF StaffInv, Regular
    <3>2. ~Takes(r, e)
      BY <1>5, <3>1 DEF Holds, Reserved
    <3>3. ~Gives(r, e)
      <4> SUFFICES ASSUME Gives(r, e) PROVE FALSE
        OBVIOUS
      <4>1. s = request[r].subject
        BY <1>6, <3>1 DEF Holds, Reserved
      <4> QED BY <4>1 DEF Effect
    <3> QED BY <1>3, <3>1, <3>2, <3>3 DEF Holds, Reserved
  <2> QED BY <2>1, <2>2
<1> QED BY <1>1, <1>2, <1>7, <1>8, <1>10 DEF OwnershipInv

\* A step that leaves the accounts and the reservations alone.
LEMMA StoreStaysInv ==
    ASSUME OwnershipInv, UNCHANGED <<store, deployment, scripted, rerun>>,
           request' \in [Request -> RequestState], RequestInv',
           faults' \in 0..MaxFaults
    PROVE  OwnershipInv'
<1>1. /\ TypeOK /\ RunInv /\ BackfillInv /\ GroupInv /\ EventInv /\ StaffInv
      /\ StaffEmailInv
      /\ UNCHANGED <<account, reservation, migration, migrated, sessions, events,
                     scripted, rerun>>
  BY DEF OwnershipInv, store, deployment
<1>2. TypeOK'
  BY <1>1 DEF TypeOK
<1>3. RunInv' /\ EventInv' /\ StaffEmailInv'
  BY <1>1 DEF RunInv, EventInv, StaffEmailInv
<1>4. BackfillInv' /\ GroupInv'
  BY <1>1 DEF BackfillInv, GroupInv, Claims, IdentifierId
<1>5. StaffInv'
  BY <1>1 DEF StaffInv, Ahead, Regular, Holds, Reserved
<1> QED BY <1>2, <1>3, <1>4, <1>5 DEF OwnershipInv

LEMMA StoredFacts ==
    ASSUME TypeOK, NEW q \in RequestState, q.subject \in Subject, q.next \in Identifier
    PROVE  /\ Stored(q) \in [Subject -> Account]
           /\ \A s \in Subject : s # q.subject => Stored(q)[s] = account[s]
           /\ q.field = "email" => Stored(q)[q.subject].email = q.next
<1>1. account \in [Subject -> Account]
  BY DEF TypeOK
<1> DEFINE n == [ exists |-> TRUE, email |-> q.next, login |-> None ]
           o == [account[q.subject] EXCEPT ![q.field] = q.next]
           a == IF q.creates THEN n ELSE o
<1>2. n \in Account /\ n.email = q.next
  BY DEF Account
<1>3. q.field \in {"email", "login"} /\ q.creates \in BOOLEAN
  BY DEF RequestState
<1>4. o \in Account /\ (q.field = "email" => o.email = q.next)
  BY <1>1, <1>3 DEF Account
<1>5. Stored(q) = [account EXCEPT ![q.subject] = a]
  BY <1>1 DEF Stored
<1> HIDE DEF n, o
<1>6. a \in Account /\ (q.field = "email" => a.email = q.next)
  BY <1>2, <1>4
<1> HIDE DEF a
<1> QED BY <1>1, <1>5, <1>6

\* A handler begins.
LEMMA BeginKeepsInv ==
    ASSUME OwnershipInv, NEW r \in Request, NEW s \in Subject,
           NEW field \in {"email", "login"}, NEW i \in Identifier,
           NEW creates \in BOOLEAN, NEW pc \in {"find", "transaction"},
           pc = "find" => s \in Member,
           pc = "transaction" => s \in Staff /\ field = "email",
           Begin(r, s, field, i, creates, pc)
    PROVE  OwnershipInv' /\ UNCHANGED store
<1> DEFINE q == [ pc |-> pc, subject |-> s, field |-> field,
                  previous |-> account[s][field], next |-> i, creates |-> creates,
                  clean |-> FALSE ]
<1>1. /\ request \in [Request -> RequestState] /\ RequestInv
      /\ account \in [Subject -> Account] /\ faults \in 0..MaxFaults
  BY DEF OwnershipInv, TypeOK
<1>2. /\ migrated /\ request' = [request EXCEPT ![r] = q]
      /\ UNCHANGED <<store, deployment, scripted, rerun, faults>>
  BY DEF Begin
<1>3. account[s][field] \in Identifier \cup {None}
  BY <1>1 DEF Account
<1>4. /\ q \in RequestState /\ q.pc = pc /\ q.subject = s /\ q.next = i
      /\ q.field = field /\ ~q.clean
  BY <1>3 DEF RequestState, Steps
<1> HIDE DEF q
<1>5. /\ request' \in [Request -> RequestState] /\ request'[r] = q
      /\ \A p \in Request : p # r => request'[p] = request[p]
  BY <1>1, <1>2, <1>4
<1>6. migrated' = migrated /\ faults' = faults
  BY <1>2 DEF deployment
<1>7. RequestAt(request[r])'
  BY <1>2, <1>4, <1>5, <1>6 DEF RequestAt, MemberSteps
<1>8. \A p \in Request : p # r => RequestAt(request[p])'
  BY <1>1, <1>5, <1>6 DEF RequestInv, RequestAt
<1>9. RequestInv'
  BY <1>7, <1>8 DEF RequestInv
<1> QED BY <1>1, <1>2, <1>5, <1>6, <1>9, StoreStaysInv

LEMMA BeginsKeepInv ==
    ASSUME OwnershipInv, NEW r \in Request,
           \/ \E m \in Member, i \in Identifier :
                 UpdateMember(r, m, i) \/ SetMemberCredentials(r, m, i)
           \/ \E s \in Staff, i \in Identifier :
                 CreateStaff(r, s, i) \/ UpdateStaff(r, s, i)
    PROVE  OwnershipInv' /\ UNCHANGED store
<1>1. ASSUME NEW m \in Member, NEW i \in Identifier,
             UpdateMember(r, m, i) \/ SetMemberCredentials(r, m, i)
      PROVE  OwnershipInv' /\ UNCHANGED store
  <2>1. PICK field \in {"email", "login"} : Begin(r, m, field, i, FALSE, "find")
    BY <1>1 DEF UpdateMember, SetMemberCredentials
  <2>2. m \in Subject
    BY DEF Subject
  <2> QED BY <2>1, <2>2, BeginKeepsInv
<1>2. ASSUME NEW s \in Staff, NEW i \in Identifier,
             CreateStaff(r, s, i) \/ UpdateStaff(r, s, i)
      PROVE  OwnershipInv' /\ UNCHANGED store
  <2>1. PICK creates \in BOOLEAN : Begin(r, s, "email", i, creates, "transaction")
    BY <1>2 DEF CreateStaff, UpdateStaff
  <2>2. s \in Subject
    BY DEF Subject
  <2> QED BY <2>1, <2>2, BeginKeepsInv
<1> QED BY <1>1, <1>2

\* The steps of a request that change no account and no reservation.
LEMMA QuietStepsKeepInv ==
    ASSUME OwnershipInv, NEW r \in Request,
           \/ FindReservation(r) \/ ValidatePolicy(r) \/ RevokeSessions(r)
           \/ AbortStaff(r) \/ FailRequest(r)
    PROVE  OwnershipInv' /\ UNCHANGED store
<1>1. /\ request \in [Request -> RequestState] /\ RequestInv
      /\ faults \in 0..MaxFaults
  BY DEF OwnershipInv, TypeOK
<1>2. /\ UNCHANGED <<store, deployment, scripted, rerun>>
      /\ migrated' = migrated
  BY Zenon DEF FindReservation, ValidatePolicy, RevokeSessions, AbortStaff, FailRequest,
     deployment
<1>3. CASE FindReservation(r) \/ ValidatePolicy(r) \/ RevokeSessions(r)
  <2>1. /\ request[r].pc \in {"find", "validate", "revoke"} /\ faults' = faults
        /\ \/ Finish(r)
           \/ request[r].pc = "find" /\ Step(r, "validate")
           \/ request[r].pc = "find" /\ Step(r, "insert")
           \/ request[r].pc = "find" /\ Step(r, "retake")
           \/ request[r].pc = "validate" /\ Step(r, "save")
    BY <1>3, Zenon DEF FindReservation, ValidatePolicy, RevokeSessions
  <2>2. request[r].pc \in {"find", "validate"} => request[r].subject \in Member
    BY <1>1 DEF RequestInv, RequestAt, MemberSteps
  <2>3. request' \in [Request -> RequestState] /\ RequestInv'
    <3>1. CASE Finish(r)
      BY <1>2, <2>1, <3>1, FinishMoves
    <3>2. ASSUME NEW pc \in {"validate", "insert", "retake", "save"}, Step(r, pc),
                 request[r].pc \in {"find", "validate"}
          PROVE  request' \in [Request -> RequestState] /\ RequestInv'
      <4>1. pc \in Steps /\ pc # "transaction"
        BY DEF Steps
      <4> QED BY <1>2, <2>1, <2>2, <3>2, <4>1, StepMoves
    <3> QED BY <2>1, <3>1, <3>2
  <2> QED BY <1>1, <1>2, <2>1, <2>3, StoreStaysInv
<1>4. CASE AbortStaff(r)
  <2> DEFINE q == [request[r] EXCEPT !.clean = TRUE]
  <2>1. request' = [request EXCEPT ![r] = q]
    BY <1>1, <1>4 DEF AbortStaff
  <2>2. faults' \in 0..MaxFaults
    BY <1>1, <1>4, BoundsAssumption DEF AbortStaff
  <2>3. /\ q \in RequestState /\ q.pc = request[r].pc
        /\ q.subject = request[r].subject /\ q.next = request[r].next
        /\ q.field = request[r].field
    BY <1>1 DEF RequestState
  <2> HIDE DEF q
  <2>4. /\ request' \in [Request -> RequestState] /\ request'[r] = q
        /\ \A p \in Request : p # r => request'[p] = request[p]
    BY <1>1, <2>1, <2>3
  <2>5. RequestAt(request[r])'
    BY <1>1, <1>2, <2>2, <2>3, <2>4 DEF RequestInv, RequestAt
  <2>6. \A p \in Request : p # r => RequestAt(request[p])'
    BY <1>1, <1>2, <2>2, <2>4 DEF RequestInv, RequestAt
  <2>7. RequestInv'
    BY <2>5, <2>6 DEF RequestInv
  <2> QED BY <1>2, <2>2, <2>4, <2>7, StoreStaysInv
<1>5. CASE FailRequest(r)
  <2>1. faults' \in 0..MaxFaults
    BY <1>1, <1>5, BoundsAssumption DEF FailRequest
  <2>2. /\ request[r].pc # "idle"
        /\ Finish(r) \/ (request[r].subject \in Member /\ Step(r, "undo"))
    BY <1>5, Zenon DEF FailRequest
  <2>3. CASE Finish(r)
    BY <1>2, <2>1, <2>3, FinishMoves, StoreStaysInv
  <2>4. CASE request[r].subject \in Member /\ Step(r, "undo")
    <3>1. "undo" \in Steps
      BY DEF Steps
    <3>2. request' \in [Request -> RequestState] /\ RequestInv'
      BY <1>2, <2>1, <2>2, <2>4, <3>1, StepMoves
    <3> QED BY <1>2, <2>1, <3>2, StoreStaysInv
  <2> QED BY <2>2, <2>3, <2>4
<1> QED BY <1>3, <1>4, <1>5

\* The steps of a member's change that write.
LEMMA MemberWritesKeepInv ==
    ASSUME OwnershipInv, NEW r \in Request,
           \/ InsertReservation(r) \/ RetakeReservation(r) \/ Save(r)
           \/ ReleasePrevious(r) \/ UndoReservation(r)
    PROVE  OwnershipInv' /\ Effect(r)
<1> DEFINE q == request[r]
           i == q.next
           s == q.subject
<1>1. /\ TypeOK /\ RequestInv
      /\ request \in [Request -> RequestState] /\ q \in RequestState
      /\ account \in [Subject -> Account]
      /\ reservation \in [Identifier -> Reservation]
  BY DEF OwnershipInv, TypeOK
<1>2. /\ q.pc \in {"insert", "retake", "save", "release", "undo"}
      /\ UNCHANGED <<deployment, scripted, rerun, faults>>
      /\ \/ Finish(r)
         \/ Step(r, "validate") /\ q.pc \in {"insert", "retake"}
         \/ Step(r, "release") /\ q.pc = "save"
         \/ Step(r, "undo") /\ q.pc = "save"
         \/ Step(r, "revoke") /\ q.pc = "release"
  BY Zenon DEF InsertReservation, RetakeReservation, Save, ReleasePrevious,
     UndoReservation
<1>3. /\ s \in Member /\ s \in Subject /\ i \in Identifier /\ migrated
      /\ s \notin Staff
  BY <1>1, <1>2, SubjectAssumption DEF RequestInv, RequestAt, MemberSteps, Subject
<1>4. migrated' = migrated /\ faults' = faults
  BY <1>2 DEF deployment
<1>5. request' \in [Request -> RequestState] /\ RequestInv' /\ request'[r] # request[r]
  <2>1. CASE Finish(r)
    BY <1>2, <1>4, <2>1, FinishMoves
  <2>2. ASSUME NEW pc \in {"validate", "release", "undo", "revoke"}, Step(r, pc),
               pc # q.pc
        PROVE  request' \in [Request -> RequestState] /\ RequestInv'
               /\ request'[r] # request[r]
    <3>1. pc \in Steps /\ pc # "transaction"
      BY DEF Steps
    <3> QED BY <1>2, <1>3, <1>4, <2>2, <3>1, StepMoves
  <2> QED BY <1>2, <2>1, <2>2
<1>6. ASSUME reservation' \in [Identifier -> Reservation],
             account' \in [Subject -> Account],
             \A j \in Identifier :
                reservation'[j] = reservation[j] \/ Takes(r, j) \/ Gives(r, j),
             \A t \in Staff : account'[t] = account[t]
      PROVE  OwnershipInv' /\ Effect(r)
  <2>1. rerun' = rerun /\ rerun \subseteq Staff
    BY <1>1, <1>2 DEF TypeOK
  <2>2. Effect(r)
    BY <1>2, <1>3, <1>6, <2>1 DEF Effect
  <2> QED BY <1>5, <2>2, EffectKeepsInv
\* The identifier is taken,
<1>7. ASSUME reservation[i].status \in {"absent", "released"},
             reservation' = Taken(i, s), UNCHANGED account
      PROVE  OwnershipInv' /\ Effect(r)
  <2>1. /\ reservation' \in [Identifier -> Reservation]
        /\ reservation'[i] = Owned(i, s)
        /\ \A j \in Identifier : j # i => reservation'[j] = reservation[j]
    BY <1>1, <1>3, <1>7, TakenFacts
  <2>2. Takes(r, i)
    BY <1>7, <2>1 DEF Takes
  <2> QED BY <1>1, <1>6, <1>7, <2>1, <2>2
\* one is given,
<1>8. ASSUME NEW k \in Identifier \cup {None}, reservation' = Released(k, s),
             UNCHANGED account
      PROVE  OwnershipInv' /\ Effect(r)
  <2>1. /\ reservation' \in [Identifier -> Reservation]
        /\ \A j \in Identifier :
              \/ reservation'[j] = reservation[j]
              \/ /\ Reserved(j, s)
                 /\ reservation'[j] = [reservation[j] EXCEPT !.status = "released"]
    BY <1>1, <1>3, <1>8, ReleasedFacts
  <2>2. \A j \in Identifier : reservation'[j] = reservation[j] \/ Gives(r, j)
    BY <1>5, <2>1 DEF Gives
  <2> QED BY <1>1, <1>6, <1>8, <2>1, <2>2
\* or none is changed.
<1>9. ASSUME UNCHANGED reservation, account' \in [Subject -> Account],
             \A t \in Staff : account'[t] = account[t]
      PROVE  OwnershipInv' /\ Effect(r)
  BY <1>1, <1>6, <1>9
<1>10. CASE InsertReservation(r)
  <2>1. /\ UNCHANGED account
        /\ \/ /\ reservation[i].status = "absent"
              /\ reservation' = Taken(i, s)
           \/ UNCHANGED reservation
    BY <1>10, Zenon DEF InsertReservation
  <2> QED BY <1>1, <1>7, <1>9, <2>1
<1>11. CASE RetakeReservation(r)
  <2>1. /\ UNCHANGED account
        /\ reservation' = IF reservation[i].status = "released"
                          THEN Taken(i, s) ELSE reservation
    BY <1>11 DEF RetakeReservation
  <2> QED BY <1>1, <1>7, <1>9, <2>1
<1>12. CASE Save(r)
  <2>1. UNCHANGED reservation /\ (account' = Stored(q) \/ account' = account)
    BY <1>12, Zenon DEF Save
  <2>2. Stored(q) \in [Subject -> Account] /\ \A t \in Staff : Stored(q)[t] = account[t]
    BY <1>1, <1>3, StoredFacts DEF Subject
  <2> QED BY <1>1, <1>9, <2>1, <2>2
<1>13. CASE ReleasePrevious(r)
  <2>1. /\ UNCHANGED account
        /\ reservation' = IF q.previous = q.next THEN reservation
                          ELSE Released(q.previous, s)
    BY <1>13, Zenon DEF ReleasePrevious
  <2>2. q.previous \in Identifier \cup {None}
    BY <1>1 DEF RequestState
  <2> QED BY <1>1, <1>8, <1>9, <2>1, <2>2
<1>14. CASE UndoReservation(r)
  <2>1. UNCHANGED account /\ reservation' = Released(i, s)
    BY <1>14, Zenon DEF UndoReservation
  <2> QED BY <1>3, <1>8, <2>1
<1> QED BY <1>10, <1>11, <1>12, <1>13, <1>14

\* The transaction of a staff change.
LEMMA CommitStaffKeepsInv ==
    ASSUME OwnershipInv, NEW r \in Request, CommitStaff(r)
    PROVE  OwnershipInv' /\ (Effect(r) \/ UNCHANGED store)
<1> DEFINE q == request[r]
           i == q.next
           s == q.subject
           p == q.previous
           free == reservation[i].status \in {"absent", "released"}
           stored == IF q.clean THEN account ELSE Stored(q)
           written == [j \in Identifier |->
                         CASE j = i -> Taken(j, s)[j]
                           [] j = p /\ j # i -> Released(j, s)[j]
                           [] OTHER -> reservation[j]]
<1>1. /\ TypeOK /\ RequestInv
      /\ request \in [Request -> RequestState] /\ q \in RequestState
      /\ account \in [Subject -> Account]
      /\ reservation \in [Identifier -> Reservation]
  BY DEF OwnershipInv, TypeOK
<1>2. q.pc = "transaction" /\ UNCHANGED <<deployment, scripted, faults>>
  BY Zenon DEF CommitStaff
<1>3. /\ s \in Staff /\ s \in Subject /\ i \in Identifier /\ migrated
      /\ q.field = "email" /\ p \in Identifier \cup {None}
  BY <1>1, <1>2 DEF RequestInv, RequestAt, Subject, RequestState
<1>4. migrated' = migrated /\ faults' = faults
  BY <1>2 DEF deployment
<1>5. \/ /\ free \/ Reserved(i, s)
         /\ reservation' = written /\ account' = stored
         /\ rerun' = IF q.clean THEN rerun \cup {s} ELSE rerun \ {s}
         /\ Finish(r) \/ Step(r, "revoke")
      \/ Finish(r) /\ UNCHANGED <<store, rerun>>
  BY DEF CommitStaff
<1>6. request' \in [Request -> RequestState] /\ RequestInv' /\ request'[r] # request[r]
  <2>1. CASE Finish(r)
    BY <1>2, <1>4, <2>1, FinishMoves
  <2>2. CASE Step(r, "revoke")
    BY <1>2, <1>4, <2>2, StepMoves DEF Steps, MemberSteps
  <2> QED BY <1>5, <2>1, <2>2
<1>7. ASSUME free \/ Reserved(i, s), reservation' = written, account' = stored,
             rerun' = IF q.clean THEN rerun \cup {s} ELSE rerun \ {s}
      PROVE  OwnershipInv' /\ Effect(r)
  <2>1. /\ stored \in [Subject -> Account]
        /\ \A t \in Subject : t # s => stored[t] = account[t]
        /\ ~q.clean => stored[s].email = i
        /\ q.clean => stored = account
    BY <1>1, <1>3, StoredFacts
  <2>2. ASSUME NEW j \in Identifier
        PROVE  /\ reservation'[j] \in Reservation
               /\ reservation'[j] = reservation[j] \/ Takes(r, j) \/ Gives(r, j)
               /\ j = i => reservation'[j].status = "active" /\ reservation'[j].subject = s
               /\ j = i => ~Gives(r, j)
    <3>1. CASE j = i
      <4>1. /\ Taken(j, s) \in [Identifier -> Reservation]
            /\ Taken(j, s)[j] = Owned(j, s)
            /\ Reserved(j, s) => Owned(j, s) = reservation[j]
            /\ Owned(j, s).status = "active" /\ Owned(j, s).subject = s
        BY <1>1, <1>3, TakenFacts
      <4>2. reservation'[j] = Taken(j, s)[j]
        BY <1>7, <3>1
      <4>3. reservation'[j] = reservation[j] \/ Takes(r, j)
        BY <1>7, <3>1, <4>1, <4>2 DEF Takes
      <4>4. ~Gives(r, j)
        BY <1>1, <4>1, <4>2 DEF Gives, Reservation
      <4> QED BY <4>1, <4>2, <4>3, <4>4
    <3>2. CASE j = p /\ j # i
      <4>1. /\ Released(j, s) \in [Identifier -> Reservation]
            /\ \/ Released(j, s)[j] = reservation[j]
               \/ /\ Reserved(j, s)
                  /\ Released(j, s)[j] = [reservation[j] EXCEPT !.status = "released"]
        BY <1>1, <1>3, ReleasedFacts
      <4>2. reservation'[j] = Released(j, s)[j]
        BY <1>7, <3>2
      <4> QED BY <1>6, <3>2, <4>1, <4>2 DEF Gives
    <3>3. CASE j # i /\ j # p
      BY <1>1, <1>7, <3>3
    <3> QED BY <3>1, <3>2, <3>3
  <2>3. reservation' \in [Identifier -> Reservation]
    BY <1>7, <2>2
  <2>4. ASSUME NEW t \in Staff, account'[t] # account[t] \/ t \in rerun \ rerun'
        PROVE  \E j \in Identifier : account'[t].email = j /\ Reserved(j, t)'
    <3>1. t = s /\ ~q.clean
      BY <1>7, <2>1, <2>4 DEF Subject
    <3>2. PICK j \in Identifier : j = i
      BY <1>3
    <3>3. account'[t].email = j /\ Reserved(j, t)'
      BY <1>7, <2>1, <2>2, <3>1, <3>2 DEF Reserved
    <3> QED BY <3>3
  <2>5. ASSUME NEW t \in Staff, NEW j \in Identifier, t = s, Gives(r, j)
        PROVE  account'[t].email # j \/ t \in rerun'
    BY <1>7, <2>1, <2>2, <2>5
  <2>6. rerun' \subseteq Staff
    BY <1>1, <1>3, <1>7 DEF TypeOK
  <2>7. Effect(r)
    BY <1>2, <1>3, <1>7, <2>1, <2>2, <2>3, <2>4, <2>5, <2>6 DEF Effect
  <2> QED BY <1>6, <2>7, EffectKeepsInv
<1>8. ASSUME UNCHANGED <<store, rerun>>
      PROVE  OwnershipInv'
  <2>1. faults' \in 0..MaxFaults
    BY <1>1, <1>4 DEF TypeOK
  <2> QED BY <1>2, <1>6, <1>8, <2>1, StoreStaysInv
<1> QED
  <2> HIDE DEF written, stored, free
  <2> QED BY <1>5, <1>7, <1>8

\* A handler keeps the invariant, and changes the accounts and the reservations in
\* no other way.
LEMMA HandlerKeepsInv ==
    ASSUME OwnershipInv, NEW r \in Request, Handler(r)
    PROVE  OwnershipInv' /\ (Effect(r) \/ UNCHANGED store)
<1>1. CASE \/ \E m \in Member, i \in Identifier :
                 UpdateMember(r, m, i) \/ SetMemberCredentials(r, m, i)
           \/ \E s \in Staff, i \in Identifier :
                 CreateStaff(r, s, i) \/ UpdateStaff(r, s, i)
  BY <1>1, BeginsKeepInv
<1>2. CASE \/ FindReservation(r) \/ ValidatePolicy(r) \/ RevokeSessions(r)
           \/ AbortStaff(r) \/ FailRequest(r)
  BY <1>2, QuietStepsKeepInv
<1>3. CASE \/ InsertReservation(r) \/ RetakeReservation(r) \/ Save(r)
           \/ ReleasePrevious(r) \/ UndoReservation(r)
  BY <1>3, MemberWritesKeepInv
<1>4. CASE CommitStaff(r)
  BY <1>4, CommitStaffKeepsInv
<1> QED BY <1>1, <1>2, <1>3, <1>4, Zenon DEF Handler

-----------------------------------------------------------------------------
(* Accounts made without a reservation *)

\* The script: the account is excepted from StaffReserved.
LEMMA BootstrapKeepsInv ==
    ASSUME OwnershipInv, NEW s \in Staff, NEW i \in Identifier, BootstrapAdmin(s, i)
    PROVE  OwnershipInv' /\ UNCHANGED reservation
<1> DEFINE a == [account[s] EXCEPT !.exists = TRUE, !.email = i]
<1>1. /\ TypeOK /\ RequestInv /\ RunInv /\ BackfillInv /\ GroupInv /\ EventInv
      /\ StaffInv /\ StaffEmailInv
      /\ account \in [Subject -> Account] /\ s \in Subject
      /\ scripted \subseteq Staff
  BY DEF OwnershipInv, TypeOK, Subject
<1>2. /\ ~account[s].exists /\ account' = [account EXCEPT ![s] = a]
      /\ scripted' = scripted \cup {s}
      /\ UNCHANGED <<reservation, request, migration, migrated, sessions, events,
                     rerun, faults>>
  BY <1>1 DEF BootstrapAdmin, deployment
<1>3. a \in Account /\ a.exists /\ a.email = i
  BY <1>1 DEF Account
<1> HIDE DEF a
<1>4. /\ account' \in [Subject -> Account] /\ account'[s] = a
      /\ \A t \in Subject : t # s => account'[t] = account[t]
  BY <1>1, <1>2, <1>3
<1>5. TypeOK'
  BY <1>1, <1>2, <1>4 DEF TypeOK
<1>6. \A t \in Subject, j \in Identifier : Claims(t, j) => Claims(t, j)'
  BY <1>2, <1>4 DEF Claims
<1>7. RequestInv' /\ RunInv' /\ EventInv'
  BY <1>1, <1>2 DEF RequestInv, RequestAt, RunInv, EventInv
<1>8. BackfillInv'
  BY <1>1, <1>2, <1>6 DEF BackfillInv
<1>9. GroupInv'
  <2>1. \A j \in Identifier : migration.groups[j] \subseteq Subject
    BY <1>1 DEF TypeOK, Migration
  <2> QED BY <1>1, <1>2, <1>6, <2>1 DEF GroupInv, IdentifierId
<1>10. StaffEmailInv'
  BY <1>1, <1>3, <1>4 DEF StaffEmailInv, Subject
<1>11. StaffInv'
  <2>1. \A t \in Regular' : account'[t] = account[t] /\ t \in Regular
    BY <1>2, <1>4 DEF Subject, Regular
  <2>2. \A j : Ahead(j)' <=> Ahead(j)
    BY <1>2 DEF Ahead
  <2> QED BY <1>1, <1>2, <2>1, <2>2
       DEF StaffInv, StaffEmailInv, Regular, Holds, Reserved
<1> QED BY <1>2, <1>5, <1>7, <1>8, <1>9, <1>10, <1>11 DEF OwnershipInv

\* A new member.
LEMMA CreateMemberKeepsInv ==
    ASSUME OwnershipInv, NEW m \in Member, NEW i \in Identifier \cup {None},
           CreateMember(m, i)
    PROVE  OwnershipInv' /\ UNCHANGED reservation
<1> DEFINE a == [ exists |-> TRUE, email |-> i, login |-> None ]
<1>1. /\ TypeOK /\ RequestInv /\ RunInv /\ BackfillInv /\ GroupInv /\ EventInv
      /\ StaffInv /\ StaffEmailInv
      /\ account \in [Subject -> Account]
  BY DEF OwnershipInv, TypeOK
<1>2. /\ migrated /\ account' = [account EXCEPT ![m] = a]
      /\ UNCHANGED <<reservation, request, migration, migrated, sessions, events,
                     scripted, rerun, faults>>
  BY DEF CreateMember, deployment
<1>3. a \in Account
  BY DEF Account
<1> HIDE DEF a
<1>4. account' \in [Subject -> Account] /\ \A s \in Staff : account'[s] = account[s]
  BY <1>1, <1>2, <1>3, SubjectAssumption DEF Subject
<1>5. TypeOK'
  BY <1>1, <1>2, <1>4 DEF TypeOK
<1>6. RequestInv' /\ RunInv' /\ EventInv'
  BY <1>1, <1>2 DEF RequestInv, RequestAt, RunInv, EventInv
<1>7. BackfillInv' /\ GroupInv'
  BY <1>1, <1>2 DEF BackfillInv, GroupInv, RunInv
<1>8. StaffEmailInv'
  BY <1>1, <1>4 DEF StaffEmailInv
<1>9. StaffInv'
  <2>1. \A j : Ahead(j)' <=> Ahead(j)
    BY <1>2 DEF Ahead
  <2> QED BY <1>1, <1>2, <1>4, <2>1
       DEF StaffInv, StaffEmailInv, Regular, Holds, Reserved
<1> QED BY <1>2, <1>5, <1>6, <1>7, <1>8, <1>9 DEF OwnershipInv

-----------------------------------------------------------------------------
(* The theorems *)

LEMMA NextKeepsInv ==
    ASSUME OwnershipInv, [Next]_vars
    PROVE  OwnershipInv'
<1>1. CASE MigrationStep
  BY <1>1, MigrationKeepsInv
<1>2. CASE \E s \in Staff, i \in Identifier : BootstrapAdmin(s, i)
  BY <1>2, BootstrapKeepsInv
<1>3. CASE \E m \in Member, i \in Identifier \cup {None} : CreateMember(m, i)
  BY <1>3, CreateMemberKeepsInv
<1>4. CASE \E r \in Request : Handler(r)
  BY <1>4, HandlerKeepsInv
<1>5. CASE UNCHANGED vars
  <2>1. UNCHANGED <<account, reservation, request, migration, migrated, sessions, events,
                    scripted, rerun, faults>>
    BY <1>5 DEF vars, store, deployment
  <2> QED BY <2>1 DEF OwnershipInv, TypeOK, RequestInv, RequestAt, RunInv, BackfillInv,
                      GroupInv, EventInv, StaffEmailInv, StaffInv, Regular,
                      Ahead, Claims,
                      IdentifierId, Holds, Reserved
<1> QED BY <1>1, <1>2, <1>3, <1>4, <1>5, Zenon DEF Next

LEMMA OwnershipInvariant == Spec => []OwnershipInv
<1>1. Init => OwnershipInv
  BY InitOwnershipInv
<1>2. OwnershipInv /\ [Next]_vars => OwnershipInv'
  BY NextKeepsInv
<1> QED BY <1>1, <1>2, PTL DEF Spec

\* The documents have the shape the schemas say, whatever is interrupted.
THEOREM TypeCorrect == Spec => []TypeOK
<1>1. OwnershipInv => TypeOK
  BY DEF OwnershipInv
<1> QED BY <1>1, OwnershipInvariant, PTL

\* Migration 003, as migrate.ts runs it again after every failure: once it is
\* recorded no session of the old version is left and every conflict has its event.
THEOREM MigrationEndsComplete == Spec => []MigrationComplete
<1>1. OwnershipInv => MigrationComplete
  BY DEF OwnershipInv, RunInv, EventInv, MigrationComplete
<1> QED BY <1>1, OwnershipInvariant, PTL

\* createWithIdentifier, persistIdentifierChange and the backfill: a staff account
\* never has an email that is free for others, for every number of accounts, of
\* requests at once, of runs of the migration and of calls that fail; only the
\* script and a closure that ran again leave one so.
THEOREM StaffHoldTheirs == Spec => []StaffReserved
<1>1. OwnershipInv => StaffReserved
  BY DEF OwnershipInv, RunInv, Ahead, StaffInv, Regular, StaffReserved
<1> QED BY <1>1, OwnershipInvariant, PTL

\* reserveIdentifier and releaseIdentifier: an active identifier passes to nobody
\* before its owner gives it up.
THEOREM IdentifiersNeverStolen == Spec => NeverStolen
<1> DEFINE Kept ==
      \A i \in Identifier :
          reservation[i].status = "active" /\ reservation'[i] # reservation[i] =>
              /\ reservation'[i] = [reservation[i] EXCEPT !.status = "released"]
              /\ \E r \in Request : /\ request[r].subject = reservation[i].subject
                                    /\ request'[r] # request[r]
<1>1. ASSUME OwnershipInv, [Next]_vars PROVE [Kept]_vars
  <2>1. CASE MigrationStep
    <3> SUFFICES ASSUME NEW i \in Identifier, reservation[i].status = "active"
                 PROVE  reservation'[i] = reservation[i]
      OBVIOUS
    <3>1. reservation[i] # Unreserved
      BY UnreservedType
    <3>2. UNCHANGED reservation
             \/ (UpsertReservation /\ \E k : reservation' =
                                        [reservation EXCEPT ![k] = Backfilled(k)])
      BY <2>1, Zenon DEF MigrationStep, StartMigration, RevokeLegacySessions,
         ReadAccounts, UpsertReservation, AuditConflict, RecordMigration,
         AbortMigration, store
    <3>3. Backfilled(i) = reservation[i]
      BY <3>1 DEF Backfilled
    <3>4. reservation \in [Identifier -> Reservation]
      BY <1>1 DEF OwnershipInv, TypeOK
    <3> QED BY <3>2, <3>3, <3>4
  <2>2. CASE \/ \E s \in Staff, i \in Identifier : BootstrapAdmin(s, i)
             \/ \E m \in Member, i \in Identifier \cup {None} : CreateMember(m, i)
    BY <1>1, <2>2, BootstrapKeepsInv, CreateMemberKeepsInv
  <2>3. CASE \E r \in Request : Handler(r)
    <3>1. PICK r \in Request : Effect(r) \/ UNCHANGED store
      BY <1>1, <2>3, HandlerKeepsInv
    <3>2. CASE Effect(r)
      <4>1. \A i \in Identifier :
               reservation'[i] = reservation[i] \/ Takes(r, i) \/ Gives(r, i)
        BY <3>2 DEF Effect
      <4>2. \A i \in Identifier : reservation[i].status = "active" => ~Takes(r, i)
        BY DEF Takes
      <4>3. \A i \in Identifier : Gives(r, i) =>
               /\ reservation'[i] = [reservation[i] EXCEPT !.status = "released"]
               /\ request[r].subject = reservation[i].subject
               /\ request'[r] # request[r]
        BY DEF Gives, Reserved
      <4> QED BY <4>1, <4>2, <4>3
    <3>3. CASE UNCHANGED store
      BY <3>3 DEF store
    <3> QED BY <3>1, <3>2, <3>3
  <2> QED BY <1>1, <2>1, <2>2, <2>3 DEF Next
<1>2. OwnershipInv /\ [Next]_vars => [Kept]_vars
  BY <1>1
<1> HIDE DEF Kept
<1>3. Spec => [][Kept]_vars
  BY <1>2, OwnershipInvariant, PTL DEF Spec
<1> QED BY <1>3 DEF NeverStolen, Kept
============================================================================
