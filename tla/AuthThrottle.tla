---------------------------- MODULE AuthThrottle ----------------------------
(***************************************************************************)
(* The counters behind sign-in and refresh (src/src/auth/                  *)
(* auth-throttle.service.ts), the guard that consumes them before the      *)
(* handlers run (auth-endpoint-throttle.guard.ts) and the failure path of  *)
(* the sign-in handlers, which consumes one more (auth.controller.ts).     *)
(*                                                                         *)
(* A bucket counts one key (a dimension and a value) in one window and is  *)
(* stored under the version of the HMAC secret its name was derived with.  *)
(* Every attempt captures the time once, asks which secret versions the    *)
(* unexpired buckets need, and then counts each of its keys in one to four *)
(* database operations, the keys side by side.  Every await is a step      *)
(* boundary; an operation on one document is atomic.                       *)
(***************************************************************************)
EXTENDS Integers

CONSTANTS
    Instance,           \* application processes that share the database
    Request,            \* HTTP requests
    Route,              \* the guarded routes of auth.controller.ts in use
    Source, Identifier, Family,     \* what the keys are made of
    None,               \* an unset reference
    Version,            \* versions of the audit-correlation secret
    Keyring,            \* the configurations an instance may be started with
    Limit, Window,      \* per dimension: ThrottlePolicy
    MaxTime, MaxRestarts, MaxFaults     \* bounds

Dimension == { "sign-in-source", "sign-in-identifier-failure",
               "refresh-source", "refresh-family" }

Key == ({"sign-in-source", "refresh-source"} \X Source)
       \cup ({"sign-in-identifier-failure"} \X Identifier)
       \cup ({"refresh-family"} \X Family)

ASSUME PolicyAssumption ==
    /\ Limit \in [Dimension -> Nat \ {0}]
    /\ Window \in [Dimension -> Nat \ {0}]

\* loadKeyring: a current version and the previous ones.  Version 0
\* stands for a configuration loadKeyring refuses.
ASSUME KeyringAssumption ==
    /\ Version \subseteq Nat \ {0}
    /\ Keyring \subseteq [ current : Version \cup {0},
                           previous : SUBSET Version ]

ASSUME BoundsAssumption ==
    /\ MaxTime \in Nat /\ MaxRestarts \in Nat /\ MaxFaults \in Nat

ASSUME RouteAssumption ==
    Route \subseteq {"login", "member-login", "staff-login", "refresh"}

VARIABLES
    now,
    bucket,         \* auth_throttle_buckets, by key and version
    keyring,        \* configuration of the running instances
    request,        \* what a request has decided and holds
    step,           \* consumeDimension, by request and key
    restarts, faults,
    grants,         \* history: attempts allowed in a bucket's window
    opened          \* history: who opened that window, and beside whom

vars ==
    <<now, bucket, keyring, request, step, restarts, faults, grants, opened>>

\* A stored bucket has counted at least once, so count 0 is its absence.
\* windowStartedAt is expiresAt less the window.
NoBucket == [ count |-> 0, expiresAt |-> 0 ]

Exists(b) == b.count > 0

\* { expiresAt: { $gt: at } }
LiveAt(b, at) == b.expiresAt > at

Versions(ring) == {ring.current} \cup ring.previous

\* What a sign-in carries: an identifier and a password, no password, or
\* nothing that normalizes to an identifier.
Body == {"complete", "no-password", "malformed"}

Idle == [ pc |-> "idle", phase |-> "guard", instance |-> None,
          route |-> None, body |-> None, identifier |-> None,
          at |-> 0, answer |-> "none" ]

RequestRec ==
    [ pc : {"idle", "check", "count", "handler", "done"},
      phase : {"guard", "failure"}, instance : Instance \cup {None},
      route : Route \cup {None}, body : Body \cup {None},
      identifier : Identifier \cup {None}, at : Nat,
      answer : {"none", "ok", "400", "401", "429", "lost"} ]

\* The operations of consumeDimension still to come, or how it ended.
Pending == {"lookup", "upsert", "insert", "recount"}
Settled == {"allowed", "denied", "failed"}
Step == {"unused", "queued"} \cup Pending \cup Settled

\* A request is counted by its guard, and after a failed sign-in once more.
\* An attempt is under way from the check of the secrets to its last count.
Attempts == Request \X {"guard", "failure"}
Attempt(r) == <<r, request[r].phase>>
Counting(r) == \E k \in Key : step[r][k] \in Pending
UnderWay == {Attempt(r) : r \in {q \in Request : Counting(q)}}

Unopened == [ by |-> <<>>, beside |-> {} ]

NoSteps == [k \in Key |-> "unused"]

Init ==
    /\ now = 0
    /\ bucket = [k \in Key |-> [v \in Version |-> NoBucket]]
    /\ keyring \in [Instance -> Keyring]
    /\ request = [r \in Request |-> Idle]
    /\ step = [r \in Request |-> NoSteps]
    /\ restarts = 0
    /\ faults = 0
    /\ grants = [k \in Key |-> [v \in Version |-> 0]]
    /\ opened = [k \in Key |-> [v \in Version |-> Unopened]]

-----------------------------------------------------------------------------
(* The guard: which keys an attempt is counted against.                    *)

routeCategory(route) ==
    IF route = "staff-login" THEN "other" ELSE route

\* consumeSignInAttempt, as canActivate calls it.
SignInKeys(source, identifier, body) ==
    {<<"sign-in-source", source>>}
    \cup IF identifier # None /\ body = "no-password"
         THEN {<<"sign-in-identifier-failure", identifier>>} ELSE {}

\* consumeSignInIdentifierFailure
FailureKeys(identifier) == {<<"sign-in-identifier-failure", identifier>>}

\* consumeRefreshAttempt
RefreshKeys(source, family) ==
    {<<"refresh-source", source>>}
    \cup IF family # None THEN {<<"refresh-family", family>>} ELSE {}

\* consumeMany: the keys wait for the check of the secret versions.
Queue(keys) == [k \in Key |-> IF k \in keys THEN "queued" ELSE "unused"]

\* canActivate on a sign-in route.  A route of category "other" is passed on
\* without a throttle context, so its handler knows no identifier.
ArriveSignIn(r, i, route, s, id, body) ==
    /\ request[r].pc = "idle"
    /\ route \in Route \ {"refresh"}
    /\ (id = None) <=> (body = "malformed")
    /\ LET arrived == [ Idle EXCEPT !.instance = i, !.route = route,
                                    !.body = body ]
       IN  IF routeCategory(route) = "other"
           THEN /\ request' = [request EXCEPT ![r] =
                                 [arrived EXCEPT !.pc = "handler"]]
                /\ step' = [step EXCEPT ![r] = NoSteps]
           ELSE /\ request' = [request EXCEPT ![r] =
                                 [arrived EXCEPT !.pc = "check", !.at = now,
                                                 !.identifier = id]]
                /\ step' = [step EXCEPT ![r] = Queue(SignInKeys(s, id, body))]
    /\ UNCHANGED <<now, bucket, keyring, restarts, faults, grants, opened>>

\* canActivate on the refresh route; resolveFamilyId finds a family or none.
ArriveRefresh(r, i, s, f) ==
    /\ request[r].pc = "idle"
    /\ "refresh" \in Route
    /\ request' = [request EXCEPT ![r] =
                     [ Idle EXCEPT !.pc = "check", !.instance = i,
                                   !.route = "refresh", !.at = now ]]
    /\ step' = [step EXCEPT ![r] = Queue(RefreshKeys(s, f))]
    /\ UNCHANGED <<now, bucket, keyring, restarts, faults, grants, opened>>

-----------------------------------------------------------------------------
(* consumeMany and consumeDimension.                                       *)

\* The answer of assertAuthThrottleAllowed to a refused decision.
Refuse(r) ==
    request' = [request EXCEPT ![r].pc = "done", ![r].answer = "429"]

\* getRequiredKeyVersions(at).throttleVersions
RequiredVersions(at) ==
    {v \in Version : \E k \in Key : LiveAt(bucket[k][v], at)}

\* Mutant: a configured secret is enough.
HasSomeKey(ring, at) == Versions(ring) # {}

hasEveryReferencedKey(ring, at) ==
    RequiredVersions(at) \subseteq Versions(ring)

\* The first half of consumeMany; all keys start together afterwards.
CheckKeys(r) ==
    /\ request[r].pc = "check"
    /\ LET ring == keyring[request[r].instance] IN
       IF ring.current # 0 /\ hasEveryReferencedKey(ring, request[r].at)
       THEN /\ request' = [request EXCEPT ![r].pc = "count"]
            /\ step' = [step EXCEPT ![r] =
                          [k \in Key |-> IF @[k] = "queued" THEN "lookup"
                                         ELSE @[k]]]
       ELSE /\ Refuse(r)
            /\ step' = [step EXCEPT ![r] = NoSteps]
    /\ UNCHANGED <<now, bucket, keyring, restarts, faults, grants, opened>>

\* Mutant: the count before this attempt is compared.
DecideOnEarlierCount(k, b) ==
    IF b.count - 1 <= Limit[k[1]] THEN "allowed" ELSE "denied"

toDecision(k, b) ==
    IF b.count <= Limit[k[1]] THEN "allowed" ELSE "denied"

\* One attempt has been counted: b is the bucket the update returned.
Counted(r, k, v, b) ==
    /\ bucket' = [bucket EXCEPT ![k][v] = b]
    /\ step' = [step EXCEPT ![r][k] = toDecision(k, b)]
    /\ grants' = [grants EXCEPT ![k][v] =
                    (IF b.expiresAt = bucket[k][v].expiresAt THEN @ ELSE 0)
                    + (IF toDecision(k, b) = "allowed" THEN 1 ELSE 0)]
    /\ opened' = [opened EXCEPT ![k][v] =
                    IF b.expiresAt = bucket[k][v].expiresAt THEN @
                    ELSE [ by |-> Attempt(r), beside |-> UnderWay ]]

Increment(b) == [b EXCEPT !.count = @ + 1]

NewWindow(k, at) == [ count |-> 1, expiresAt |-> at + Window[k[1]] ]

Ring(r) == keyring[request[r].instance]

\* Mutant: a rotated secret starts afresh.
CurrentCandidate(r, k) ==
    {v \in {Ring(r).current} \cap Version :
        LiveAt(bucket[k][v], request[r].at)}

\* The versions of the instance under which the key has an unexpired bucket.
Candidates(r, k) ==
    {v \in Versions(Ring(r)) \cap Version :
        LiveAt(bucket[k][v], request[r].at)}

\* The first findOneAndUpdate: the newest version with an unexpired bucket.
LookupFound(r, k) ==
    /\ step[r][k] = "lookup"
    /\ \E v \in Candidates(r, k) :
          /\ \A w \in Candidates(r, k) : w <= v
          /\ Counted(r, k, v, Increment(bucket[k][v]))
    /\ UNCHANGED <<now, keyring, request, restarts, faults>>

LookupNone(r, k) ==
    /\ step[r][k] = "lookup"
    /\ Candidates(r, k) = {}
    /\ step' = [step EXCEPT ![r][k] = "upsert"]
    /\ UNCHANGED <<now, bucket, keyring, request, restarts, faults,
                   grants, opened>>

\* Mutant: the upsert does not look whether the window still runs.
UpsertAlwaysResets(r, k) ==
    /\ step[r][k] = "upsert"
    /\ Exists(bucket[k][Ring(r).current])
    /\ Counted(r, k, Ring(r).current, NewWindow(k, request[r].at))
    /\ UNCHANGED <<now, keyring, request, restarts, faults>>

\* The pipeline of the upsert on a stored bucket: the next count of a window
\* that runs at the captured time, or the first of a new one.
UpsertFound(r, k) ==
    /\ step[r][k] = "upsert"
    /\ LET v == Ring(r).current
           b == bucket[k][v]
       IN  /\ Exists(b)
           /\ Counted(r, k, v, IF LiveAt(b, request[r].at)
                               THEN Increment(b)
                               ELSE NewWindow(k, request[r].at))
    /\ UNCHANGED <<now, keyring, request, restarts, faults>>

\* The upsert matches nothing and turns into an insert ...
UpsertNone(r, k) ==
    /\ step[r][k] = "upsert"
    /\ ~Exists(bucket[k][Ring(r).current])
    /\ step' = [step EXCEPT ![r][k] = "insert"]
    /\ UNCHANGED <<now, bucket, keyring, request, restarts, faults,
                   grants, opened>>

\* ... which stores the bucket ...
Insert(r, k) ==
    /\ step[r][k] = "insert"
    /\ ~Exists(bucket[k][Ring(r).current])
    /\ Counted(r, k, Ring(r).current, NewWindow(k, request[r].at))
    /\ UNCHANGED <<now, keyring, request, restarts, faults>>

\* ... or meets the unique index, because another attempt was faster.
InsertDuplicate(r, k) ==
    /\ step[r][k] = "insert"
    /\ Exists(bucket[k][Ring(r).current])
    /\ step' = [step EXCEPT ![r][k] = "recount"]
    /\ UNCHANGED <<now, bucket, keyring, request, restarts, faults,
                   grants, opened>>

\* The update after a duplicate key error; without a match the attempt is
\* denied.
Recount(r, k) ==
    /\ step[r][k] = "recount"
    /\ LET v == Ring(r).current
           b == bucket[k][v]
       IN  IF LiveAt(b, request[r].at)
           THEN Counted(r, k, v, Increment(b))
           ELSE /\ step' = [step EXCEPT ![r][k] = "denied"]
                /\ UNCHANGED <<bucket, grants, opened>>
    /\ UNCHANGED <<now, keyring, request, restarts, faults>>

\* A database operation of consumeDimension throws.
OperationFails(r, k) ==
    /\ faults < MaxFaults
    /\ step[r][k] \in Pending
    /\ step' = [step EXCEPT ![r][k] = "failed"]
    /\ faults' = faults + 1
    /\ UNCHANGED <<now, bucket, keyring, request, restarts, grants, opened>>

\* Mutant: a key whose update threw is not looked at.
AllowUnlessDenied(r) ==
    /\ request[r].pc = "count"
    /\ \A k \in Key : step[r][k] \notin Pending \cup {"denied"}
    /\ request' =
         [request EXCEPT ![r] =
            IF @.phase = "guard" THEN [@ EXCEPT !.pc = "handler"]
            ELSE [@ EXCEPT !.pc = "done", !.answer = "401"]]
    /\ UNCHANGED <<now, bucket, keyring, step, restarts, faults,
                   grants, opened>>

\* Promise.all resolves when every key is settled, and the guard lets the
\* request through when none was refused.  In the failure path the handler
\* goes on to throw the error of the sign-in.
DecideAllow(r) ==
    /\ request[r].pc = "count"
    /\ \A k \in Key : step[r][k] \in {"unused", "allowed"}
    /\ request' =
         [request EXCEPT ![r] =
            IF @.phase = "guard" THEN [@ EXCEPT !.pc = "handler"]
            ELSE [@ EXCEPT !.pc = "done", !.answer = "401"]]
    /\ UNCHANGED <<now, bucket, keyring, step, restarts, faults,
                   grants, opened>>

\* A refusal needs every key to be settled.  An exception does not wait for
\* the other keys (Promise.all rejects at once, the callers catch and refuse):
\* they are still counted afterwards.
DecideRefuse(r) ==
    /\ request[r].pc = "count"
    /\ \/ \E k \in Key : step[r][k] = "failed"
       \/ /\ \A k \in Key : step[r][k] \notin Pending
          /\ \E k \in Key : step[r][k] = "denied"
    /\ Refuse(r)
    /\ UNCHANGED <<now, bucket, keyring, step, restarts, faults,
                   grants, opened>>

-----------------------------------------------------------------------------
(* The handlers behind the guard.                                          *)

Answer(r, answer) ==
    /\ request' = [request EXCEPT ![r].pc = "done", ![r].answer = answer]
    /\ UNCHANGED step

\* Validation of the DTO refuses every incomplete body, and may refuse one
\* the guard took for complete.
HandlerRejects(r) ==
    /\ request[r].pc = "handler"
    /\ request[r].route # "refresh"
    /\ Answer(r, "400")
    /\ UNCHANGED <<now, bucket, keyring, restarts, faults, grants, opened>>

\* createSharedSession or refresh succeeds.
HandlerSucceeds(r) ==
    /\ request[r].pc = "handler"
    /\ request[r].route = "refresh" \/ request[r].body = "complete"
    /\ Answer(r, "ok")
    /\ UNCHANGED <<now, bucket, keyring, restarts, faults, grants, opened>>

\* createSharedSession or refresh throws.  A sign-in is counted against its
\* identifier (recordIdentifierFailure) when the guard left one.
HandlerFails(r) ==
    /\ request[r].pc = "handler"
    /\ request[r].route = "refresh" \/ request[r].body = "complete"
    /\ IF request[r].identifier # None
       THEN /\ request' = [request EXCEPT ![r].pc = "check",
                                          ![r].phase = "failure",
                                          ![r].at = now]
            /\ step' = [step EXCEPT ![r] =
                          Queue(FailureKeys(request[r].identifier))]
       ELSE Answer(r, "401")
    /\ UNCHANGED <<now, bucket, keyring, restarts, faults, grants, opened>>

-----------------------------------------------------------------------------
(* The environment.                                                        *)

\* An instance stops, with all it had under way, and starts again with
\* another configuration: how a secret is rotated.
Restart(i, ring) ==
    /\ restarts < MaxRestarts
    /\ ring # keyring[i]
    /\ keyring' = [keyring EXCEPT ![i] = ring]
    /\ request' = [r \in Request |->
         IF request[r].instance = i /\ request[r].pc # "done"
         THEN [request[r] EXCEPT !.pc = "done", !.answer = "lost"]
         ELSE request[r]]
    /\ step' = [r \in Request |->
         IF request[r].instance = i
         THEN [k \in Key |-> IF step[r][k] \in Pending \cup {"queued"}
                             THEN "failed" ELSE step[r][k]]
         ELSE step[r]]
    /\ restarts' = restarts + 1
    /\ UNCHANGED <<now, bucket, faults, grants, opened>>

\* MongoDB deletes expired buckets in the background.
TtlDelete(k, v) ==
    /\ Exists(bucket[k][v])
    /\ ~LiveAt(bucket[k][v], now)
    /\ bucket' = [bucket EXCEPT ![k][v] = NoBucket]
    /\ grants' = [grants EXCEPT ![k][v] = 0]
    /\ opened' = [opened EXCEPT ![k][v] = Unopened]
    /\ UNCHANGED <<now, keyring, request, step, restarts, faults>>

Tick ==
    /\ now < MaxTime
    /\ now' = now + 1
    /\ UNCHANGED <<bucket, keyring, request, step, restarts, faults,
                   grants, opened>>

ConsumeNext(r, k) ==
    \/ LookupFound(r, k) \/ LookupNone(r, k)
    \/ UpsertFound(r, k) \/ UpsertNone(r, k)
    \/ Insert(r, k) \/ InsertDuplicate(r, k)
    \/ Recount(r, k) \/ OperationFails(r, k)

RequestNext(r) ==
    \/ \E i \in Instance, s \in Source :
          \/ \E route \in Route, id \in Identifier \cup {None}, body \in Body :
                ArriveSignIn(r, i, route, s, id, body)
          \/ \E f \in Family \cup {None} : ArriveRefresh(r, i, s, f)
    \/ CheckKeys(r) \/ DecideAllow(r) \/ DecideRefuse(r)
    \/ HandlerRejects(r) \/ HandlerSucceeds(r) \/ HandlerFails(r)

Next ==
    \/ \E r \in Request : RequestNext(r) \/ \E k \in Key : ConsumeNext(r, k)
    \/ \E i \in Instance, ring \in Keyring : Restart(i, ring)
    \/ \E k \in Key, v \in Version : TtlDelete(k, v)
    \/ Tick

Spec == Init /\ [][Next]_vars

-----------------------------------------------------------------------------
(* Properties.                                                             *)

TypeOK ==
    /\ now \in Nat
    /\ bucket \in [Key -> [Version -> [count : Nat, expiresAt : Nat]]]
    /\ keyring \in [Instance -> Keyring]
    /\ request \in [Request -> RequestRec]
    /\ step \in [Request -> [Key -> Step]]
    /\ restarts \in Nat
    /\ faults \in Nat
    /\ grants \in [Key -> [Version -> Nat]]
    /\ opened \in [Key -> [Version ->
                      [ by : Attempts \cup {<<>>}, beside : SUBSET Attempts ]]]

\* A window never admits more attempts than the limit of its dimension,
\* whichever of the three updates counted them and in whatever order the
\* attempts that found no bucket reach the upsert.
WindowLimit ==
    \A k \in Key, v \in Version : grants[k][v] <= Limit[k[1]]

\* A key has one unexpired bucket at a time: a rotation of the secret goes on
\* with the window it finds, and starts one under the new version only when
\* there is none.  While instances of an old and a new configuration run side
\* by side (data-model.md:409), a second window takes two attempts, one in
\* each, that were both past their check when the first of them opened its
\* window: neither instance alone can open a second one, and nobody can once
\* the first is there to be seen.
OneLiveWindow ==
    \A k \in Key, v, w \in Version :
        LiveAt(bucket[k][v], now) /\ LiveAt(bucket[k][w], now) /\ v # w =>
            LET p == opened[k][v]
                q == opened[k][w] IN
            /\ p.by \in q.beside \/ q.by \in p.beside
            /\ request[p.by[1]].instance # request[q.by[1]].instance

\* A handler runs, and a failed sign-in is answered as such, only after every
\* key of the attempt was counted and admitted: an exception in the throttle
\* and a refusal of one key out of two both refuse the request.
FailsClosed ==
    \A r \in Request :
        /\ \/ request[r].pc = "handler"
           \/ request[r].answer \in {"ok", "400", "401"}
        /\ routeCategory(request[r].route) # "other"
        => /\ \A k \in Key : step[r][k] \in {"unused", "allowed"}
           /\ \E k \in Key : step[r][k] = "allowed"

\* An attempt that counts has the secret of every unexpired bucket, of all the
\* keys and not only its own, however its instance was restarted since the
\* buckets were opened and whatever the other instances have: removing a
\* secret that is in use stops sign-in and refresh where it was removed.  Only
\* a bucket that another attempt opened after this one had been checked may
\* need one it does not have.
MissingKeyRefuses ==
    \A r \in Request : Counting(r) =>
        \A k \in Key, v \in Version :
            LiveAt(bucket[k][v], now) =>
                \/ v \in Versions(Ring(r))
                \/ Attempt(r) \in opened[k][v].beside

\* A window that runs is neither prolonged nor forgotten: its end is fixed and
\* its count only grows, also by attempts that captured the time long ago.
RunningWindowKept ==
    [][\A k \in Key, v \in Version :
          LiveAt(bucket[k][v], now) =>
              /\ bucket'[k][v].expiresAt = bucket[k][v].expiresAt
              /\ bucket'[k][v].count >= bucket[k][v].count]_vars

=============================================================================
