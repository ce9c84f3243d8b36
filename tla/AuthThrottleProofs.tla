------------------------- MODULE AuthThrottleProofs -------------------------
(***************************************************************************)
(* Proofs about AuthThrottle: types, the limit of a window, that a running *)
(* window is kept, that the guard fails closed, and what a rotation of the *)
(* secret preserves, also while instances of the old and of the new        *)
(* configuration run side by side.                                         *)
(***************************************************************************)
EXTENDS AuthThrottle, TLAPS

BucketDoc == [count : Nat, expiresAt : Nat]

\* An absent bucket has no expiry, so it is not live.
AbsentInv ==
    \A k \in Key, v \in Version :
        bucket[k][v].count = 0 => bucket[k][v].expiresAt = 0

\* A request captured its time in the past.  One that waits for the database
\* runs in an instance, and one that counts has a current version.
RequestInv ==
    \A r \in Request :
        /\ request[r].at <= now
        /\ request[r].pc \in {"check", "count", "handler"} =>
              request[r].instance \in Instance
        /\ \A k \in Key :
              step[r][k] \in Pending => /\ request[r].instance \in Instance
                                        /\ Ring(r).current \in Version

TypeInv == TypeOK /\ AbsentInv /\ RequestInv

\* What an attempt counted is at least what it admitted.
GrantInv ==
    \A k \in Key, v \in Version :
        /\ grants[k][v] <= bucket[k][v].count
        /\ grants[k][v] <= Limit[k[1]]

-----------------------------------------------------------------------------

\* Keys name their dimension.
LEMMA KeyDimension ==
    ASSUME NEW k \in Key
    PROVE  /\ k[1] \in Dimension
           /\ Limit[k[1]] \in Nat \ {0}
           /\ Window[k[1]] \in Nat \ {0}
BY PolicyAssumption DEF Key, Dimension

\* The update of one bucket, seen from every bucket and every step.
LEMMA CountedFrame ==
    ASSUME TypeOK, NEW r \in Request, NEW k \in Key, NEW v \in Version,
           NEW b \in BucketDoc, Counted(r, k, v, b)
    PROVE  /\ bucket' \in [Key -> [Version -> BucketDoc]]
           /\ step' \in [Request -> [Key -> Step]]
           /\ grants' \in [Key -> [Version -> Nat]]
           /\ bucket'[k][v] = b
           /\ \A k2 \in Key, v2 \in Version :
                 k2 # k \/ v2 # v => /\ bucket'[k2][v2] = bucket[k2][v2]
                                     /\ grants'[k2][v2] = grants[k2][v2]
           /\ grants'[k][v] =
                (IF b.expiresAt = bucket[k][v].expiresAt
                 THEN grants[k][v] ELSE 0)
                + (IF b.count <= Limit[k[1]] THEN 1 ELSE 0)
           /\ step'[r][k] \in {"allowed", "denied"}
           /\ \A r2 \in Request, k2 \in Key :
                 r2 # r \/ k2 # k => step'[r2][k2] = step[r2][k2]
<1>1. toDecision(k, b) \in {"allowed", "denied"}
  BY DEF toDecision
<1>2. (toDecision(k, b) = "allowed") <=> (b.count <= Limit[k[1]])
  BY DEF toDecision
<1>3. /\ bucket' \in [Key -> [Version -> BucketDoc]]
      /\ bucket'[k][v] = b
      /\ \A k2 \in Key, v2 \in Version :
            k2 # k \/ v2 # v => bucket'[k2][v2] = bucket[k2][v2]
  BY DEF Counted, TypeOK, BucketDoc
<1>4. /\ step' \in [Request -> [Key -> Step]]
      /\ step'[r][k] \in {"allowed", "denied"}
      /\ \A r2 \in Request, k2 \in Key :
            r2 # r \/ k2 # k => step'[r2][k2] = step[r2][k2]
  BY <1>1 DEF Counted, TypeOK, Step, Settled
<1>5. /\ grants' \in [Key -> [Version -> Nat]]
      /\ grants'[k][v] =
            (IF b.expiresAt = bucket[k][v].expiresAt
             THEN grants[k][v] ELSE 0)
            + (IF b.count <= Limit[k[1]] THEN 1 ELSE 0)
      /\ \A k2 \in Key, v2 \in Version :
            k2 # k \/ v2 # v => grants'[k2][v2] = grants[k2][v2]
  BY <1>2 DEF Counted, TypeOK
<1> QED BY <1>3, <1>4, <1>5

\* The update records who opened the window, if it opened one.
LEMMA CountedOpened ==
    ASSUME TypeOK, NEW r \in Request, NEW k \in Key, NEW v \in Version,
           NEW b \in BucketDoc, Counted(r, k, v, b)
    PROVE  /\ opened' \in [Key -> [Version ->
                  [ by : Attempts \cup {<<>>}, beside : SUBSET Attempts ]]]
           /\ opened'[k][v] =
                (IF b.expiresAt = bucket[k][v].expiresAt THEN opened[k][v]
                 ELSE [ by |-> Attempt(r), beside |-> UnderWay ])
           /\ \A k2 \in Key, v2 \in Version :
                 k2 # k \/ v2 # v => opened'[k2][v2] = opened[k2][v2]
<1>1. Attempt(r) \in Attempts /\ UnderWay \subseteq Attempts
  BY DEF TypeOK, RequestRec, Attempt, Attempts, UnderWay
<1> QED BY <1>1 DEF Counted, TypeOK

\* The windows of other buckets keep their history, and so does a window that
\* is counted in.
LEMMA CountedHistory ==
    ASSUME TypeOK, NEW r \in Request, NEW k \in Key, NEW v \in Version,
           NEW b \in BucketDoc, Counted(r, k, v, b),
           NEW k2 \in Key, NEW v2 \in Version,
           k2 # k \/ v2 # v \/ b.expiresAt = bucket[k][v].expiresAt
    PROVE  opened'[k2][v2] = opened[k2][v2]
BY DEF Counted, TypeOK

\* How an operation of consumeDimension may change the database.
CountsLive(r, k, v) ==
    /\ LiveAt(bucket[k][v], request[r].at)
    /\ Counted(r, k, v, Increment(bucket[k][v]))

OpensWindow(r, k) ==
    /\ step[r][k] \in {"upsert", "insert"}
    /\ ~LiveAt(bucket[k][Ring(r).current], request[r].at)
    /\ Counted(r, k, Ring(r).current, NewWindow(k, request[r].at))

CountsNothing(r, k) ==
    /\ \E s \in Step : step' = [step EXCEPT ![r][k] = s]
    /\ step'[r][k] \in {"upsert", "insert", "recount"} =>
          step[r][k] \in {"upsert", "insert"} \/ Candidates(r, k) = {}
    /\ UNCHANGED <<bucket, grants, opened>>

\* Every operation counts in a live bucket, opens a window where none is
\* live, or counts nothing.
LEMMA ConsumeCases ==
    ASSUME TypeInv, NEW r \in Request, NEW k \in Key, ConsumeNext(r, k)
    PROVE  /\ step[r][k] \in Pending
           /\ UNCHANGED <<now, keyring, request, restarts>>
           /\ faults' \in Nat
           /\ \/ \E v \in Version : CountsLive(r, k, v)
              \/ OpensWindow(r, k)
              \/ CountsNothing(r, k)
<1> USE DEF Pending, Step
<1>1. CASE LookupFound(r, k)
  BY <1>1 DEF LookupFound, Candidates, CountsLive, TypeInv, TypeOK
<1>2. CASE LookupNone(r, k)
  BY <1>2 DEF LookupNone, CountsNothing, TypeInv, TypeOK
<1>3. CASE UpsertFound(r, k)
  <2>1. Ring(r).current \in Version
    BY <1>3 DEF UpsertFound, TypeInv, RequestInv
  <2> QED BY <1>3, <2>1 DEF UpsertFound, CountsLive, OpensWindow, TypeInv, TypeOK
<1>4. CASE UpsertNone(r, k)
  BY <1>4 DEF UpsertNone, CountsNothing, TypeInv, TypeOK
<1>5. CASE Insert(r, k)
  <2>1. Ring(r).current \in Version
    BY <1>5 DEF Insert, TypeInv, RequestInv
  <2>2. bucket[k][Ring(r).current].count = 0
    BY <1>5, <2>1 DEF Insert, Exists, TypeInv, TypeOK
  <2>3. ~LiveAt(bucket[k][Ring(r).current], request[r].at)
    BY <2>1, <2>2 DEF LiveAt, TypeInv, AbsentInv, TypeOK, RequestRec
  <2> QED BY <1>5, <2>3 DEF Insert, OpensWindow, TypeInv, TypeOK
<1>6. CASE InsertDuplicate(r, k)
  BY <1>6 DEF InsertDuplicate, CountsNothing, TypeInv, TypeOK
<1>7. CASE Recount(r, k)
  <2>1. Ring(r).current \in Version
    BY <1>7 DEF Recount, TypeInv, RequestInv
  <2> QED BY <1>7, <2>1
       DEF Recount, CountsLive, CountsNothing, TypeInv, TypeOK, Settled
<1>8. CASE OperationFails(r, k)
  BY <1>8 DEF OperationFails, CountsNothing, TypeInv, TypeOK, Settled
<1> QED BY <1>1, <1>2, <1>3, <1>4, <1>5, <1>6, <1>7, <1>8 DEF ConsumeNext

-----------------------------------------------------------------------------
(* Types.                                                                  *)

\* Nothing is stored and nothing runs at the start.
LEMMA InitTypeInv == Init => TypeInv
BY KeyringAssumption DEF Init, TypeInv, TypeOK, AbsentInv, RequestInv, NoBucket,
    Unopened, Idle, RequestRec, NoSteps, Step, Pending, Settled

\* The keys an attempt queues are not yet under way.
LEMMA QueueSteps ==
    ASSUME NEW keys
    PROVE  /\ Queue(keys) \in [Key -> Step]
           /\ \A k \in Key : Queue(keys)[k] \notin Pending
BY DEF Queue, Step, Pending

\* A request may take any state of its type in an instance, as long as what
\* it has under way belongs to an instance with a current version.
LEMMA RequestStep ==
    ASSUME TypeInv, NEW r \in Request, NEW q \in RequestRec,
           NEW s \in [Key -> Step],
           q.at <= now,
           q.pc \in {"check", "count", "handler"} => q.instance \in Instance,
           \A k \in Key : s[k] \in Pending =>
               q.instance \in Instance /\ keyring[q.instance].current \in Version,
           request' = [request EXCEPT ![r] = q],
           step' = [step EXCEPT ![r] = s],
           UNCHANGED <<now, bucket, keyring, restarts, faults, grants, opened>>
    PROVE  TypeInv'
<1>1. request' \in [Request -> RequestRec] /\ step' \in [Request -> [Key -> Step]]
  BY DEF TypeInv, TypeOK
<1>2. TypeOK' /\ AbsentInv'
  BY <1>1 DEF TypeInv, TypeOK, AbsentInv
<1>3. request'[r] = q /\ step'[r] = s
  BY DEF TypeInv, TypeOK
<1>4. \A r2 \in Request : r2 # r => /\ request'[r2] = request[r2]
                                    /\ step'[r2] = step[r2]
  BY DEF TypeInv, TypeOK
<1>5. RequestInv'
  BY <1>3, <1>4 DEF TypeInv, RequestInv, Ring
<1> QED BY <1>2, <1>5 DEF TypeInv

\* Arrivals keep the types.
LEMMA ArriveType ==
    ASSUME TypeInv, NEW r \in Request, NEW i \in Instance, NEW s \in Source,
           \/ \E route \in Route, id \in Identifier \cup {None}, body \in Body :
                 ArriveSignIn(r, i, route, s, id, body)
           \/ \E f \in Family \cup {None} : ArriveRefresh(r, i, s, f)
    PROVE  TypeInv'
<1> DEFINE Arrived(pc, route, body, id, at) ==
             [ pc |-> pc, phase |-> "guard", instance |-> i, route |-> route,
               body |-> body, identifier |-> id, at |-> at,
               answer |-> "none" ]
<1>1. ASSUME NEW route \in Route, NEW id \in Identifier \cup {None},
             NEW body \in Body, ArriveSignIn(r, i, route, s, id, body)
      PROVE  TypeInv'
  <2>1. CASE routeCategory(route) = "other"
    <3> DEFINE q == Arrived("handler", route, body, None, 0)
    <3>1. request' = [request EXCEPT ![r] = q]
          /\ step' = [step EXCEPT ![r] = NoSteps]
      BY <1>1, <2>1 DEF ArriveSignIn, Idle
    <3>2. q \in RequestRec /\ q.at <= now /\ q.instance \in Instance
      BY DEF RequestRec, TypeInv, TypeOK
    <3>3. NoSteps \in [Key -> Step] /\ \A k \in Key : NoSteps[k] \notin Pending
      BY DEF NoSteps, Step, Pending
    <3> HIDE DEF q
    <3> QED BY <1>1, <3>1, <3>2, <3>3, RequestStep DEF ArriveSignIn
  <2>2. CASE routeCategory(route) # "other"
    <3> DEFINE q == Arrived("check", route, body, id, now)
    <3>1. /\ request' = [request EXCEPT ![r] = q]
          /\ step' = [step EXCEPT ![r] = Queue(SignInKeys(s, id, body))]
      BY <1>1, <2>2 DEF ArriveSignIn, Idle
    <3>2. q \in RequestRec /\ q.at <= now /\ q.instance \in Instance
      BY DEF RequestRec, TypeInv, TypeOK
    <3> HIDE DEF q
    <3> QED BY <1>1, <3>1, <3>2, QueueSteps, RequestStep DEF ArriveSignIn
  <2> QED BY <2>1, <2>2
<1>2. ASSUME NEW f \in Family \cup {None}, ArriveRefresh(r, i, s, f)
      PROVE  TypeInv'
  <2> DEFINE x == [ Idle EXCEPT !.pc = "check", !.instance = i,
                                !.route = "refresh" ]
             q == [ x EXCEPT !.at = now ]
  <2>1. request' = [request EXCEPT ![r] = q]
    BY <1>2 DEF ArriveRefresh
  <2>2. now \in Nat /\ "refresh" \in Route
    BY <1>2 DEF ArriveRefresh, TypeInv, TypeOK
  <2>3. x \in RequestRec /\ x.instance = i
    BY <2>2 DEF Idle, RequestRec
  <2> HIDE DEF x
  <2>4. q \in RequestRec /\ q.at <= now /\ q.instance \in Instance
    BY <2>2, <2>3 DEF RequestRec
  <2> HIDE DEF q
  <2> QED BY <1>2, <2>1, <2>4, QueueSteps, RequestStep DEF ArriveRefresh
<1> QED BY <1>1, <1>2

\* The check of the secret versions keeps the types: only an instance with a
\* current version starts to count.
LEMMA CheckType ==
    ASSUME TypeInv, NEW r \in Request, CheckKeys(r)
    PROVE  TypeInv'
<1>1. request[r].instance \in Instance /\ Ring(r) \in Keyring
  BY DEF CheckKeys, TypeInv, RequestInv, TypeOK, Ring
<1>2. CASE Ring(r).current # 0 /\ hasEveryReferencedKey(Ring(r), request[r].at)
  <2> DEFINE q == [request[r] EXCEPT !.pc = "count"]
             s == [k \in Key |-> IF step[r][k] = "queued" THEN "lookup"
                                 ELSE step[r][k]]
  <2>1. Ring(r).current \in Version
    BY <1>1, <1>2, KeyringAssumption
  <2>2. request' = [request EXCEPT ![r] = q] /\ step' = [step EXCEPT ![r] = s]
    BY <1>2 DEF CheckKeys, Ring, TypeInv, TypeOK
  <2>3. q \in RequestRec /\ q.at <= now /\ q.instance = request[r].instance
    BY Zenon DEF TypeInv, TypeOK, RequestInv, RequestRec
  <2>4. s \in [Key -> Step]
    BY DEF TypeInv, TypeOK, Step, Pending
  <2> HIDE DEF q, s
  <2> QED BY <1>1, <2>1, <2>2, <2>3, <2>4, RequestStep DEF CheckKeys, Ring
<1>3. CASE ~(Ring(r).current # 0
             /\ hasEveryReferencedKey(Ring(r), request[r].at))
  <2> DEFINE q == [request[r] EXCEPT !.pc = "done", !.answer = "429"]
  <2>1. request' = [request EXCEPT ![r] = q]
        /\ step' = [step EXCEPT ![r] = NoSteps]
    BY <1>3 DEF CheckKeys, Ring, Refuse, TypeInv, TypeOK
  <2>2. q \in RequestRec /\ q.at <= now /\ q.pc = "done"
    BY Zenon DEF TypeInv, TypeOK, RequestInv, RequestRec
  <2>3. NoSteps \in [Key -> Step] /\ \A k \in Key : NoSteps[k] \notin Pending
    BY DEF NoSteps, Step, Pending
  <2> HIDE DEF q
  <2> QED BY <2>1, <2>2, <2>3, RequestStep DEF CheckKeys
<1> QED BY <1>2, <1>3

\* Counting keeps the types.
LEMMA ConsumeType ==
    ASSUME TypeInv, NEW r \in Request, NEW k \in Key, ConsumeNext(r, k)
    PROVE  TypeInv'
<1>1. /\ step[r][k] \in Pending
      /\ UNCHANGED <<now, keyring, request, restarts>>
      /\ faults' \in Nat
  BY ConsumeCases
<1>2. ASSUME NEW v \in Version, NEW b \in BucketDoc, Counted(r, k, v, b),
             b.count = 0 => b.expiresAt = 0
      PROVE  TypeInv'
  <2>0. TypeOK
    BY DEF TypeInv
  <2>1. TypeOK'
    BY <1>1, <1>2, <2>0, CountedFrame, CountedOpened DEF TypeOK, BucketDoc
  <2>2. /\ bucket'[k][v] = b
        /\ \A k2 \in Key, v2 \in Version :
              k2 # k \/ v2 # v => bucket'[k2][v2] = bucket[k2][v2]
        /\ step'[r][k] \in {"allowed", "denied"}
        /\ \A r2 \in Request, k2 \in Key :
              r2 # r \/ k2 # k => step'[r2][k2] = step[r2][k2]
    BY <1>2, <2>0, CountedFrame
  <2>3. AbsentInv'
    BY <1>2, <2>2 DEF TypeInv, AbsentInv
  <2>4. \A r2 \in Request, k2 \in Key :
           step'[r2][k2] \in Pending => step[r2][k2] \in Pending
    BY <2>2 DEF Pending
  <2>5. RequestInv'
    BY <1>1, <2>4 DEF TypeInv, RequestInv, Ring
  <2> QED BY <2>1, <2>3, <2>5 DEF TypeInv
<1>3. ASSUME NEW v \in Version, CountsLive(r, k, v)
      PROVE  TypeInv'
  <2>0. bucket[k][v] \in BucketDoc
    BY DEF TypeInv, TypeOK, BucketDoc
  <2>1. Increment(bucket[k][v]) \in BucketDoc
        /\ Increment(bucket[k][v]).count # 0
    BY <2>0 DEF Increment, BucketDoc
  <2> QED BY <1>2, <1>3, <2>1 DEF CountsLive
<1>4. CASE OpensWindow(r, k)
  <2>1. Ring(r).current \in Version
    BY <1>1 DEF TypeInv, RequestInv
  <2>2. /\ NewWindow(k, request[r].at) \in BucketDoc
        /\ NewWindow(k, request[r].at).count # 0
    BY KeyDimension DEF NewWindow, BucketDoc, TypeInv, TypeOK, RequestRec
  <2> QED BY <1>2, <1>4, <2>1, <2>2 DEF OpensWindow
<1>5. CASE CountsNothing(r, k)
  <2>1. PICK s \in Step : step' = [step EXCEPT ![r][k] = s]
    BY <1>5 DEF CountsNothing
  <2>2. TypeOK' /\ AbsentInv'
    BY <1>1, <1>5, <2>1 DEF CountsNothing, TypeInv, TypeOK, AbsentInv
  <2>3. \A r2 \in Request, k2 \in Key :
           step'[r2][k2] \in Pending => step[r2][k2] \in Pending
    BY <1>1, <2>1 DEF TypeInv, TypeOK
  <2>4. RequestInv'
    BY <1>1, <2>3 DEF TypeInv, RequestInv, Ring
  <2> QED BY <2>2, <2>4 DEF TypeInv
<1> QED BY <1>3, <1>4, <1>5, ConsumeCases

\* Decisions and handlers keep the types.
LEMMA HandleType ==
    ASSUME TypeInv, NEW r \in Request,
           \/ DecideAllow(r) \/ DecideRefuse(r)
           \/ HandlerRejects(r) \/ HandlerSucceeds(r) \/ HandlerFails(r)
    PROVE  TypeInv'
<1>1. /\ request[r].instance \in Instance
      /\ request[r] \in RequestRec
      /\ request[r].at <= now
      /\ step[r] \in [Key -> Step]
      /\ UNCHANGED <<now, bucket, keyring, restarts, faults, grants, opened>>
  BY DEF TypeInv, TypeOK, RequestInv, DecideAllow, DecideRefuse,
     HandlerRejects, HandlerSucceeds, HandlerFails
<1>2. \A k \in Key : step[r][k] \in Pending =>
         keyring[request[r].instance].current \in Version
  BY DEF TypeInv, RequestInv, Ring
<1>3. ASSUME NEW q \in RequestRec, request' = [request EXCEPT ![r] = q],
             q.at = request[r].at, q.instance = request[r].instance,
             step' = step
      PROVE  TypeInv'
  <2>1. step' = [step EXCEPT ![r] = step[r]]
    BY <1>3 DEF TypeInv, TypeOK
  <2> QED BY <1>1, <1>2, <1>3, <2>1, RequestStep
<1>4. CASE DecideAllow(r)
  <2> DEFINE q == IF request[r].phase = "guard"
                  THEN [request[r] EXCEPT !.pc = "handler"]
                  ELSE [request[r] EXCEPT !.pc = "done", !.answer = "401"]
  <2>1. request' = [request EXCEPT ![r] = q] /\ step' = step
    BY <1>4 DEF DecideAllow, TypeInv, TypeOK
  <2>2. /\ q \in RequestRec /\ q.at = request[r].at
        /\ q.instance = request[r].instance
    BY <1>1 DEF RequestRec
  <2> HIDE DEF q
  <2> QED BY <1>3, <2>1, <2>2
<1>5. ASSUME NEW answer \in {"ok", "400", "401", "429"}, step' = step,
             request' = [request EXCEPT ![r].pc = "done",
                                        ![r].answer = answer]
      PROVE  TypeInv'
  <2> DEFINE q == [request[r] EXCEPT !.pc = "done", !.answer = answer]
  <2>1. request' = [request EXCEPT ![r] = q]
    BY <1>5 DEF TypeInv, TypeOK
  <2>2. /\ q \in RequestRec /\ q.at = request[r].at
        /\ q.instance = request[r].instance
    BY <1>1 DEF RequestRec
  <2> HIDE DEF q
  <2> QED BY <1>3, <1>5, <2>1, <2>2
<1>6. CASE DecideRefuse(r)
  BY <1>5, <1>6 DEF DecideRefuse, Refuse
<1>7. CASE HandlerRejects(r) \/ HandlerSucceeds(r)
  BY <1>5, <1>7 DEF HandlerRejects, HandlerSucceeds, Answer
<1>8. CASE HandlerFails(r) /\ request[r].identifier = None
  BY <1>5, <1>8 DEF HandlerFails, Answer
<1>9. CASE HandlerFails(r) /\ request[r].identifier # None
  <2> DEFINE x == [request[r] EXCEPT !.pc = "check", !.phase = "failure"]
             q == [x EXCEPT !.at = now]
             keys == {<<"sign-in-identifier-failure", request[r].identifier>>}
  <2>1. /\ request' = [request EXCEPT ![r] = q]
        /\ step' = [step EXCEPT ![r] = Queue(keys)]
    BY <1>9 DEF HandlerFails, FailureKeys, TypeInv, TypeOK
  <2>2. now \in Nat
    BY DEF TypeInv, TypeOK
  <2>3. x \in RequestRec /\ x.instance = request[r].instance
    BY <1>1 DEF RequestRec
  <2> HIDE DEF x
  <2>4. /\ q \in RequestRec /\ q.at <= now
        /\ q.instance = request[r].instance
    BY <2>2, <2>3 DEF RequestRec
  <2> HIDE DEF q, keys
  <2> QED BY <1>1, <2>1, <2>4, QueueSteps, RequestStep
<1> QED BY <1>4, <1>6, <1>7, <1>8, <1>9

\* A restart leaves nothing under way in its instance.
LEMMA RestartType ==
    ASSUME TypeInv, NEW i \in Instance, NEW ring \in Keyring, Restart(i, ring)
    PROVE  /\ TypeInv'
           /\ \A r \in Request, k \in Key :
                 step'[r][k] \in Pending =>
                     step[r][k] \in Pending /\ request[r].instance # i
<1>1. keyring' \in [Instance -> Keyring]
  BY DEF Restart, TypeInv, TypeOK
<1>2. request' \in [Request -> RequestRec]
  <2>1. \A r \in Request : request[r] \in RequestRec
    BY DEF TypeInv, TypeOK
  <2>2. ASSUME NEW q \in RequestRec
        PROVE  [q EXCEPT !.pc = "done", !.answer = "lost"] \in RequestRec
    BY DEF RequestRec
  <2> QED BY <2>1, <2>2 DEF Restart
<1>3. step' \in [Request -> [Key -> Step]]
  BY DEF Restart, TypeInv, TypeOK, Step, Settled
<1>4. \A r \in Request, k \in Key :
         step'[r][k] \in Pending =>
             step[r][k] \in Pending /\ request[r].instance # i
  BY DEF Restart, Pending
<1>5. \A r \in Request :
         /\ request'[r].at = request[r].at
         /\ request'[r].instance = request[r].instance
         /\ request'[r].pc = "done" \/ request'[r].pc = request[r].pc
  BY DEF Restart, TypeInv, TypeOK, RequestRec
<1>6. TypeOK' /\ AbsentInv'
  <2>1. /\ UNCHANGED <<now, bucket, faults, grants, opened>>
        /\ restarts' = restarts + 1
    BY DEF Restart
  <2>2. restarts' \in Nat
    BY <2>1 DEF TypeInv, TypeOK
  <2> QED BY <1>1, <1>2, <1>3, <2>1, <2>2 DEF TypeInv, TypeOK, AbsentInv
<1>7. \A r \in Request :
         request[r].instance \in Instance \ {i} => Ring(r)' = Ring(r)
  BY <1>5 DEF Restart, Ring, TypeInv, TypeOK
<1>8. RequestInv'
  BY <1>4, <1>5, <1>7 DEF TypeInv, RequestInv, Restart
<1> QED BY <1>4, <1>6, <1>8 DEF TypeInv

\* Expiry, the clock and stuttering keep the types.
LEMMA EnvironmentType ==
    ASSUME TypeInv,
           \/ \E k \in Key, v \in Version : TtlDelete(k, v)
           \/ Tick \/ UNCHANGED vars
    PROVE  TypeInv'
<1>1. ASSUME NEW k \in Key, NEW v \in Version, TtlDelete(k, v)
      PROVE  TypeInv'
  BY <1>1 DEF TtlDelete, TypeInv, TypeOK, AbsentInv, RequestInv, Ring, NoBucket,
     Unopened
<1>2. CASE Tick
  BY <1>2 DEF Tick, TypeInv, TypeOK, AbsentInv, RequestInv, Ring, RequestRec
<1>3. CASE UNCHANGED vars
  BY <1>3 DEF vars, TypeInv, TypeOK, AbsentInv, RequestInv, Ring
<1> QED BY <1>1, <1>2, <1>3

LEMMA NextTypeInv == TypeInv /\ [Next]_vars => TypeInv'
BY ArriveType, CheckType, ConsumeType, HandleType, RestartType, EnvironmentType
   DEF Next, RequestNext

\* Every state of the throttle has its type.
THEOREM TypeCorrect == Spec => []TypeOK
<1>1. TypeInv => TypeOK
  BY DEF TypeInv
<1> QED BY <1>1, InitTypeInv, NextTypeInv, PTL DEF Spec

-----------------------------------------------------------------------------
(* Windows.                                                                *)

\* Only the operations of consumeDimension and the deletion of expired
\* buckets write the database.
LEMMA Writers ==
    ASSUME [Next]_vars
    PROVE  \/ \E r \in Request, k \in Key : ConsumeNext(r, k)
           \/ \E k \in Key, v \in Version : TtlDelete(k, v)
           \/ UNCHANGED <<bucket, grants, opened>>
<1>1. ASSUME NEW r \in Request, RequestNext(r)
      PROVE  UNCHANGED <<bucket, grants, opened>>
  BY <1>1 DEF RequestNext, ArriveSignIn, ArriveRefresh, CheckKeys, DecideAllow,
     DecideRefuse, HandlerRejects, HandlerSucceeds, HandlerFails
<1>2. ASSUME NEW i \in Instance, NEW ring \in Keyring, Restart(i, ring)
      PROVE  UNCHANGED <<bucket, grants, opened>>
  BY <1>2 DEF Restart
<1>3. CASE Tick \/ UNCHANGED vars
  BY <1>3 DEF Tick, vars
<1> QED BY <1>1, <1>2, <1>3 DEF Next

\* What one operation does to the bucket it counts in.
LEMMA ConsumeBuckets ==
    ASSUME TypeInv, NEW r \in Request, NEW k \in Key, ConsumeNext(r, k),
           NEW v \in Version, NEW k2 \in Key
    PROVE  \/ /\ bucket'[k2][v] = bucket[k2][v]
              /\ grants'[k2][v] = grants[k2][v]
           \/ /\ k2 = k
              /\ LiveAt(bucket[k][v], request[r].at)
              /\ bucket'[k][v].count = bucket[k][v].count + 1
              /\ bucket'[k][v].expiresAt = bucket[k][v].expiresAt
              /\ grants'[k][v] = grants[k][v] +
                   (IF bucket'[k][v].count <= Limit[k[1]] THEN 1 ELSE 0)
           \/ /\ k2 = k
              /\ v = Ring(r).current
              /\ step[r][k] \in {"upsert", "insert"}
              /\ ~LiveAt(bucket[k][v], request[r].at)
              /\ bucket'[k][v].count = 1
              /\ grants'[k][v] = 1
<1>1. TypeOK /\ bucket[k][v] \in BucketDoc
  BY DEF TypeInv, TypeOK, BucketDoc
<1>2. ASSUME NEW w \in Version, CountsLive(r, k, w)
      PROVE  \/ /\ bucket'[k2][v] = bucket[k2][v]
                /\ grants'[k2][v] = grants[k2][v]
             \/ /\ k2 = k
                /\ LiveAt(bucket[k][v], request[r].at)
                /\ bucket'[k][v].count = bucket[k][v].count + 1
                /\ bucket'[k][v].expiresAt = bucket[k][v].expiresAt
                /\ grants'[k][v] = grants[k][v] +
                     (IF bucket'[k][v].count <= Limit[k[1]] THEN 1 ELSE 0)
  <2> DEFINE b == Increment(bucket[k][w])
  <2>1. bucket[k][w] \in BucketDoc
    BY DEF TypeInv, TypeOK, BucketDoc
  <2>2. /\ b \in BucketDoc /\ b.count = bucket[k][w].count + 1
        /\ b.expiresAt = bucket[k][w].expiresAt
    BY <2>1 DEF Increment, BucketDoc
  <2>3. Counted(r, k, w, b) /\ LiveAt(bucket[k][w], request[r].at)
    BY <1>2 DEF CountsLive
  <2> HIDE DEF b
  <2>4. CASE k2 # k \/ v # w
    BY <1>1, <2>2, <2>3, <2>4, CountedFrame
  <2>5. CASE k2 = k /\ v = w
    <3>1. /\ bucket'[k][w] = b
          /\ grants'[k][w] = grants[k][w]
                + (IF b.count <= Limit[k[1]] THEN 1 ELSE 0)
      BY <1>1, <2>2, <2>3, CountedFrame
    <3> QED BY <2>2, <2>3, <2>5, <3>1
  <2> QED BY <2>4, <2>5
<1>3. ASSUME OpensWindow(r, k)
      PROVE  \/ /\ bucket'[k2][v] = bucket[k2][v]
                /\ grants'[k2][v] = grants[k2][v]
             \/ /\ k2 = k
                /\ v = Ring(r).current
                /\ step[r][k] \in {"upsert", "insert"}
                /\ ~LiveAt(bucket[k][v], request[r].at)
                /\ bucket'[k][v].count = 1
                /\ grants'[k][v] = 1
  <2> DEFINE b == NewWindow(k, request[r].at)
             w == Ring(r).current
  <2>1. w \in Version /\ bucket[k][w] \in BucketDoc /\ request[r].at \in Nat
    BY <1>3 DEF OpensWindow, TypeInv, TypeOK, RequestInv, BucketDoc,
       RequestRec, Pending
  <2>2. b \in BucketDoc /\ b.count = 1 /\ b.expiresAt > request[r].at
    BY <2>1, KeyDimension DEF NewWindow, BucketDoc
  <2>3. /\ Counted(r, k, w, b) /\ step[r][k] \in {"upsert", "insert"}
        /\ ~LiveAt(bucket[k][w], request[r].at)
    BY <1>3 DEF OpensWindow
  <2>4. b.expiresAt # bucket[k][w].expiresAt
    BY <2>1, <2>2, <2>3 DEF LiveAt, BucketDoc
  <2> HIDE DEF b, w
  <2>5. CASE k2 # k \/ v # w
    BY <1>1, <2>1, <2>2, <2>3, <2>5, CountedFrame
  <2>6. CASE k2 = k /\ v = w
    <3>1. bucket'[k][w] = b /\ grants'[k][w] = 1
      BY <1>1, <2>1, <2>2, <2>3, <2>4, KeyDimension, CountedFrame
    <3> QED BY <2>2, <2>3, <2>6, <3>1 DEF w
  <2> QED BY <2>5, <2>6
<1>4. CASE CountsNothing(r, k)
  BY <1>4 DEF CountsNothing
<1> QED BY <1>2, <1>3, <1>4, ConsumeCases

\* No window admits more than its limit, and no more than it counted.
LEMMA NextGrantInv == TypeInv /\ GrantInv /\ [Next]_vars => GrantInv'
<1> SUFFICES ASSUME TypeInv, GrantInv, [Next]_vars
             PROVE  GrantInv'
  OBVIOUS
<1>1. ASSUME NEW r \in Request, NEW k \in Key, ConsumeNext(r, k)
      PROVE  GrantInv'
  <2> SUFFICES ASSUME NEW k2 \in Key, NEW v \in Version
               PROVE  /\ grants'[k2][v] <= bucket'[k2][v].count
                      /\ grants'[k2][v] <= Limit[k2[1]]
    BY DEF GrantInv
  <2>1. /\ grants[k2][v] <= bucket[k2][v].count
        /\ grants[k2][v] <= Limit[k2[1]]
        /\ grants[k2][v] \in Nat /\ bucket[k2][v].count \in Nat
        /\ Limit[k2[1]] \in Nat \ {0}
    BY KeyDimension DEF GrantInv, TypeInv, TypeOK
  <2> QED BY <1>1, <2>1, ConsumeBuckets
<1>2. ASSUME NEW k \in Key, NEW v \in Version, TtlDelete(k, v)
      PROVE  GrantInv'
  BY <1>2, KeyDimension DEF TtlDelete, GrantInv, NoBucket, TypeInv, TypeOK
<1>3. CASE UNCHANGED <<bucket, grants, opened>>
  BY <1>3 DEF GrantInv
<1> QED BY <1>1, <1>2, <1>3, Writers

\* No interleaving of attempts admits more of them to one window than the
\* limit of its dimension, however many instances count and restart.
THEOREM LimitHolds == Spec => []WindowLimit
<1>1. Init => GrantInv
  BY KeyDimension DEF Init, GrantInv, NoBucket
<1>2. GrantInv => WindowLimit
  BY DEF GrantInv, WindowLimit
<1> QED BY <1>1, <1>2, InitTypeInv, NextTypeInv, NextGrantInv, PTL DEF Spec

\* No step moves the end of a running window or takes back what it counted.
LEMMA StepKeepsWindow ==
    ASSUME TypeInv, [Next]_vars, NEW k \in Key, NEW v \in Version,
           LiveAt(bucket[k][v], now)
    PROVE  /\ bucket'[k][v].expiresAt = bucket[k][v].expiresAt
           /\ bucket'[k][v].count >= bucket[k][v].count
<1>1. bucket[k][v].count \in Nat /\ bucket[k][v].expiresAt \in Nat /\ now \in Nat
  BY DEF TypeInv, TypeOK
<1>2. ASSUME NEW r \in Request, NEW k2 \in Key, ConsumeNext(r, k2)
      PROVE  /\ bucket'[k][v].expiresAt = bucket[k][v].expiresAt
             /\ bucket'[k][v].count >= bucket[k][v].count
  <2>1. request[r].at <= now /\ request[r].at \in Nat
    BY DEF TypeInv, RequestInv, TypeOK, RequestRec
  <2>2. LiveAt(bucket[k][v], request[r].at)
    BY <1>1, <2>1 DEF LiveAt
  <2> QED BY <1>1, <1>2, <2>2, ConsumeBuckets
<1>3. ASSUME NEW k2 \in Key, NEW v2 \in Version, TtlDelete(k2, v2)
      PROVE  /\ bucket'[k][v].expiresAt = bucket[k][v].expiresAt
             /\ bucket'[k][v].count >= bucket[k][v].count
  BY <1>1, <1>3 DEF TtlDelete, TypeInv, TypeOK
<1> QED BY <1>1, <1>2, <1>3, Writers

\* A lockout is neither prolonged by further attempts nor cut short by an
\* attempt that captured the time before the window began.
THEOREM WindowKept == Spec => RunningWindowKept
<1>1. TypeInv /\ [Next]_vars =>
        [\A k \in Key, v \in Version :
          LiveAt(bucket[k][v], now) =>
              /\ bucket'[k][v].expiresAt = bucket[k][v].expiresAt
              /\ bucket'[k][v].count >= bucket[k][v].count]_vars
  BY StepKeepsWindow
<1> QED BY <1>1, InitTypeInv, NextTypeInv, PTL DEF Spec, RunningWindowKept

-----------------------------------------------------------------------------
(* The guard fails closed.                                                 *)

\* Every key of an attempt was counted and admitted, and there was one.
Admitted(r) ==
    /\ \A k \in Key : step[r][k] \in {"unused", "allowed"}
    /\ \E k \in Key : step[r][k] = "allowed"

\* A request behind the guard, on a route that is counted.
Through(r) ==
    /\ \/ request[r].pc = "handler"
       \/ request[r].answer \in {"ok", "400", "401"}
    /\ routeCategory(request[r].route) # "other"

\* A request that has not been answered has keys to be counted: all of them
\* wait for the check of the versions, and are counted after it.
AdmissionInv ==
    \A r \in Request :
        /\ request[r].pc # "done" => request[r].answer = "none"
        /\ request[r].pc = "check" =>
              /\ \A k \in Key : step[r][k] \in {"unused", "queued"}
              /\ \E k \in Key : step[r][k] = "queued"
        /\ request[r].pc = "count" =>
              /\ \A k \in Key : step[r][k] # "queued"
              /\ \E k \in Key : step[r][k] # "unused"
        /\ Through(r) => Admitted(r)

\* An operation of consumeDimension moves its own key on.
LEMMA ConsumeMoves ==
    ASSUME NEW r \in Request, NEW k \in Key, ConsumeNext(r, k)
    PROVE  /\ request' = request /\ step[r][k] \in Pending
           /\ \E s \in Pending \cup Settled : step' = [step EXCEPT ![r][k] = s]
<1> USE DEF Pending, Settled
<1>1. ASSUME NEW v, NEW b, Counted(r, k, v, b)
      PROVE  \E s \in Pending \cup Settled : step' = [step EXCEPT ![r][k] = s]
  BY <1>1 DEF Counted, toDecision
<1>2. CASE LookupFound(r, k)
  BY <1>1, <1>2 DEF LookupFound
<1>3. CASE UpsertFound(r, k)
  BY <1>1, <1>3 DEF UpsertFound
<1>4. CASE Insert(r, k)
  BY <1>1, <1>4 DEF Insert
<1>5. CASE Recount(r, k)
  BY <1>1, <1>5 DEF Recount
<1>6. CASE LookupNone(r, k) \/ UpsertNone(r, k) \/ InsertDuplicate(r, k)
  BY <1>6 DEF LookupNone, UpsertNone, InsertDuplicate
<1>7. CASE OperationFails(r, k)
  BY <1>7 DEF OperationFails
<1> QED BY <1>2, <1>3, <1>4, <1>5, <1>6, <1>7 DEF ConsumeNext

\* What holds of one request is left alone by the steps of the others.
LEMMA AdmissionOfOne ==
    ASSUME TypeOK, AdmissionInv, NEW r \in Request, NEW q, NEW s,
           request' = [request EXCEPT ![r] = q], step' = [step EXCEPT ![r] = s],
           q.pc # "done" => q.answer = "none",
           q.pc = "check" => /\ \A k \in Key : s[k] \in {"unused", "queued"}
                             /\ \E k \in Key : s[k] = "queued",
           q.pc = "count" => /\ \A k \in Key : s[k] # "queued"
                             /\ \E k \in Key : s[k] # "unused",
           /\ q.pc = "handler" \/ q.answer \in {"ok", "400", "401"}
           /\ routeCategory(q.route) # "other"
           => /\ \A k \in Key : s[k] \in {"unused", "allowed"}
              /\ \E k \in Key : s[k] = "allowed"
    PROVE  AdmissionInv'
<1>1. request'[r] = q /\ step'[r] = s
  BY DEF TypeOK
<1>2. ASSUME NEW p \in Request, p # r
      PROVE  request'[p] = request[p] /\ step'[p] = step[p]
  BY <1>2 DEF TypeOK
<1> QED BY <1>1, <1>2 DEF AdmissionInv, Admitted, Through

\* The keys of an attempt wait when it arrives.
LEMMA QueueWaits ==
    ASSUME NEW keys, keys # {}, keys \subseteq Key
    PROVE  /\ \A k \in Key : Queue(keys)[k] \in {"unused", "queued"}
           /\ \E k \in Key : Queue(keys)[k] = "queued"
BY DEF Queue

\* The keys of a sign-in and of a refresh.
LEMMA AttemptKeys ==
    ASSUME NEW s \in Source
    PROVE  /\ \A id \in Identifier \cup {None} : \A body :
                 SignInKeys(s, id, body) # {} /\ SignInKeys(s, id, body) \subseteq Key
           /\ \A f \in Family \cup {None} :
                 RefreshKeys(s, f) # {} /\ RefreshKeys(s, f) \subseteq Key
<1>1. <<"sign-in-source", s>> \in Key /\ <<"refresh-source", s>> \in Key
  BY DEF Key
<1>2. ASSUME NEW id \in Identifier \cup {None}, NEW body
      PROVE  SignInKeys(s, id, body) # {} /\ SignInKeys(s, id, body) \subseteq Key
  <2>1. CASE id # None
    <3>1. <<"sign-in-identifier-failure", id>> \in Key
      BY <2>1 DEF Key
    <3> QED BY <1>1, <3>1 DEF SignInKeys
  <2>2. CASE id = None
    BY <1>1, <2>2 DEF SignInKeys
  <2> QED BY <2>1, <2>2
<1>3. ASSUME NEW f \in Family \cup {None}
      PROVE  RefreshKeys(s, f) # {} /\ RefreshKeys(s, f) \subseteq Key
  <2>1. CASE f # None
    <3>1. <<"refresh-family", f>> \in Key
      BY <2>1 DEF Key
    <3> QED BY <1>1, <3>1 DEF RefreshKeys
  <2>2. CASE f = None
    BY <1>1, <2>2 DEF RefreshKeys
  <2> QED BY <2>1, <2>2
<1> QED BY <1>2, <1>3

LEMMA ArriveAdmission ==
    ASSUME TypeInv, AdmissionInv, NEW r \in Request, NEW i \in Instance,
           NEW s \in Source,
           \/ \E route \in Route, id \in Identifier \cup {None}, body \in Body :
                 ArriveSignIn(r, i, route, s, id, body)
           \/ \E f \in Family \cup {None} : ArriveRefresh(r, i, s, f)
    PROVE  AdmissionInv'
<1> DEFINE Arrived(pc, route, body, id, at) ==
             [ pc |-> pc, phase |-> "guard", instance |-> i, route |-> route,
               body |-> body, identifier |-> id, at |-> at,
               answer |-> "none" ]
<1>0. TypeOK
  BY DEF TypeInv
<1>1. ASSUME NEW route \in Route, NEW id \in Identifier \cup {None},
             NEW body \in Body, ArriveSignIn(r, i, route, s, id, body)
      PROVE  AdmissionInv'
  <2>1. CASE routeCategory(route) = "other"
    <3> DEFINE q == Arrived("handler", route, body, None, 0)
    <3>1. request' = [request EXCEPT ![r] = q]
          /\ step' = [step EXCEPT ![r] = NoSteps]
      BY <1>1, <2>1 DEF ArriveSignIn, Idle
    <3>2. q.pc = "handler" /\ q.route = route /\ q.answer = "none"
      OBVIOUS
    <3> HIDE DEF q
    <3> QED BY <1>0, <2>1, <3>1, <3>2, AdmissionOfOne
  <2>2. CASE routeCategory(route) # "other"
    <3> DEFINE q == Arrived("check", route, body, id, now)
               keys == SignInKeys(s, id, body)
    <3>1. /\ request' = [request EXCEPT ![r] = q]
          /\ step' = [step EXCEPT ![r] = Queue(keys)]
      BY <1>1, <2>2 DEF ArriveSignIn, Idle
    <3>2. q.pc = "check" /\ q.answer = "none"
      OBVIOUS
    <3>3. keys # {} /\ keys \subseteq Key
      BY AttemptKeys
    <3> HIDE DEF q, keys
    <3>4. /\ \A k \in Key : Queue(keys)[k] \in {"unused", "queued"}
          /\ \E k \in Key : Queue(keys)[k] = "queued"
      BY <3>3, QueueWaits
    <3> QED BY <1>0, <3>1, <3>2, <3>4, AdmissionOfOne
  <2> QED BY <2>1, <2>2
<1>2. ASSUME NEW f \in Family \cup {None}, ArriveRefresh(r, i, s, f)
      PROVE  AdmissionInv'
  <2> DEFINE x == [ Idle EXCEPT !.pc = "check", !.instance = i,
                                !.route = "refresh" ]
             q == [ x EXCEPT !.at = now ]
             keys == RefreshKeys(s, f)
  <2>1. /\ request' = [request EXCEPT ![r] = q]
        /\ step' = [step EXCEPT ![r] = Queue(keys)]
    BY <1>2 DEF ArriveRefresh
  <2>2. "refresh" \in Route /\ now \in Nat
    BY <1>2 DEF ArriveRefresh, TypeInv, TypeOK
  <2>3. x \in RequestRec /\ x.pc = "check" /\ x.answer = "none"
    BY <2>2 DEF Idle, RequestRec
  <2> HIDE DEF x
  <2>4. q.pc = "check" /\ q.answer = "none"
    BY <2>2, <2>3 DEF RequestRec
  <2>5. keys # {} /\ keys \subseteq Key
    BY AttemptKeys
  <2> HIDE DEF q, keys
  <2>6. /\ \A k \in Key : Queue(keys)[k] \in {"unused", "queued"}
        /\ \E k \in Key : Queue(keys)[k] = "queued"
    BY <2>5, QueueWaits
  <2> QED BY <1>0, <2>1, <2>4, <2>6, AdmissionOfOne
<1> QED BY <1>1, <1>2

LEMMA CheckAdmission ==
    ASSUME TypeInv, AdmissionInv, NEW r \in Request, CheckKeys(r)
    PROVE  AdmissionInv'
<1> DEFINE x == [k \in Key |-> IF step[r][k] = "queued" THEN "lookup" ELSE step[r][k]]
<1>0. /\ TypeOK /\ request[r] \in RequestRec
      /\ request[r].pc = "check" /\ request[r].answer = "none"
      /\ \A k \in Key : step[r][k] \in {"unused", "queued"}
      /\ \E k \in Key : step[r][k] = "queued"
  BY DEF TypeInv, TypeOK, CheckKeys, AdmissionInv
<1>1. CASE request' = [request EXCEPT ![r].pc = "count"]
           /\ step' = [step EXCEPT ![r] = x]
  <2> DEFINE q == [request[r] EXCEPT !.pc = "count"]
  <2>1. request' = [request EXCEPT ![r] = q]
    BY <1>0, <1>1 DEF TypeOK
  <2>2. q.pc = "count" /\ q.answer = "none"
    BY <1>0 DEF RequestRec
  <2>3. /\ \A k \in Key : x[k] # "queued"
        /\ \E k \in Key : x[k] # "unused"
    BY <1>0
  <2> HIDE DEF q, x
  <2> QED BY <1>0, <1>1, <2>1, <2>2, <2>3, AdmissionOfOne
<1>2. CASE Refuse(r) /\ step' = [step EXCEPT ![r] = NoSteps]
  <2> DEFINE q == [request[r] EXCEPT !.pc = "done", !.answer = "429"]
  <2>1. request' = [request EXCEPT ![r] = q]
    BY <1>0, <1>2 DEF Refuse, TypeOK
  <2>2. q.pc = "done" /\ q.answer = "429"
    BY <1>0 DEF RequestRec
  <2> HIDE DEF q
  <2> QED BY <1>0, <1>2, <2>1, <2>2, AdmissionOfOne
<1>3. step' = [step EXCEPT ![r] = x] \/ step' = [step EXCEPT ![r] = NoSteps]
  BY DEF CheckKeys
<1> QED BY <1>1, <1>2 DEF CheckKeys, Refuse

\* A counted key is neither queued nor unused, and a request through the guard
\* has none under way.
LEMMA ConsumeAdmission ==
    ASSUME TypeInv, AdmissionInv, NEW r \in Request, NEW k \in Key,
           ConsumeNext(r, k)
    PROVE  AdmissionInv'
<1>0. TypeOK
  BY DEF TypeInv
<1>1. request' = request /\ step[r][k] \in Pending
  BY ConsumeMoves
<1>2. PICK s \in Pending \cup Settled : step' = [step EXCEPT ![r][k] = s]
  BY ConsumeMoves
<1>3. /\ step'[r][k] = s
      /\ \A p \in Request, j \in Key : p # r \/ j # k => step'[p][j] = step[p][j]
  BY <1>0, <1>2 DEF TypeOK
<1>4. s \notin {"unused", "queued"} /\ step[r][k] \notin {"unused", "queued", "allowed"}
  BY <1>1 DEF Pending, Settled
<1> QED BY <1>1, <1>3, <1>4 DEF AdmissionInv, Admitted, Through

LEMMA HandleAdmission ==
    ASSUME TypeInv, AdmissionInv, NEW r \in Request,
           \/ DecideAllow(r) \/ DecideRefuse(r)
           \/ HandlerRejects(r) \/ HandlerSucceeds(r) \/ HandlerFails(r)
    PROVE  AdmissionInv'
<1>0. /\ TypeOK /\ request[r] \in RequestRec /\ step[r] \in [Key -> Step]
      /\ request[r].pc \in {"count", "handler"} /\ request[r].answer = "none"
      /\ request[r].pc = "count" => \E k \in Key : step[r][k] # "unused"
      /\ request[r].pc = "handler" /\ routeCategory(request[r].route) # "other"
         => Admitted(r)
  BY DEF TypeInv, TypeOK, AdmissionInv, Through, DecideAllow, DecideRefuse,
     HandlerRejects, HandlerSucceeds, HandlerFails
<1>1. ASSUME NEW q, request' = [request EXCEPT ![r] = q], step' = step,
             q.pc \in {"handler", "done"}, q.pc = "handler" => q.answer = "none",
             /\ q.pc = "handler" \/ q.answer \in {"ok", "400", "401"}
             /\ routeCategory(q.route) # "other"
             => Admitted(r)
      PROVE  AdmissionInv'
  <2>1. step' = [step EXCEPT ![r] = step[r]]
    BY <1>0, <1>1 DEF TypeOK
  <2> DEFINE s == step[r]
  <2>2. /\ q.pc = "handler" \/ q.answer \in {"ok", "400", "401"}
        /\ routeCategory(q.route) # "other"
        => /\ \A k \in Key : s[k] \in {"unused", "allowed"}
           /\ \E k \in Key : s[k] = "allowed"
    BY <1>1 DEF Admitted
  <2> HIDE DEF s
  <2> QED BY <1>0, <1>1, <2>1, <2>2, AdmissionOfOne DEF s
<1>2. ASSUME NEW answer, answer = "429" \/ request[r].pc = "handler",
             step' = step,
             request' = [request EXCEPT ![r].pc = "done", ![r].answer = answer]
      PROVE  AdmissionInv'
  <2> DEFINE q == [request[r] EXCEPT !.pc = "done", !.answer = answer]
  <2>1. request' = [request EXCEPT ![r] = q]
    BY <1>0, <1>2 DEF TypeOK
  <2>2. q.pc = "done" /\ q.answer = answer /\ q.route = request[r].route
    BY <1>0 DEF RequestRec
  <2> HIDE DEF q
  <2> QED BY <1>0, <1>1, <1>2, <2>1, <2>2
<1>3. CASE DecideAllow(r)
  <2> DEFINE q == IF request[r].phase = "guard"
                  THEN [request[r] EXCEPT !.pc = "handler"]
                  ELSE [request[r] EXCEPT !.pc = "done", !.answer = "401"]
  <2>1. request' = [request EXCEPT ![r] = q] /\ step' = step
    BY <1>0, <1>3 DEF DecideAllow, TypeOK
  <2>2. q.pc \in {"handler", "done"} /\ (q.pc = "handler" => q.answer = "none")
    BY <1>0 DEF RequestRec
  <2>3. Admitted(r)
    BY <1>0, <1>3 DEF DecideAllow, Admitted
  <2> HIDE DEF q
  <2> QED BY <1>1, <2>1, <2>2, <2>3
<1>4. CASE DecideRefuse(r)
  BY <1>2, <1>4 DEF DecideRefuse, Refuse
<1>5. CASE HandlerRejects(r) \/ HandlerSucceeds(r)
  BY <1>2, <1>5 DEF HandlerRejects, HandlerSucceeds, Answer
<1>6. CASE HandlerFails(r) /\ request[r].identifier = None
  BY <1>2, <1>6 DEF HandlerFails, Answer
<1>7. CASE HandlerFails(r) /\ request[r].identifier # None
  <2> DEFINE x == [request[r] EXCEPT !.pc = "check", !.phase = "failure"]
             q == [x EXCEPT !.at = now]
             keys == {<<"sign-in-identifier-failure", request[r].identifier>>}
  <2>1. /\ request' = [request EXCEPT ![r] = q]
        /\ step' = [step EXCEPT ![r] = Queue(keys)]
    BY <1>0, <1>7 DEF HandlerFails, FailureKeys, TypeOK
  <2>2. q.pc = "check" /\ q.answer = "none"
    BY <1>0 DEF RequestRec
  <2>3. keys # {} /\ keys \subseteq Key
    BY <1>0, <1>7 DEF Key, RequestRec
  <2> HIDE DEF q, keys
  <2>4. /\ \A k \in Key : Queue(keys)[k] \in {"unused", "queued"}
        /\ \E k \in Key : Queue(keys)[k] = "queued"
    BY <2>3, QueueWaits
  <2> QED BY <1>0, <2>1, <2>2, <2>4, AdmissionOfOne
<1> QED BY <1>3, <1>4, <1>5, <1>6, <1>7

\* A restart loses what was under way in its instance, and answers nothing.
LEMMA RestartAdmission ==
    ASSUME TypeInv, AdmissionInv, NEW i \in Instance, NEW ring \in Keyring,
           Restart(i, ring)
    PROVE  AdmissionInv'
<1> SUFFICES ASSUME NEW r \in Request
             PROVE  /\ request'[r].pc # "done" => request'[r].answer = "none"
                    /\ request'[r].pc = "check" =>
                          /\ \A k \in Key : step'[r][k] \in {"unused", "queued"}
                          /\ \E k \in Key : step'[r][k] = "queued"
                    /\ request'[r].pc = "count" =>
                          /\ \A k \in Key : step'[r][k] # "queued"
                          /\ \E k \in Key : step'[r][k] # "unused"
                    /\ Through(r)' => Admitted(r)'
  BY DEF AdmissionInv
<1>0. request[r] \in RequestRec /\ step[r] \in [Key -> Step]
  BY DEF TypeInv, TypeOK
<1>1. CASE request[r].instance # i
  <2>1. request'[r] = request[r] /\ step'[r] = step[r]
    BY <1>1 DEF Restart
  <2> QED BY <2>1 DEF AdmissionInv, Through, Admitted
<1>2. CASE request[r].instance = i /\ request[r].pc # "done"
  <2>1. request'[r].pc = "done" /\ request'[r].answer = "lost"
    BY <1>0, <1>2 DEF Restart, RequestRec
  <2> QED BY <2>1 DEF Through
<1>3. CASE request[r].instance = i /\ request[r].pc = "done"
  <2>1. /\ request'[r] = request[r]
        /\ \A k \in Key : step'[r][k] = IF step[r][k] \in Pending \cup {"queued"}
                                        THEN "failed" ELSE step[r][k]
    BY <1>3 DEF Restart
  <2> QED BY <1>3, <2>1 DEF AdmissionInv, Through, Admitted, Pending
<1> QED BY <1>1, <1>2, <1>3

LEMMA NextAdmissionInv == TypeInv /\ AdmissionInv /\ [Next]_vars => AdmissionInv'
<1> SUFFICES ASSUME TypeInv, AdmissionInv, [Next]_vars PROVE AdmissionInv'
  OBVIOUS
<1>1. CASE \/ \E k \in Key, v \in Version : TtlDelete(k, v)
           \/ Tick \/ UNCHANGED vars
  BY <1>1 DEF TtlDelete, Tick, vars, AdmissionInv, Through, Admitted
<1> QED BY <1>1, ArriveAdmission, CheckAdmission, ConsumeAdmission, HandleAdmission,
           RestartAdmission DEF Next, RequestNext

\* A handler runs, and a failed sign-in is answered as such, only after every key
\* of the attempt was counted and admitted (consumeMany, canActivate and the
\* failure path of the sign-in handlers).
THEOREM GuardFailsClosed == Spec => []FailsClosed
<1>1. Init => AdmissionInv
  BY DEF Init, Idle, NoSteps, AdmissionInv, Through, Admitted
<1>2. AdmissionInv => FailsClosed
  BY DEF AdmissionInv, Through, Admitted, FailsClosed
<1> QED BY <1>1, <1>2, InitTypeInv, NextTypeInv, NextAdmissionInv, PTL DEF Spec

-----------------------------------------------------------------------------
(* The rotation of the secret.                                             *)

\* Time does not run backwards.
LEMMA Later ==
    ASSUME TypeInv, [Next]_vars
    PROVE  now <= now'
<1>0. now \in Nat
  BY DEF TypeInv, TypeOK
<1>1. ASSUME NEW r \in Request, RequestNext(r)
      PROVE  now' = now
  BY <1>1 DEF RequestNext, ArriveSignIn, ArriveRefresh, CheckKeys,
     DecideAllow, DecideRefuse, HandlerRejects, HandlerSucceeds, HandlerFails
<1>2. ASSUME NEW r \in Request, NEW k \in Key, ConsumeNext(r, k)
      PROVE  now' = now
  BY <1>2, ConsumeCases
<1>3. ASSUME NEW i \in Instance, NEW ring \in Keyring, Restart(i, ring)
      PROVE  now' = now
  BY <1>3 DEF Restart
<1>4. ASSUME NEW k \in Key, NEW v \in Version, TtlDelete(k, v)
      PROVE  now' = now
  BY <1>4 DEF TtlDelete
<1>5. CASE Tick
  BY <1>0, <1>5 DEF Tick
<1>6. CASE UNCHANGED vars
  BY <1>0, <1>6 DEF vars
<1> QED BY <1>0, <1>1, <1>2, <1>3, <1>4, <1>5, <1>6 DEF Next

\* What an attempt does that opens a window.
Opens(r, k, v) ==
    /\ step[r][k] \in {"upsert", "insert"}
    /\ v = Ring(r).current
    /\ opened'[k][v] = [ by |-> Attempt(r), beside |-> UnderWay ]
    /\ \A w \in Version : w # v => bucket'[k][w] = bucket[k][w]
    /\ UNCHANGED <<now, request>>

\* A bucket that is live after a step was live before it, and keeps its
\* history, or was opened by the step under the current version of the
\* attempt.
LEMMA LiveBefore ==
    ASSUME TypeInv, [Next]_vars, NEW k \in Key, NEW v \in Version,
           LiveAt(bucket[k][v], now)'
    PROVE  \/ /\ LiveAt(bucket[k][v], now)
              /\ opened'[k][v] = opened[k][v]
           \/ /\ ~LiveAt(bucket[k][v], now)
              /\ \E r \in Request : Opens(r, k, v)
<1>1. /\ bucket[k][v].expiresAt \in Nat /\ now \in Nat /\ now' \in Nat
      /\ now <= now' /\ TypeOK
  BY NextTypeInv, Later DEF TypeInv, TypeOK
<1>2. bucket'[k][v].expiresAt = bucket[k][v].expiresAt =>
         LiveAt(bucket[k][v], now)
  BY <1>1 DEF LiveAt
<1>3. ASSUME NEW r \in Request, NEW k2 \in Key, NEW x \in Version,
             CountsLive(r, k2, x)
      PROVE  /\ LiveAt(bucket[k][v], now)
             /\ opened'[k][v] = opened[k][v]
  <2> DEFINE b == Increment(bucket[k2][x])
  <2>1. bucket[k2][x] \in BucketDoc
    BY <1>1 DEF TypeOK, BucketDoc
  <2>2. b \in BucketDoc /\ b.expiresAt = bucket[k2][x].expiresAt
    BY <2>1 DEF Increment, BucketDoc
  <2>3. Counted(r, k2, x, b)
    BY <1>3 DEF CountsLive
  <2> HIDE DEF b
  <2>4. bucket'[k][v] = bucket[k][v] \/ (k2 = k /\ x = v /\ bucket'[k][v] = b)
    BY <1>1, <2>2, <2>3, CountedFrame
  <2>5. opened'[k][v] = opened[k][v]
    BY <1>1, <2>2, <2>3, CountedHistory
  <2> QED BY <1>2, <2>2, <2>4, <2>5
<1>4. ASSUME NEW r \in Request, NEW k2 \in Key, OpensWindow(r, k2),
             UNCHANGED <<now, request>>
      PROVE  \/ /\ LiveAt(bucket[k][v], now)
                /\ opened'[k][v] = opened[k][v]
             \/ /\ ~LiveAt(bucket[k][v], now)
                /\ Opens(r, k, v)
  <2> DEFINE b == NewWindow(k2, request[r].at)
             x == Ring(r).current
  <2>1. /\ x \in Version /\ bucket[k2][x] \in BucketDoc
        /\ request[r].at \in Nat /\ request[r].at <= now
    BY <1>4 DEF OpensWindow, TypeInv, TypeOK, RequestInv, BucketDoc,
       RequestRec, Pending
  <2>2. b \in BucketDoc /\ b.expiresAt > request[r].at
    BY <2>1, KeyDimension DEF NewWindow, BucketDoc
  <2>3. /\ Counted(r, k2, x, b) /\ step[r][k2] \in {"upsert", "insert"}
        /\ ~LiveAt(bucket[k2][x], request[r].at)
    BY <1>4 DEF OpensWindow
  <2>4. /\ b.expiresAt # bucket[k2][x].expiresAt
        /\ ~LiveAt(bucket[k2][x], now)
    BY <1>1, <2>1, <2>2, <2>3 DEF LiveAt, BucketDoc
  <2> HIDE DEF b, x
  <2>5. CASE k2 # k \/ x # v
    <3>1. bucket'[k][v] = bucket[k][v]
      BY <1>1, <2>1, <2>2, <2>3, <2>5, CountedFrame
    <3>2. opened'[k][v] = opened[k][v]
      BY <1>1, <2>1, <2>2, <2>3, <2>5, CountedHistory
    <3> QED BY <1>2, <3>1, <3>2
  <2>6. CASE k2 = k /\ x = v
    <3>1. \A w \in Version : w # v => bucket'[k][w] = bucket[k][w]
      BY <1>1, <2>1, <2>2, <2>3, <2>6, CountedFrame
    <3>2. opened'[k][v] = [ by |-> Attempt(r), beside |-> UnderWay ]
      BY <1>1, <2>1, <2>2, <2>3, <2>4, <2>6, CountedOpened
    <3> QED BY <1>4, <2>3, <2>4, <2>6, <3>1, <3>2 DEF Opens, x
  <2> QED BY <2>5, <2>6
<1>5. ASSUME NEW r \in Request, NEW k2 \in Key, ConsumeNext(r, k2)
      PROVE  \/ /\ LiveAt(bucket[k][v], now)
                /\ opened'[k][v] = opened[k][v]
             \/ /\ ~LiveAt(bucket[k][v], now)
                /\ Opens(r, k, v)
  <2>1. CASE CountsNothing(r, k2)
    BY <1>2, <2>1 DEF CountsNothing
  <2> QED BY <1>3, <1>4, <1>5, <2>1, ConsumeCases
<1>6. ASSUME NEW k2 \in Key, NEW v2 \in Version, TtlDelete(k2, v2)
      PROVE  LiveAt(bucket[k][v], now) /\ opened'[k][v] = opened[k][v]
  <2>1. CASE k2 = k /\ v2 = v
    <3>1. bucket'[k][v].expiresAt = 0
      BY <1>6, <2>1 DEF TtlDelete, NoBucket, TypeInv, TypeOK
    <3> QED BY <1>1, <3>1 DEF LiveAt
  <2>2. CASE k2 # k \/ v2 # v
    BY <1>2, <1>6, <2>2 DEF TtlDelete, TypeInv, TypeOK
  <2> QED BY <2>1, <2>2
<1>7. CASE UNCHANGED <<bucket, grants, opened>>
  BY <1>2, <1>7
<1> QED BY <1>5, <1>6, <1>7, Writers

\* A request stays in its instance after it arrived.
LEMMA InstanceKept ==
    ASSUME TypeInv, NEW r \in Request, NEW r2 \in Request,
           \/ CheckKeys(r) \/ DecideAllow(r) \/ DecideRefuse(r)
           \/ HandlerRejects(r) \/ HandlerSucceeds(r) \/ HandlerFails(r)
    PROVE  request'[r2].instance = request[r2].instance
<1>1. request \in [Request -> RequestRec]
  BY DEF TypeInv, TypeOK
<1>2. ASSUME NEW answer, Answer(r, answer)
      PROVE  request'[r2].instance = request[r2].instance
  BY <1>1, <1>2 DEF Answer, RequestRec
<1>3. ASSUME Refuse(r)
      PROVE  request'[r2].instance = request[r2].instance
  BY <1>1, <1>3 DEF Refuse, RequestRec
<1>4. CASE CheckKeys(r)
  <2>1. Refuse(r) \/ request' = [request EXCEPT ![r].pc = "count"]
    BY <1>4 DEF CheckKeys
  <2>2. CASE request' = [request EXCEPT ![r].pc = "count"]
    BY <1>1, <2>2 DEF RequestRec
  <2> QED BY <1>3, <2>1, <2>2
<1>5. CASE DecideAllow(r)
  <2>1. \/ request' = [request EXCEPT ![r].pc = "handler"]
        \/ request' = [request EXCEPT ![r].pc = "done", ![r].answer = "401"]
    BY <1>1, <1>5 DEF DecideAllow
  <2> QED BY <1>1, <2>1 DEF RequestRec
<1>6. CASE DecideRefuse(r)
  BY <1>3, <1>6 DEF DecideRefuse
<1>7. CASE HandlerRejects(r) \/ HandlerSucceeds(r)
  BY <1>2, <1>7 DEF HandlerRejects, HandlerSucceeds
<1>8. CASE HandlerFails(r)
  <2>1. \/ Answer(r, "401")
        \/ request' = [request EXCEPT ![r].pc = "check", ![r].phase = "failure",
                                      ![r].at = now]
    BY <1>8 DEF HandlerFails
  <2>2. CASE request' = [request EXCEPT ![r].pc = "check",
                                        ![r].phase = "failure", ![r].at = now]
    BY <1>1, <2>2 DEF RequestRec
  <2> QED BY <1>2, <2>1, <2>2
<1> QED BY <1>4, <1>5, <1>6, <1>7, <1>8

\* How a step becomes pending, and that its attempt keeps its configuration.
LEMMA PendingBefore ==
    ASSUME TypeInv, [Next]_vars, NEW r \in Request, NEW k \in Key,
           (step[r][k] \in Pending)'
    PROVE  /\ Ring(r)' = Ring(r)
           /\ \/ step[r][k] \in Pending
              \/ CheckKeys(r) /\ step'[r][k] = "lookup"
           /\ step'[r][k] \in {"upsert", "insert", "recount"} =>
                 \/ step[r][k] \in {"upsert", "insert", "recount"}
                 \/ ConsumeNext(r, k) /\ Candidates(r, k) = {}
<1> DEFINE Goal == /\ Ring(r)' = Ring(r)
                   /\ \/ step[r][k] \in Pending
                      \/ CheckKeys(r) /\ step'[r][k] = "lookup"
                   /\ step'[r][k] \in {"upsert", "insert", "recount"} =>
                         \/ step[r][k] \in {"upsert", "insert", "recount"}
                         \/ ConsumeNext(r, k) /\ Candidates(r, k) = {}
<1>0. /\ request \in [Request -> RequestRec]
      /\ step \in [Request -> [Key -> Step]]
      /\ keyring \in [Instance -> Keyring]
  BY DEF TypeInv, TypeOK
<1>1. ASSUME keyring' = keyring, request'[r].instance = request[r].instance,
             step'[r][k] = step[r][k]
      PROVE  Goal
  BY <1>1 DEF Ring
<1>2. ASSUME NEW r2 \in Request, NEW i \in Instance, NEW s \in Source,
             NEW route \in Route, NEW id \in Identifier \cup {None},
             NEW body \in Body, ArriveSignIn(r2, i, route, s, id, body)
      PROVE  Goal
  <2>1. \E q, x : /\ request' = [request EXCEPT ![r2] = q]
                  /\ step' = [step EXCEPT ![r2] = x]
                  /\ x \in [Key -> Step] /\ \A y \in Key : x[y] \notin Pending
    BY <1>2, QueueSteps DEF ArriveSignIn, NoSteps, Step, Pending
  <2>2. r2 # r
    BY <1>0, <2>1
  <2>3. keyring' = keyring
    BY <1>2 DEF ArriveSignIn
  <2> QED BY <1>0, <1>1, <2>1, <2>2, <2>3
<1>3. ASSUME NEW r2 \in Request, NEW i \in Instance, NEW s \in Source,
             NEW f \in Family \cup {None}, ArriveRefresh(r2, i, s, f)
      PROVE  Goal
  <2>1. r2 # r
    BY <1>0, <1>3, QueueSteps DEF ArriveRefresh
  <2> QED BY <1>0, <1>1, <1>3, <2>1 DEF ArriveRefresh
<1>4. ASSUME NEW r2 \in Request, CheckKeys(r2)
      PROVE  Goal
  <2>1. keyring' = keyring /\ request'[r].instance = request[r].instance
    BY <1>4, InstanceKept DEF CheckKeys
  <2>2. CASE r2 # r
    <3>1. step'[r][k] = step[r][k]
      BY <1>0, <1>4, <2>2 DEF CheckKeys
    <3> QED BY <1>1, <2>1, <3>1
  <2>3. CASE r2 = r
    <3>1. step'[r][k] = "lookup" \/ step'[r][k] = step[r][k]
      BY <1>0, <1>4, <2>3 DEF CheckKeys, NoSteps, Pending
    <3> QED BY <1>1, <1>4, <2>1, <2>3, <3>1 DEF Ring
  <2> QED BY <2>2, <2>3
<1>5. ASSUME NEW r2 \in Request,
             \/ DecideAllow(r2) \/ DecideRefuse(r2)
             \/ HandlerRejects(r2) \/ HandlerSucceeds(r2)
      PROVE  Goal
  <2>1. keyring' = keyring /\ step' = step
    BY <1>5 DEF DecideAllow, DecideRefuse, HandlerRejects, HandlerSucceeds,
       Answer
  <2>2. request'[r].instance = request[r].instance
    BY <1>5, InstanceKept
  <2> QED BY <1>1, <2>1, <2>2
<1>6. ASSUME NEW r2 \in Request, HandlerFails(r2)
      PROVE  Goal
  <2>1. keyring' = keyring
    BY <1>6 DEF HandlerFails
  <2>2. request'[r].instance = request[r].instance
    BY <1>6, InstanceKept
  <2>3. step'[r][k] = step[r][k]
    BY <1>0, <1>6, QueueSteps DEF HandlerFails, Answer
  <2> QED BY <1>1, <2>1, <2>2, <2>3
<1>7. ASSUME NEW r2 \in Request, NEW k2 \in Key, ConsumeNext(r2, k2)
      PROVE  Goal
  <2>1. /\ step[r2][k2] \in Pending
        /\ keyring' = keyring /\ request' = request
    BY <1>7, ConsumeCases
  <2>2. ASSUME NEW v \in Version, NEW b \in BucketDoc, Counted(r2, k2, v, b)
        PROVE  step'[r][k] = step[r][k]
    <3>1. TypeOK
      BY DEF TypeInv
    <3> QED BY <2>2, <3>1, CountedFrame DEF Pending
  <2>3. ASSUME NEW v \in Version, CountsLive(r2, k2, v)
        PROVE  step'[r][k] = step[r][k]
    <3>1. bucket[k2][v] \in BucketDoc
      BY DEF TypeInv, TypeOK, BucketDoc
    <3>2. Increment(bucket[k2][v]) \in BucketDoc
      BY <3>1 DEF Increment, BucketDoc
    <3> QED BY <2>2, <2>3, <3>2 DEF CountsLive
  <2>4. ASSUME OpensWindow(r2, k2)
        PROVE  step'[r][k] = step[r][k]
    <3>1. Ring(r2).current \in Version
      BY <2>1 DEF TypeInv, RequestInv
    <3>2. NewWindow(k2, request[r2].at) \in BucketDoc
      BY <1>0, KeyDimension DEF NewWindow, BucketDoc, RequestRec
    <3> QED BY <2>2, <2>4, <3>1, <3>2 DEF OpensWindow
  <2>5. CASE CountsNothing(r2, k2)
    <3>1. PICK x \in Step : step' = [step EXCEPT ![r2][k2] = x]
      BY <2>5 DEF CountsNothing
    <3>2. CASE r2 = r /\ k2 = k
      BY <1>7, <2>1, <2>5, <3>2 DEF CountsNothing, Ring
    <3>3. CASE r2 # r \/ k2 # k
      <4>1. step'[r][k] = step[r][k]
        BY <1>0, <3>1, <3>3
      <4> QED BY <1>1, <2>1, <4>1
    <3> QED BY <3>2, <3>3
  <2> QED BY <1>1, <1>7, <2>1, <2>3, <2>4, <2>5, ConsumeCases
<1>8. ASSUME NEW i \in Instance, NEW ring \in Keyring, Restart(i, ring)
      PROVE  Goal
  <2>1. step[r][k] \in Pending /\ request[r].instance # i
    BY <1>8, RestartType
  <2>2. request[r].instance \in Instance
    BY <2>1 DEF TypeInv, RequestInv
  <2>3. request'[r] = request[r] \/ request'[r].instance = request[r].instance
    BY <1>0, <1>8 DEF Restart, RequestRec
  <2>4. step'[r][k] = step[r][k]
    BY <1>8, <2>1 DEF Restart
  <2>5. Ring(r)' = Ring(r)
    BY <1>0, <1>8, <2>1, <2>2, <2>3 DEF Restart, Ring
  <2> QED BY <2>1, <2>4, <2>5
<1>9. ASSUME \/ \E k2 \in Key, v \in Version : TtlDelete(k2, v)
             \/ Tick \/ UNCHANGED vars
      PROVE  Goal
  BY <1>1, <1>9 DEF TtlDelete, Tick, vars
<1> QED BY <1>2, <1>3, <1>4, <1>5, <1>6, <1>7, <1>8, <1>9 DEF Next, RequestNext

\* How an attempt may go on.
Proceeds(r) ==
    /\ request'[r].instance = request[r].instance
    /\ request'[r].phase = request[r].phase
    /\ request'[r].pc \in {"count", "handler", "done"}
    /\ request'[r].pc = "handler" =>
          /\ request[r].phase = "guard"
          /\ \A k \in Key : step'[r][k] \notin Pending

CountsAgain(r) ==
    /\ request[r].pc = "handler"
    /\ request'[r].instance = request[r].instance
    /\ request'[r].pc = "check"
    /\ request'[r].phase = "failure"

Starts(r) ==
    /\ request[r].pc = "idle"
    /\ request'[r].pc = "handler" => request'[r].phase = "guard"

\* A step leaves a request alone, starts it, moves its attempt on or lets a
\* failed sign-in be counted once more.
LEMMA AttemptMoves ==
    ASSUME TypeInv, [Next]_vars, NEW r \in Request
    PROVE  \/ request'[r] = request[r]
           \/ Starts(r) \/ Proceeds(r) \/ CountsAgain(r)
<1> DEFINE Goal == \/ request'[r] = request[r]
                   \/ Starts(r) \/ Proceeds(r) \/ CountsAgain(r)
<1>0. /\ request \in [Request -> RequestRec]
      /\ step \in [Request -> [Key -> Step]]
  BY DEF TypeInv, TypeOK
<1>1. ASSUME NEW r2 \in Request, request[r2].pc = "idle", NEW q,
             request' = [request EXCEPT ![r2] = q],
             q.pc = "handler" => q.phase = "guard"
      PROVE  Goal
  <2>1. CASE r2 = r
    BY <1>0, <1>1, <2>1 DEF Starts
  <2>2. CASE r2 # r
    BY <1>0, <1>1, <2>2
  <2> QED BY <2>1, <2>2
<1>10. ASSUME NEW r2 \in Request, NEW i \in Instance, NEW s \in Source,
              NEW route \in Route, NEW id \in Identifier \cup {None},
              NEW body \in Body, ArriveSignIn(r2, i, route, s, id, body)
       PROVE  Goal
  <2> DEFINE Arrived(pc, x, at) ==
               [ pc |-> pc, phase |-> "guard", instance |-> i,
                 route |-> route, body |-> body, identifier |-> x,
                 at |-> at, answer |-> "none" ]
             q == Arrived("handler", None, 0)
             q2 == Arrived("check", id, now)
  <2>1. \/ request' = [request EXCEPT ![r2] = q]
        \/ request' = [request EXCEPT ![r2] = q2]
    BY <1>10 DEF ArriveSignIn, Idle
  <2>2. q.phase = "guard" /\ q2.phase = "guard" /\ request[r2].pc = "idle"
    BY <1>10 DEF ArriveSignIn
  <2> HIDE DEF q, q2
  <2> QED BY <1>1, <2>1, <2>2
<1>11. ASSUME NEW r2 \in Request, NEW i \in Instance, NEW s \in Source,
              NEW f \in Family \cup {None}, ArriveRefresh(r2, i, s, f)
       PROVE  Goal
  <2> DEFINE x == [ Idle EXCEPT !.pc = "check", !.instance = i,
                                !.route = "refresh" ]
             q == [ x EXCEPT !.at = now ]
  <2>1. request' = [request EXCEPT ![r2] = q] /\ request[r2].pc = "idle"
    BY <1>11 DEF ArriveRefresh
  <2>2. "refresh" \in Route /\ now \in Nat
    BY <1>11 DEF ArriveRefresh, TypeInv, TypeOK
  <2>3. x \in RequestRec /\ x.pc = "check"
    BY <2>2 DEF Idle, RequestRec
  <2> HIDE DEF x
  <2>4. q.pc = "check"
    BY <2>2, <2>3 DEF RequestRec
  <2> HIDE DEF q
  <2> QED BY <1>1, <2>1, <2>4
<1>2. ASSUME NEW r2 \in Request, NEW answer,
             request' = [request EXCEPT ![r2].pc = "done",
                                        ![r2].answer = answer]
      PROVE  Goal
  BY <1>0, <1>2 DEF Proceeds, RequestRec
<1>3. ASSUME NEW r2 \in Request, CheckKeys(r2)
      PROVE  Goal
  <2>1. Refuse(r2) \/ request' = [request EXCEPT ![r2].pc = "count"]
    BY <1>3 DEF CheckKeys
  <2>2. CASE request' = [request EXCEPT ![r2].pc = "count"]
    BY <1>0, <2>2 DEF Proceeds, RequestRec
  <2> QED BY <1>2, <2>1, <2>2 DEF Refuse
<1>4. ASSUME NEW r2 \in Request, DecideAllow(r2)
      PROVE  Goal
  <2>1. \/ /\ request' = [request EXCEPT ![r2].pc = "handler"]
           /\ request[r2].phase = "guard"
        \/ request' = [request EXCEPT ![r2].pc = "done", ![r2].answer = "401"]
    BY <1>0, <1>4 DEF DecideAllow
  <2>2. CASE /\ request' = [request EXCEPT ![r2].pc = "handler"]
             /\ request[r2].phase = "guard"
    <3>1. \A k \in Key : step'[r2][k] \notin Pending
      BY <1>4 DEF DecideAllow, Pending
    <3> QED BY <1>0, <2>2, <3>1 DEF Proceeds, RequestRec
  <2> QED BY <1>2, <2>1, <2>2
<1>5. ASSUME NEW r2 \in Request,
             DecideRefuse(r2) \/ HandlerRejects(r2) \/ HandlerSucceeds(r2)
      PROVE  Goal
  BY <1>2, <1>5 DEF DecideRefuse, Refuse, HandlerRejects, HandlerSucceeds,
     Answer
<1>6. ASSUME NEW r2 \in Request, HandlerFails(r2)
      PROVE  Goal
  <2>1. \/ Answer(r2, "401")
        \/ request' = [request EXCEPT ![r2].pc = "check",
                         ![r2].phase = "failure", ![r2].at = now]
    BY <1>6 DEF HandlerFails
  <2>2. CASE request' = [request EXCEPT ![r2].pc = "check",
                           ![r2].phase = "failure", ![r2].at = now]
    BY <1>0, <1>6, <2>2 DEF HandlerFails, CountsAgain, RequestRec
  <2> QED BY <1>2, <2>1, <2>2 DEF Answer
<1>7. ASSUME NEW r2 \in Request, NEW k \in Key, ConsumeNext(r2, k)
      PROVE  Goal
  BY <1>7, ConsumeMoves
<1>8. ASSUME NEW i \in Instance, NEW ring \in Keyring, Restart(i, ring)
      PROVE  Goal
  BY <1>0, <1>8 DEF Restart, Proceeds, RequestRec
<1>9. ASSUME \/ \E k \in Key, v \in Version : TtlDelete(k, v)
             \/ Tick \/ UNCHANGED vars
      PROVE  Goal
  BY <1>9 DEF TtlDelete, Tick, vars
<1> QED BY <1>3, <1>4, <1>5, <1>6, <1>7, <1>8, <1>9, <1>10, <1>11
    DEF Next, RequestNext

\* Behind the guard nothing is counted until a sign-in fails, and an attempt
\* counts only after its check of the secrets.
ProgressInv ==
    \A r \in Request :
        /\ request[r].pc = "handler" => request[r].phase = "guard"
        /\ Counting(r) => request[r].pc \in {"count", "done"}

LEMMA NextProgressInv ==
    TypeInv /\ ProgressInv /\ [Next]_vars => ProgressInv'
<1> SUFFICES ASSUME TypeInv, ProgressInv, [Next]_vars, NEW r \in Request
             PROVE  /\ request'[r].pc = "handler" =>
                          request'[r].phase = "guard"
                    /\ Counting(r)' => request'[r].pc \in {"count", "done"}
  BY DEF ProgressInv
<1>1. request'[r].pc = "handler" => request'[r].phase = "guard"
  BY AttemptMoves DEF ProgressInv, Starts, Proceeds, CountsAgain
<1>2. ASSUME NEW k \in Key, (step[r][k] \in Pending)'
      PROVE  request'[r].pc \in {"count", "done"}
  <2>1. CASE step[r][k] \in Pending
    <3>1. request[r].pc \in {"count", "done"}
      BY <2>1 DEF ProgressInv, Counting
    <3> QED BY <1>2, <3>1, AttemptMoves
         DEF Starts, Proceeds, CountsAgain
  <2>2. CASE CheckKeys(r)
    <3>0. request \in [Request -> RequestRec]
      BY DEF TypeInv, TypeOK
    <3>1. Refuse(r) \/ request' = [request EXCEPT ![r].pc = "count"]
      BY <2>2 DEF CheckKeys
    <3> QED BY <3>0, <3>1 DEF Refuse, RequestRec
  <2> QED BY <1>2, <2>1, <2>2, PendingBefore
<1> QED BY <1>1, <1>2 DEF Counting

\* An attempt that goes on counting is the same attempt, of the same instance.
LEMMA SameAttempt ==
    ASSUME TypeInv, ProgressInv, [Next]_vars, NEW r \in Request,
           Counting(r)
    PROVE  /\ request'[r].phase = request[r].phase
           /\ request'[r].instance = request[r].instance
BY AttemptMoves DEF ProgressInv, Starts, Proceeds, CountsAgain

\* An attempt that counts after a step counted before it, in the same
\* configuration, or has just been checked.
LEMMA CountingBefore ==
    ASSUME TypeInv, ProgressInv, [Next]_vars, NEW r \in Request, Counting(r)'
    PROVE  /\ Ring(r)' = Ring(r)
           /\ \/ /\ Counting(r)
                 /\ Attempt(r)' = Attempt(r)
                 /\ request'[r].instance = request[r].instance
              \/ /\ CheckKeys(r)
                 /\ hasEveryReferencedKey(Ring(r), request[r].at)
<1>1. PICK k \in Key : (step[r][k] \in Pending)'
  BY DEF Counting
<1>2. CASE step[r][k] \in Pending
  <2>1. Counting(r)
    BY <1>2 DEF Counting
  <2> QED BY <1>1, <2>1, PendingBefore, SameAttempt DEF Attempt
<1>3. CASE CheckKeys(r) /\ step[r][k] \notin Pending
  <2>1. CASE ~hasEveryReferencedKey(Ring(r), request[r].at)
    BY <1>1, <1>3, <2>1
       DEF CheckKeys, Ring, NoSteps, TypeInv, TypeOK, Pending
  <2> QED BY <1>1, <1>3, <2>1, PendingBefore
<1> QED BY <1>1, <1>2, <1>3, PendingBefore

\* A window that runs was opened by an attempt that had started.
OpenerInv ==
    \A k \in Key, v \in Version : LiveAt(bucket[k][v], now) =>
        /\ opened[k][v].by \in Attempts
        /\ request[opened[k][v].by[1]].pc # "idle"

\* An attempt that counted when a window was opened is past its check, and
\* the failure path is counted after the guard.
BesideInv ==
    \A k \in Key, v \in Version, r \in Request, p \in {"guard", "failure"} :
        LiveAt(bucket[k][v], now) /\ <<r, p>> \in opened[k][v].beside =>
            /\ request[r].pc # "idle"
            /\ request[r].phase = p => request[r].pc # "check"
            /\ request[r].phase = "guard" => p = "guard"

\* An attempt that found no bucket to count in was under way when any window
\* of its key that runs was opened.
WaitingInv ==
    \A r \in Request, k \in Key, w \in Version :
        /\ step[r][k] \in {"upsert", "insert", "recount"}
        /\ LiveAt(bucket[k][w], now)
        => Attempt(r) \in opened[k][w].beside

\* A window that the instance of an attempt opened meanwhile has the current
\* version of the attempt: a restart would have ended it.
SameRingInv ==
    \A r \in Request, k \in Key, w \in Version :
        /\ Counting(r)
        /\ LiveAt(bucket[k][w], now)
        /\ Attempt(r) \in opened[k][w].beside
        /\ request[opened[k][w].by[1]].instance = request[r].instance
        => w = Ring(r).current

RotationInv ==
    /\ ProgressInv /\ OpenerInv /\ BesideInv
    /\ MissingKeyRefuses /\ WaitingInv /\ SameRingInv /\ OneLiveWindow

\* An attempt that opens a window is under way, and so is everyone who counts.
LEMMA OpensBeside ==
    ASSUME TypeInv, NEW r \in Request, NEW k \in Key, NEW v \in Version,
           Opens(r, k, v)
    PROVE  /\ Counting(r)
           /\ Attempt(r) \in Attempts
           /\ opened'[k][v].by = Attempt(r)
           /\ opened'[k][v].by[1] = r
           /\ opened'[k][v].beside = UnderWay
           /\ \A r2 \in Request : Counting(r2) => Attempt(r2) \in UnderWay
<1>1. Counting(r)
  BY DEF Opens, Counting, Pending
<1>2. Attempt(r) \in Attempts
  BY DEF Attempt, Attempts, TypeInv, TypeOK, RequestRec
<1>3. /\ opened'[k][v].by = Attempt(r)
      /\ opened'[k][v].by[1] = r
      /\ opened'[k][v].beside = UnderWay
  BY DEF Opens, Attempt
<1>4. \A r2 \in Request : Counting(r2) => Attempt(r2) \in UnderWay
  BY DEF UnderWay
<1> QED BY <1>1, <1>2, <1>3, <1>4

\* The members of UnderWay are attempts that count, in their present phase.
LEMMA UnderWayCounts ==
    ASSUME NEW r \in Request, NEW p, <<r, p>> \in UnderWay
    PROVE  Counting(r) /\ request[r].phase = p
BY DEF UnderWay, Attempt

\* A bucket that runs was running when an earlier moment was captured.
LEMMA LiveEarlier ==
    ASSUME TypeInv, NEW r \in Request, NEW k \in Key, NEW v \in Version,
           LiveAt(bucket[k][v], now)
    PROVE  LiveAt(bucket[k][v], request[r].at)
BY DEF LiveAt, TypeInv, TypeOK, RequestInv, RequestRec

LEMMA NextOpenerInv ==
    ASSUME TypeInv, RotationInv, [Next]_vars
    PROVE  OpenerInv'
<1> SUFFICES ASSUME NEW k \in Key, NEW v \in Version,
                    LiveAt(bucket[k][v], now)'
             PROVE  /\ opened'[k][v].by \in Attempts
                    /\ request'[opened'[k][v].by[1]].pc # "idle"
  BY DEF OpenerInv
<1>1. CASE LiveAt(bucket[k][v], now) /\ opened'[k][v] = opened[k][v]
  <2>1. /\ opened[k][v].by \in Attempts
        /\ request[opened[k][v].by[1]].pc # "idle"
    BY <1>1 DEF RotationInv, OpenerInv
  <2>2. opened[k][v].by[1] \in Request
    BY <2>1 DEF Attempts
  <2> QED BY <1>1, <2>1, <2>2, AttemptMoves DEF Starts, Proceeds, CountsAgain
<1>2. ASSUME NEW r \in Request, Opens(r, k, v)
      PROVE  /\ opened'[k][v].by \in Attempts
             /\ request'[opened'[k][v].by[1]].pc # "idle"
  <2>1. request[r].pc \in {"count", "done"} /\ request' = request
    BY <1>2, OpensBeside DEF RotationInv, ProgressInv, Opens
  <2> QED BY <1>2, <2>1, OpensBeside
<1> QED BY <1>1, <1>2, LiveBefore

LEMMA NextBesideInv ==
    ASSUME TypeInv, RotationInv, [Next]_vars
    PROVE  BesideInv'
<1> SUFFICES ASSUME NEW k \in Key, NEW v \in Version, NEW r \in Request,
                    NEW p \in {"guard", "failure"},
                    LiveAt(bucket[k][v], now)',
                    <<r, p>> \in opened'[k][v].beside
             PROVE  /\ request'[r].pc # "idle"
                    /\ request'[r].phase = p => request'[r].pc # "check"
                    /\ request'[r].phase = "guard" => p = "guard"
  BY DEF BesideInv
<1>1. CASE LiveAt(bucket[k][v], now) /\ opened'[k][v] = opened[k][v]
  <2>1. /\ request[r].pc # "idle"
        /\ request[r].phase = p => request[r].pc # "check"
        /\ request[r].phase = "guard" => p = "guard"
    BY <1>1 DEF RotationInv, BesideInv
  <2>2. request[r].pc = "handler" => request[r].phase = "guard"
    BY DEF RotationInv, ProgressInv
  <2> QED BY <2>1, <2>2, AttemptMoves DEF Starts, Proceeds, CountsAgain
<1>2. ASSUME NEW r2 \in Request, Opens(r2, k, v)
      PROVE  /\ request'[r].pc # "idle"
             /\ request'[r].phase = p => request'[r].pc # "check"
             /\ request'[r].phase = "guard" => p = "guard"
  <2>1. <<r, p>> \in UnderWay /\ request' = request
    BY <1>2, OpensBeside DEF Opens
  <2>2. request[r].pc \in {"count", "done"} /\ request[r].phase = p
    BY <2>1, UnderWayCounts DEF RotationInv, ProgressInv
  <2> QED BY <2>1, <2>2
<1> QED BY <1>1, <1>2, LiveBefore

LEMMA NextMissingKey ==
    ASSUME TypeInv, RotationInv, [Next]_vars
    PROVE  MissingKeyRefuses'
<1> SUFFICES ASSUME NEW r \in Request, Counting(r)',
                    NEW k \in Key, NEW v \in Version,
                    LiveAt(bucket[k][v], now)'
             PROVE  \/ v \in Versions(Ring(r)')
                    \/ Attempt(r)' \in opened'[k][v].beside
  BY DEF MissingKeyRefuses, Versions
<1>0. ProgressInv
  BY DEF RotationInv
<1>1. CASE /\ CheckKeys(r)
           /\ hasEveryReferencedKey(Ring(r), request[r].at)
  <2>1. UNCHANGED <<bucket, now>>
    BY <1>1 DEF CheckKeys
  <2>2. LiveAt(bucket[k][v], now)
    BY <2>1
  <2>3. LiveAt(bucket[k][v], request[r].at)
    BY <2>2, LiveEarlier
  <2>4. v \in Versions(Ring(r))
    BY <1>1, <2>3 DEF hasEveryReferencedKey, RequiredVersions
  <2> QED BY <1>0, <2>4, CountingBefore
<1>2. CASE Counting(r) /\ Attempt(r)' = Attempt(r)
  <2>1. CASE LiveAt(bucket[k][v], now) /\ opened'[k][v] = opened[k][v]
    <3>1. \/ v \in Versions(Ring(r))
          \/ Attempt(r) \in opened[k][v].beside
      BY <1>2, <2>1 DEF RotationInv, MissingKeyRefuses
    <3>2. Ring(r)' = Ring(r)
      BY <1>0, CountingBefore
    <3> QED BY <1>2, <2>1, <3>1, <3>2
  <2>2. ASSUME NEW r2 \in Request, Opens(r2, k, v)
        PROVE  Attempt(r)' \in opened'[k][v].beside
    BY <1>2, <2>2, OpensBeside
  <2> QED BY <2>1, <2>2, LiveBefore
<1> QED BY <1>0, <1>1, <1>2, CountingBefore

LEMMA NextWaitingInv ==
    ASSUME TypeInv, RotationInv, [Next]_vars
    PROVE  WaitingInv'
<1> SUFFICES ASSUME NEW r \in Request, NEW k \in Key, NEW w \in Version,
                    (step[r][k] \in {"upsert", "insert", "recount"})',
                    LiveAt(bucket[k][w], now)'
             PROVE  Attempt(r)' \in opened'[k][w].beside
  BY DEF WaitingInv
<1>1. /\ step[r][k] \in Pending
      /\ \/ step[r][k] \in {"upsert", "insert", "recount"}
         \/ ConsumeNext(r, k) /\ Candidates(r, k) = {}
      /\ Ring(r)' = Ring(r)
  BY PendingBefore DEF Pending
<1>2. Counting(r) /\ Attempt(r)' = Attempt(r)
  <2>1. Counting(r) /\ ProgressInv
    BY <1>1 DEF Counting, RotationInv
  <2> QED BY <2>1, SameAttempt DEF Attempt
<1>3. ASSUME NEW r2 \in Request, Opens(r2, k, w)
      PROVE  Attempt(r)' \in opened'[k][w].beside
  BY <1>2, <1>3, OpensBeside
<1>4. CASE LiveAt(bucket[k][w], now) /\ opened'[k][w] = opened[k][w]
  <2>1. CASE step[r][k] \in {"upsert", "insert", "recount"}
    BY <1>2, <1>4, <2>1 DEF RotationInv, WaitingInv
  <2>2. CASE Candidates(r, k) = {}
    <3>1. LiveAt(bucket[k][w], request[r].at)
      BY <1>4, LiveEarlier
    <3>2. w \notin Versions(Ring(r))
      BY <2>2, <3>1 DEF Candidates
    <3> QED BY <1>2, <1>4, <3>2 DEF RotationInv, MissingKeyRefuses
  <2> QED BY <1>1, <2>1, <2>2
<1> QED BY <1>3, <1>4, LiveBefore

LEMMA NextSameRingInv ==
    ASSUME TypeInv, RotationInv, [Next]_vars
    PROVE  SameRingInv'
<1> SUFFICES ASSUME NEW r \in Request, NEW k \in Key, NEW w \in Version,
                    Counting(r)', LiveAt(bucket[k][w], now)',
                    Attempt(r)' \in opened'[k][w].beside,
                    request'[opened'[k][w].by[1]].instance
                      = request'[r].instance
             PROVE  w = Ring(r)'.current
  BY DEF SameRingInv
<1>0. ProgressInv /\ Ring(r)' = Ring(r)
  BY CountingBefore DEF RotationInv
<1>1. CASE LiveAt(bucket[k][w], now) /\ opened'[k][w] = opened[k][w]
  <2> DEFINE o == opened[k][w].by[1]
  <2>1. o \in Request /\ request[o].pc # "idle"
    BY <1>1 DEF RotationInv, OpenerInv, Attempts
  <2>2. request'[o].instance = request[o].instance
    BY <2>1, AttemptMoves DEF Starts, Proceeds, CountsAgain
  <2>3. CASE /\ Counting(r)
             /\ Attempt(r)' = Attempt(r)
             /\ request'[r].instance = request[r].instance
    BY <1>0, <1>1, <2>2, <2>3 DEF RotationInv, SameRingInv
  <2>4. CASE CheckKeys(r)
    <3>1. /\ request[r].pc = "check"
          /\ request[r].phase \in {"guard", "failure"}
      BY <2>4 DEF CheckKeys, TypeInv, TypeOK, RequestRec
    <3>2. request'[r].phase = request[r].phase
      BY <3>1, AttemptMoves DEF Starts, Proceeds, CountsAgain
    <3>3. <<r, request[r].phase>> \in opened[k][w].beside
      BY <1>1, <3>2 DEF Attempt
    <3> QED BY <1>1, <3>1, <3>3 DEF RotationInv, BesideInv
  <2> QED BY <1>0, <2>3, <2>4, CountingBefore
<1>2. ASSUME NEW r2 \in Request, Opens(r2, k, w)
      PROVE  w = Ring(r)'.current
  <2>1. request' = request /\ w = Ring(r2).current
    BY <1>2 DEF Opens
  <2>2. request[r2].instance = request[r].instance
    BY <1>2, <2>1, OpensBeside
  <2> QED BY <1>0, <2>1, <2>2 DEF Ring
<1> QED BY <1>1, <1>2, LiveBefore

LEMMA NextOneLiveWindow ==
    ASSUME TypeInv, RotationInv, [Next]_vars
    PROVE  OneLiveWindow'
<1> DEFINE Apart(k, v, w) ==
             LET p == opened[k][v]
                 q == opened[k][w] IN
             /\ p.by \in q.beside \/ q.by \in p.beside
             /\ request[p.by[1]].instance # request[q.by[1]].instance
<1> SUFFICES ASSUME NEW k \in Key, NEW v \in Version, NEW w \in Version,
                    LiveAt(bucket[k][v], now)', LiveAt(bucket[k][w], now)',
                    v # w
             PROVE  Apart(k, v, w)'
  BY DEF OneLiveWindow
\* One window is opened beside one that runs.
<1>1. ASSUME NEW x \in Version, NEW y \in Version, x # y,
             NEW r \in Request, Opens(r, k, x), LiveAt(bucket[k][y], now)'
      PROVE  Apart(k, x, y)'
  <2>1. UNCHANGED <<now, request>> /\ bucket'[k][y] = bucket[k][y]
    BY <1>1 DEF Opens
  <2>2. LiveAt(bucket[k][y], now)
    BY <1>1, <2>1 DEF LiveAt
  <2>3. opened'[k][y] = opened[k][y]
    BY <1>1, <2>2, LiveBefore
  <2>4. /\ Attempt(r) \in opened[k][y].beside
        /\ Counting(r) /\ x = Ring(r).current
    BY <1>1, <2>2, OpensBeside DEF Opens, RotationInv, WaitingInv
  <2>5. request[opened[k][y].by[1]].instance # request[r].instance
    BY <1>1, <2>2, <2>4 DEF RotationInv, SameRingInv
  <2>6. opened'[k][x].by = Attempt(r) /\ opened'[k][x].by[1] = r
    BY <1>1, OpensBeside
  <2> QED BY <2>1, <2>3, <2>4, <2>5, <2>6
<1>2. CASE /\ LiveAt(bucket[k][v], now) /\ opened'[k][v] = opened[k][v]
           /\ LiveAt(bucket[k][w], now) /\ opened'[k][w] = opened[k][w]
  <2>1. Apart(k, v, w)
    BY <1>2 DEF RotationInv, OneLiveWindow
  <2>2. ASSUME NEW x \in Version, LiveAt(bucket[k][x], now)
        PROVE  request'[opened[k][x].by[1]].instance
                 = request[opened[k][x].by[1]].instance
    <3>1. /\ opened[k][x].by[1] \in Request
          /\ request[opened[k][x].by[1]].pc # "idle"
      BY <2>2 DEF RotationInv, OpenerInv, Attempts
    <3> QED BY <3>1, AttemptMoves DEF Starts, Proceeds, CountsAgain
  <2>3. /\ request'[opened[k][v].by[1]].instance
             = request[opened[k][v].by[1]].instance
        /\ request'[opened[k][w].by[1]].instance
             = request[opened[k][w].by[1]].instance
    BY <1>2, <2>2
  <2> QED BY <1>2, <2>1, <2>3
<1> QED BY <1>1, <1>2, LiveBefore

\* Nothing runs at the start.
LEMMA InitRotationInv == Init => RotationInv
<1> SUFFICES ASSUME Init
             PROVE  RotationInv
  OBVIOUS
<1>1. \A r \in Request : ~Counting(r)
  BY DEF Init, NoSteps, Counting, Pending
<1>2. \A k \in Key, v \in Version : ~LiveAt(bucket[k][v], now)
  BY DEF Init, NoBucket, LiveAt
<1>3. \A r \in Request : request[r].pc = "idle"
  BY DEF Init, Idle
<1> QED BY <1>1, <1>2, <1>3
     DEF RotationInv, ProgressInv, OpenerInv, BesideInv, MissingKeyRefuses,
         WaitingInv, SameRingInv, OneLiveWindow

LEMMA NextRotationInv ==
    TypeInv /\ RotationInv /\ [Next]_vars => RotationInv'
<1> SUFFICES ASSUME TypeInv, RotationInv, [Next]_vars
             PROVE  RotationInv'
  OBVIOUS
<1>1. ProgressInv'
  BY NextProgressInv DEF RotationInv
<1> QED BY <1>1, NextOpenerInv, NextBesideInv, NextMissingKey,
           NextWaitingInv, NextSameRingInv, NextOneLiveWindow
    DEF RotationInv

\* A key has a second unexpired bucket only when two attempts of different
\* instances overlapped, whatever secret versions the instances are started
\* with and however they are restarted: no instance opens one alone.
THEOREM RotationKeepsWindow == Spec => []OneLiveWindow
<1>1. RotationInv => OneLiveWindow
  BY DEF RotationInv
<1> QED BY <1>1, InitTypeInv, NextTypeInv, InitRotationInv, NextRotationInv,
           PTL DEF Spec

\* An instance without the secret of an unexpired bucket does not count: all
\* its attempts are refused, except those that were past their check when
\* another instance opened the bucket.
THEOREM RemovalRefuses == Spec => []MissingKeyRefuses
<1>1. RotationInv => MissingKeyRefuses
  BY DEF RotationInv
<1> QED BY <1>1, InitTypeInv, NextTypeInv, InitRotationInv, NextRotationInv,
           PTL DEF Spec

=============================================================================
