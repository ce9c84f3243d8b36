------------------------- MODULE TokenSessionProofs -------------------------
(***************************************************************************)
(* Proofs about TokenSession, for every number of families, requests,      *)
(* instances, tokens, failures and clock ticks.                            *)
(*                                                                         *)
(* TypeOK alone is not inductive: whether a handler stores a hash and a    *)
(* family id, rather than an unset field, depends on how far it has come.  *)
(* Refs states that; TypeInv is the inductive conjunction.                 *)
(***************************************************************************)
EXTENDS TokenSession, TLAPS

DeliveredRefs ==
    /\ delivered \subseteq 1 .. tokenCount
    /\ \A t \in delivered : owner[t] \in Family

MarkerRefs ==
    \A h \in TokenHash :
        marker[h].status # "absent" => marker[h].familyId \in Family

RequestRefs ==
    \A r \in Request :
        /\ request[r].pc # "idle" =>
              /\ request[r].token \in delivered
              /\ request[r].next \in 1 .. tokenCount
        /\ request[r].pc \notin {"idle", "findMarker", "findFamily"} =>
              request[r].familyId \in Family
        /\ request[r].pc = "commit" => owner[request[r].next] \in Family

TypeInv == TypeOK /\ DeliveredRefs /\ MarkerRefs /\ RequestRefs

-----------------------------------------------------------------------------
(* Types of the documents and of the database operations *)

\* The unset documents and the resting handlers are well typed.
LEMMA RestingTypes ==
    /\ NoMarkerDoc \in MarkerDoc
    /\ IdleRequest \in RequestState
    /\ IdleReconciler \in ReconcilerState
    /\ \A status \in {"absent", "deleted"} : NoFamilyDoc(status) \in FamilyDoc
<1>1. NoMarkerDoc \in MarkerDoc
  BY DEF NoMarkerDoc, MarkerDoc, Absent
<1>2. IdleRequest \in RequestState
  BY <1>1, BoundsAssumption DEF IdleRequest, RequestState, RequestPc, Absent
<1>3. IdleReconciler \in ReconcilerState
  BY <1>1 DEF IdleReconciler, ReconcilerState
<1>4. \A status \in {"absent", "deleted"} : NoFamilyDoc(status) \in FamilyDoc
  BY DEF NoFamilyDoc, FamilyDoc, Absent
<1> QED BY <1>1, <1>2, <1>3, <1>4

\* A revocation keeps the collection of families well typed.
LEMMA RevokeType ==
    ASSUME family \in [Family -> FamilyDoc], NEW F,
           NEW status \in {"revoked", "replayed"}, Revoke(F, status)
    PROVE  family' \in [Family -> FamilyDoc]
BY DEF Revoke, FamilyDoc

\* Committing a marker keeps the collection of markers well typed and every
\* marker attached to its family.
LEMMA CommitMarkerType ==
    ASSUME marker \in [TokenHash -> MarkerDoc], MarkerRefs, NEW h, NEW op,
           CommitMarker(h, op)
    PROVE  marker' \in [TokenHash -> MarkerDoc] /\ MarkerRefs'
<1>1. CASE Commits(h, op)
  <2>1. \A g \in TokenHash :
           /\ marker'[g] = IF g = h
                 THEN [marker[g] EXCEPT !.status = "committed",
                                        !.leaseExpiresAt = Absent]
                 ELSE marker[g]
    BY <1>1 DEF CommitMarker, MarkerDoc
  <2>2. marker' \in [TokenHash -> MarkerDoc]
    BY <1>1 DEF CommitMarker, MarkerDoc, Absent
  <2>3. \A g \in TokenHash : /\ marker'[g].familyId = marker[g].familyId
                             /\ marker'[g].status # "absent" =>
                                   marker[g].status # "absent"
    BY <1>1, <2>1 DEF MarkerDoc, Commits
  <2> QED BY <2>2, <2>3 DEF MarkerRefs
<1>2. CASE ~Commits(h, op)
  BY <1>2 DEF CommitMarker, MarkerRefs
<1> QED BY <1>1, <1>2

\* Moving a handler on, or ending it, keeps its record well typed.
LEMMA StepType ==
    ASSUME request \in [Request -> RequestState], NEW r \in Request
    PROVE  /\ \A pc \in RequestPc : Step(r, pc) =>
                 request' \in [Request -> RequestState]
           /\ Finish(r) => request' \in [Request -> RequestState]
<1>1. ASSUME NEW pc \in RequestPc, Step(r, pc)
      PROVE  request' \in [Request -> RequestState]
  BY <1>1 DEF Step, RequestState
<1>2. ASSUME Finish(r)
      PROVE  request' \in [Request -> RequestState]
  BY <1>2, RestingTypes DEF Finish
<1> QED BY <1>1, <1>2

\* Advancing the program counter alone.
LEMMA StepRefs ==
    ASSUME TypeOK, RequestRefs, UNCHANGED <<tokenCount, delivered, owner>>,
           NEW r \in Request, NEW pc \in RequestPc \ {"commit"}, Step(r, pc),
           request[r].pc # "idle",
           \/ request[r].pc \notin {"findMarker", "findFamily"}
           \/ pc \in {"findMarker", "findFamily"}
    PROVE  RequestRefs' /\ request' \in [Request -> RequestState]
<1>1. /\ \A x \in Request \ {r} : request'[x] = request[x]
      /\ request'[r] = [request[r] EXCEPT !.pc = pc]
  BY DEF Step, TypeOK
<1>2. /\ request'[r].token = request[r].token
      /\ request'[r].next = request[r].next
      /\ request'[r].familyId = request[r].familyId
      /\ request'[r].pc = pc
  BY <1>1 DEF TypeOK, RequestState
<1>3. RequestRefs'
  BY <1>1, <1>2 DEF RequestRefs
<1> QED BY <1>3, StepType DEF TypeOK

\* Ending the call.
LEMMA FinishRefs ==
    ASSUME TypeOK, RequestRefs, NEW r \in Request, Finish(r),
           delivered \subseteq delivered', tokenCount' = tokenCount,
           owner' = owner
    PROVE  RequestRefs' /\ request' \in [Request -> RequestState]
<1>1. /\ \A x \in Request \ {r} : request'[x] = request[x]
      /\ request'[r] = IdleRequest
  BY DEF Finish, TypeOK
<1>2. request'[r].pc = "idle"
  BY <1>1 DEF IdleRequest
<1>3. RequestRefs'
  BY <1>1, <1>2 DEF RequestRefs
<1> QED BY <1>3, StepType DEF TypeOK

\* Entering handleExistingMarker with a marker of the collection.
LEMMA HandleRefs ==
    ASSUME TypeOK, RequestRefs, MarkerRefs,
           UNCHANGED <<tokenCount, delivered, owner>>,
           NEW r \in Request, NEW h \in TokenHash, marker[h].status # "absent",
           request[r].pc # "idle", HandleExistingMarker(r, marker[h])
    PROVE  RequestRefs' /\ request' \in [Request -> RequestState]
<1> DEFINE m == marker[h]
<1>1. /\ m \in MarkerDoc /\ request[r] \in RequestState
      /\ m.familyId \in Family
  BY DEF TypeOK, MarkerRefs
<1>2. /\ \A x \in Request \ {r} : request'[x] = request[x]
      /\ request'[r] = [request[r] EXCEPT
            !.pc = IF m.status = "committed" THEN "revokeReplay"
                                             ELSE "readOwner",
            !.seen = m, !.familyId = m.familyId,
            !.operationId = m.rotationOperationId]
  BY DEF HandleExistingMarker, TypeOK
<1>3. m.rotationOperationId \in Nat /\ m.familyId \in Family \cup {None}
  BY <1>1 DEF MarkerDoc
<1>4. /\ request'[r].token = request[r].token
      /\ request'[r].next = request[r].next
      /\ request'[r].familyId = m.familyId
      /\ request'[r].pc \in {"revokeReplay", "readOwner"}
      /\ request'[r] \in RequestState
  BY <1>1, <1>2, <1>3 DEF RequestState, RequestPc
<1>5. RequestRefs'
  BY <1>1, <1>2, <1>4 DEF RequestRefs
<1>6. request' \in [Request -> RequestState]
  BY <1>2, <1>4 DEF HandleExistingMarker, TypeOK
<1> QED BY <1>5, <1>6

-----------------------------------------------------------------------------
(* Every action preserves TypeInv *)

\* Looking the marker up, at first and after a lost race, keeps the types.
LEMMA FindMarkerType ==
    ASSUME TypeInv, NEW r \in Request, FindMarker(r) \/ RacedMarker(r)
    PROVE  TypeInv'
<1> DEFINE h == Hash[request[r].token]
<1>1. UNCHANGED <<family, marker, tokenCount, operationCount, owner, delivered,
                  exchanges, signedOut, reconciler, now, faults>>
  BY DEF FindMarker, RacedMarker, Rest, db, ids, history
<1>2. request[r].pc \in {"findMarker", "racedMarker"}
  BY DEF FindMarker, RacedMarker
<1>3. h \in TokenHash
  BY <1>2, HashAssumption DEF TypeInv, TypeOK, RequestRefs, Token
<1>4. RequestRefs' /\ request' \in [Request -> RequestState]
  <2>1. CASE marker[h].status # "absent"
    <3>1. HandleExistingMarker(r, marker[h])
      BY <2>1 DEF FindMarker, RacedMarker
    <3> QED BY <1>1, <1>2, <1>3, <2>1, <3>1, HandleRefs DEF TypeInv
  <2>2. CASE marker[h].status = "absent" /\ FindMarker(r)
    <3>1. Step(r, "findFamily")
      BY <2>2 DEF FindMarker
    <3> QED BY <1>1, <1>2, <3>1, StepRefs DEF TypeInv, RequestPc
  <2>3. CASE marker[h].status = "absent" /\ RacedMarker(r)
    <3>1. Finish(r)
      BY <2>3 DEF RacedMarker
    <3> QED BY <1>1, <3>1, FinishRefs DEF TypeInv
  <2> QED BY <2>1, <2>2, <2>3
<1> QED BY <1>1, <1>4 DEF TypeInv, TypeOK, DeliveredRefs, MarkerRefs

\* The family a request finds is one that exists.
LEMMA FindFamilyType ==
    ASSUME TypeInv, NEW r \in Request, FindFamily(r)
    PROVE  TypeInv'
<1>1. UNCHANGED <<family, marker, tokenCount, operationCount, owner, delivered,
                  exchanges, signedOut, reconciler, now, faults>>
  BY DEF FindFamily, Rest, db, ids, history
<1>2. RequestRefs' /\ request' \in [Request -> RequestState]
  <2>1. CASE Finish(r)
    BY <1>1, <2>1, FinishRefs DEF TypeInv
  <2>2. CASE \E f \in Family :
                request' = [request EXCEPT ![r].pc = "createMarker",
                                           ![r].familyId = f]
    <3>1. PICK f \in Family :
             request' = [request EXCEPT ![r].pc = "createMarker",
                                        ![r].familyId = f]
      BY <2>2
    <3>2. /\ \A x \in Request \ {r} : request'[x] = request[x]
          /\ request'[r] = [request[r] EXCEPT !.pc = "createMarker",
                                              !.familyId = f]
      BY <3>1 DEF TypeInv, TypeOK
    <3>3. /\ request'[r].token = request[r].token
          /\ request'[r].next = request[r].next
          /\ request'[r].familyId = f
          /\ request'[r].pc = "createMarker"
          /\ request'[r] \in RequestState
      BY <3>2 DEF TypeInv, TypeOK, RequestState, RequestPc
    <3>4. request[r].pc = "findFamily"
      BY DEF FindFamily
    <3>5. RequestRefs'
      BY <1>1, <3>2, <3>3, <3>4 DEF TypeInv, RequestRefs
    <3>6. request' \in [Request -> RequestState]
      BY <3>1, <3>3 DEF TypeInv, TypeOK
    <3> QED BY <3>5, <3>6
  <2> QED BY <2>1, <2>2 DEF FindFamily
<1> QED BY <1>1, <1>2 DEF TypeInv, TypeOK, DeliveredRefs, MarkerRefs

\* A handler that has a marker of its own goes on to the compare-and-swap.
LEMMA OwnMarkerRefs ==
    ASSUME TypeOK, RequestRefs, UNCHANGED <<tokenCount, delivered, owner>>,
           NEW operationId \in Nat, NEW r \in Request,
           request[r].pc \in {"createMarker", "takeOver"},
           OwnMarker(r, operationId)
    PROVE  RequestRefs' /\ request' \in [Request -> RequestState]
<1>1. /\ \A x \in Request \ {r} : request'[x] = request[x]
      /\ request'[r] = [request[r] EXCEPT !.pc = "cas",
                                          !.operationId = operationId]
  BY DEF TypeOK, OwnMarker
<1>2. /\ request'[r].token = request[r].token
      /\ request'[r].next = request[r].next
      /\ request'[r].familyId = request[r].familyId
      /\ request'[r].pc = "cas"
      /\ request'[r] \in RequestState
  BY <1>1 DEF TypeOK, RequestState, RequestPc
<1>3. RequestRefs'
  BY <1>1, <1>2 DEF RequestRefs
<1>4. request' \in [Request -> RequestState]
  BY <1>2 DEF TypeOK, OwnMarker
<1> QED BY <1>3, <1>4

\* Inserting the marker under a fresh operation id keeps the types.
LEMMA CreateMarkerType ==
    ASSUME TypeInv, NEW r \in Request, CreateMarker(r)
    PROVE  TypeInv'
<1> DEFINE q == request[r]
           h == Hash[q.token]
<1>1. UNCHANGED <<family, tokenCount, owner, delivered, exchanges, signedOut,
                  reconciler, now, faults>>
  BY DEF CreateMarker, Rest, history
<1>2. /\ q.pc = "createMarker" /\ h \in TokenHash /\ q.familyId \in Family
      /\ q.at \in Nat /\ family[q.familyId].expiresAt \in Nat
      /\ operationCount \in Nat
  <2>1. q.pc = "createMarker" /\ q \in RequestState
    BY DEF CreateMarker, TypeInv, TypeOK
  <2>2. q.token \in Token /\ q.familyId \in Family
    BY <2>1 DEF TypeInv, TypeOK, RequestRefs
  <2>3. family[q.familyId] \in FamilyDoc
    BY <2>2 DEF TypeInv, TypeOK
  <2> QED BY <2>1, <2>2, <2>3, HashAssumption
          DEF RequestState, FamilyDoc, TypeInv, TypeOK
<1>3. CASE marker[h].status = "absent"
  <2> DEFINE doc == [ status |-> "pending", tokenHash |-> h,
                      familyId |-> q.familyId,
                      rotationOperationId |-> operationCount + 1,
                      leaseExpiresAt |-> q.at + RotationLease,
                      expiresAt |-> family[q.familyId].expiresAt ]
  <2>1. /\ operationCount' = operationCount + 1
        /\ marker' = [marker EXCEPT ![h] = doc]
        /\ OwnMarker(r, operationCount + 1)
    BY <1>3 DEF CreateMarker, MarkerExpiry
  <2>2. doc \in MarkerDoc
    BY <1>2, BoundsAssumption DEF MarkerDoc
  <2>3. marker' \in [TokenHash -> MarkerDoc] /\ MarkerRefs'
    BY <1>2, <2>1, <2>2 DEF TypeInv, TypeOK, MarkerRefs
  <2>4. RequestRefs' /\ request' \in [Request -> RequestState]
    <3>1. operationCount + 1 \in Nat
      BY <1>2
    <3> QED BY <1>1, <1>2, <2>1, <3>1, OwnMarkerRefs DEF TypeInv
  <2> QED BY <1>1, <1>2, <2>1, <2>3, <2>4 DEF TypeInv, TypeOK, DeliveredRefs
<1>4. CASE marker[h].status # "absent"
  <2>1. Step(r, "racedMarker") /\ UNCHANGED <<marker, operationCount>>
    BY <1>4 DEF CreateMarker
  <2>2. RequestRefs' /\ request' \in [Request -> RequestState]
    BY <1>1, <1>2, <2>1, StepRefs DEF TypeInv, RequestPc
  <2> QED BY <1>1, <2>1, <2>2 DEF TypeInv, TypeOK, DeliveredRefs, MarkerRefs
<1> QED BY <1>3, <1>4

\* The operations that only read: ReadOwner and Recover.
LEMMA ReadType ==
    ASSUME TypeInv, NEW r \in Request, ReadOwner(r) \/ Recover(r)
    PROVE  TypeInv'
<1>1. UNCHANGED <<family, marker, tokenCount, operationCount, owner, delivered,
                  exchanges, signedOut, reconciler, now, faults>>
  BY DEF ReadOwner, Recover, Rest, db, ids, history
<1>2. request[r].pc \in {"readOwner", "recover"}
  BY DEF ReadOwner, Recover
<1>3. Step(r, "finalizeCommit") \/ Step(r, "takeOver") \/ Finish(r)
  BY DEF ReadOwner, Recover
<1>4. RequestRefs' /\ request' \in [Request -> RequestState]
  BY <1>1, <1>2, <1>3, StepRefs, FinishRefs DEF TypeInv, RequestPc
<1> QED BY <1>1, <1>4 DEF TypeInv, TypeOK, DeliveredRefs, MarkerRefs

\* Taking an expired lease over changes the marker within its type.
LEMMA TakeOverType ==
    ASSUME TypeInv, NEW r \in Request, TakeOver(r)
    PROVE  TypeInv'
<1> DEFINE q == request[r]
           h == q.seen.tokenHash
<1>1. UNCHANGED <<family, tokenCount, owner, delivered, exchanges, signedOut,
                  reconciler, now, faults>>
  BY DEF TakeOver, Rest, history
<1>2. q.pc = "takeOver" /\ q.at \in Nat /\ operationCount \in Nat
  BY DEF TakeOver, TypeInv, TypeOK, RequestState
<1>3. CASE Finish(r) /\ UNCHANGED <<marker, operationCount>>
  <2>1. RequestRefs' /\ request' \in [Request -> RequestState]
    BY <1>1, <1>3, FinishRefs DEF TypeInv
  <2> QED BY <1>1, <1>3, <2>1 DEF TypeInv, TypeOK, DeliveredRefs, MarkerRefs
<1>4. CASE ~(Finish(r) /\ UNCHANGED <<marker, operationCount>>)
  <2> DEFINE doc(g) == [marker[g] EXCEPT
                           !.rotationOperationId = operationCount + 1,
                           !.leaseExpiresAt = q.at + RotationLease]
  <2>1. /\ operationCount' = operationCount + 1
        /\ marker' = [marker EXCEPT
              ![h].rotationOperationId = operationCount + 1,
              ![h].leaseExpiresAt = q.at + RotationLease]
        /\ OwnMarker(r, operationCount + 1)
    BY <1>4 DEF TakeOver
  <2>2. \A g \in TokenHash :
           marker'[g] = IF g = h THEN doc(g) ELSE marker[g]
    BY <2>1 DEF TypeInv, TypeOK
  <2>3. operationCount + 1 \in Nat /\ q.at + RotationLease \in Nat
    BY <1>2, BoundsAssumption
  <2>4. \A g \in TokenHash : /\ doc(g) \in MarkerDoc
                             /\ doc(g).status = marker[g].status
                             /\ doc(g).familyId = marker[g].familyId
    BY <2>3 DEF TypeInv, TypeOK, MarkerDoc
  <2>5. marker' \in [TokenHash -> MarkerDoc]
    <3>1. marker' = [g \in TokenHash |-> marker'[g]]
      BY <2>1 DEF TypeInv, TypeOK
    <3> HIDE DEF doc
    <3> QED BY <2>2, <2>4, <3>1 DEF TypeInv, TypeOK
  <2>6. MarkerRefs'
    <3> HIDE DEF doc
    <3> QED BY <2>2, <2>4 DEF TypeInv, MarkerRefs
  <2>7. RequestRefs' /\ request' \in [Request -> RequestState]
    BY <1>1, <1>2, <2>1, <2>3, OwnMarkerRefs DEF TypeInv
  <2> QED BY <1>1, <2>1, <2>3, <2>5, <2>6, <2>7
          DEF TypeInv, TypeOK, DeliveredRefs
<1> QED BY <1>3, <1>4

\* The tokens a running handler works on have been generated.
LEMMA IssuedTokens ==
    ASSUME TypeInv
    PROVE  /\ 1 .. tokenCount \subseteq Token
           /\ \A r \in Request : request[r].pc # "idle" =>
                 request[r].token \in Token /\ request[r].next \in Token
<1>1. 1 .. tokenCount \subseteq Token
  BY BoundsAssumption DEF TypeInv, TypeOK, Token
<1> QED BY <1>1 DEF TypeInv, TypeOK, RequestRefs

\* The effect of the compare-and-swap on types, for a handler that goes on to
\* the commit or to the recovery.
LEMMA SwapTokenRefs ==
    ASSUME TypeInv, NEW r \in Request, request[r].pc = "cas", SwapToken(r),
           NEW pc \in {"commit", "recover"}, Step(r, pc),
           UNCHANGED <<tokenCount, delivered>>
    PROVE  /\ family' \in [Family -> FamilyDoc]
           /\ owner' \in [Token -> Family \cup {None}]
           /\ request' \in [Request -> RequestState]
           /\ DeliveredRefs' /\ RequestRefs'
<1> DEFINE q == request[r]
<1>1. /\ q \in RequestState /\ q.familyId \in Family /\ q.next \in Token
      /\ q.operationId \in Nat
  BY IssuedTokens DEF TypeInv, TypeOK, RequestRefs, RequestState
<1>2. family' \in [Family -> FamilyDoc]
  <2>1. Hash[q.next] \in TokenHash
    BY <1>1, HashAssumption
  <2> QED BY <1>1, <2>1 DEF SwapToken, TypeInv, TypeOK, FamilyDoc
<1>3. /\ owner' = [owner EXCEPT ![q.next] = q.familyId]
      /\ owner' \in [Token -> Family \cup {None}]
      /\ owner'[q.next] \in Family
      /\ \A t \in Token : owner[t] \in Family => owner'[t] \in Family
  BY <1>1 DEF SwapToken, TypeInv, TypeOK
<1>4. /\ \A x \in Request \ {r} : request'[x] = request[x]
      /\ request'[r].token = q.token /\ request'[r].next = q.next
      /\ request'[r].familyId = q.familyId /\ request'[r].pc = pc
  BY DEF Step, TypeInv, TypeOK, RequestState
<1>5. request' \in [Request -> RequestState]
  BY StepType DEF TypeInv, TypeOK, RequestPc
<1>6. DeliveredRefs'
  BY <1>3 DEF TypeInv, TypeOK, DeliveredRefs, Token
<1>7. \A x \in Request : request[x].pc = "commit" => request[x].next \in Token
  BY IssuedTokens
<1>8. RequestRefs'
  BY <1>1, <1>3, <1>4, <1>7 DEF TypeInv, RequestRefs
<1> QED BY <1>2, <1>3, <1>5, <1>6, <1>8

\* The compare-and-swap stores a hash and an operation id.
LEMMA CasType ==
    ASSUME TypeInv, NEW r \in Request, Cas(r)
    PROVE  TypeInv'
<1>1. /\ UNCHANGED <<marker, tokenCount, operationCount, delivered, exchanges,
                     signedOut, reconciler, now, faults>>
      /\ request[r].pc = "cas"
  BY DEF Cas, Rest, ids
<1>2. CASE SwapToken(r) /\ Step(r, "commit")
  BY <1>1, <1>2, SwapTokenRefs DEF TypeInv, TypeOK, MarkerRefs
<1>3. CASE Step(r, "finalizeCommit") /\ UNCHANGED <<family, owner>>
  <2>1. RequestRefs' /\ request' \in [Request -> RequestState]
    BY <1>1, <1>3, StepRefs DEF TypeInv, RequestPc
  <2> QED BY <1>1, <1>3, <2>1 DEF TypeInv, TypeOK, DeliveredRefs, MarkerRefs
<1> QED BY <1>2, <1>3 DEF Cas

\* Committing the marker delivers a token that was generated.
LEMMA CommitType ==
    ASSUME TypeInv, NEW r \in Request, Commit(r)
    PROVE  TypeInv'
<1> DEFINE q == request[r]
<1>1. /\ UNCHANGED <<family, tokenCount, operationCount, owner, signedOut,
                     reconciler, now, faults>>
      /\ q.pc = "commit"
      /\ CommitMarker(Hash[q.token], q.operationId)
  BY DEF Commit, Rest, ids
<1>2. marker' \in [TokenHash -> MarkerDoc] /\ MarkerRefs'
  BY <1>1, CommitMarkerType DEF TypeInv, TypeOK
<1>3. CASE /\ delivered' = delivered \cup {q.next}
           /\ exchanges' = exchanges \cup {<<q.token, q.next>>}
           /\ Finish(r)
  <2>1. /\ q.token \in Token /\ q.next \in Token /\ q.next \in 1 .. tokenCount
        /\ owner[q.next] \in Family
    BY <1>1, IssuedTokens DEF TypeInv, RequestRefs
  <2>2. RequestRefs' /\ request' \in [Request -> RequestState]
    BY <1>1, <1>3, FinishRefs DEF TypeInv
  <2>3. DeliveredRefs' /\ delivered' \subseteq Token
    BY <1>1, <1>3, <2>1 DEF TypeInv, TypeOK, DeliveredRefs
  <2>4. exchanges' \subseteq Token \X Token
    BY <1>3, <2>1 DEF TypeInv, TypeOK
  <2> QED BY <1>1, <1>2, <2>2, <2>3, <2>4 DEF TypeInv, TypeOK
<1>4. CASE Step(r, "revokeOrphan") /\ UNCHANGED <<delivered, exchanges>>
  <2>1. RequestRefs' /\ request' \in [Request -> RequestState]
    BY <1>1, <1>4, StepRefs DEF TypeInv, RequestPc
  <2> QED BY <1>1, <1>2, <1>4, <2>1 DEF TypeInv, TypeOK, DeliveredRefs
<1> QED BY <1>3, <1>4 DEF Commit

\* The operations of a handler that revoke its family.
LEMMA HandlerRevokeType ==
    ASSUME TypeInv, NEW r \in Request,
           RevokeOrphan(r) \/ FinalizeRevoke(r) \/ RevokeReplay(r)
    PROVE  TypeInv'
<1>1. /\ UNCHANGED <<marker, tokenCount, operationCount, owner, delivered,
                     exchanges, signedOut, reconciler, now, faults>>
      /\ \/ Revoke({request[r].familyId}, "revoked")
         \/ Revoke({request[r].familyId}, "replayed")
      /\ \/ request[r].pc = "revokeOrphan" /\ Step(r, "revokeOrphanAgain")
         \/ Finish(r)
  BY DEF RevokeOrphan, FinalizeRevoke, RevokeReplay, Rest, ids, history
<1>2. family' \in [Family -> FamilyDoc]
  BY <1>1, RevokeType DEF TypeInv, TypeOK
<1>3. RequestRefs' /\ request' \in [Request -> RequestState]
  BY <1>1, StepRefs, FinishRefs DEF TypeInv, RequestPc
<1> QED BY <1>1, <1>2, <1>3 DEF TypeInv, TypeOK, DeliveredRefs, MarkerRefs

\* The first half of finalizeAndRevoke keeps the types.
LEMMA FinalizeCommitType ==
    ASSUME TypeInv, NEW r \in Request, FinalizeCommit(r)
    PROVE  TypeInv'
<1>1. /\ UNCHANGED <<family, tokenCount, operationCount, owner, delivered,
                     exchanges, signedOut, reconciler, now, faults>>
      /\ request[r].pc = "finalizeCommit"
      /\ CommitMarker(Hash[request[r].token], request[r].operationId)
      /\ Step(r, "finalizeRevoke")
  BY DEF FinalizeCommit, Rest, ids, history
<1>2. marker' \in [TokenHash -> MarkerDoc] /\ MarkerRefs'
  BY <1>1, CommitMarkerType DEF TypeInv, TypeOK
<1>3. RequestRefs' /\ request' \in [Request -> RequestState]
  BY <1>1, StepRefs DEF TypeInv, RequestPc
<1> QED BY <1>1, <1>2, <1>3 DEF TypeInv, TypeOK, DeliveredRefs

\* Every step of rotate() keeps the types.
LEMMA RequestStepType ==
    ASSUME TypeInv, NEW r \in Request, RequestStep(r)
    PROVE  TypeInv'
BY FindMarkerType, FindFamilyType, CreateMarkerType, ReadType, TakeOverType,
   CasType, CommitType, HandlerRevokeType, FinalizeCommitType DEF RequestStep

\* So does every failure of an operation of rotate().
LEMMA RequestFaultType ==
    ASSUME TypeInv, NEW r \in Request, RequestFault(r)
    PROVE  TypeInv'
<1>1. faults' \in Nat
  BY DEF RequestFault, Abort, CasFault, CommitFault, SkipFault, Fault,
         TypeInv, TypeOK
<1>2. CASE Abort(r) \/ SkipFault(r)
  <2>1. /\ UNCHANGED <<family, marker, tokenCount, operationCount, owner,
                       delivered, exchanges, signedOut, reconciler, now>>
        /\ \/ Finish(r)
           \/ request[r].pc = "revokeOrphan" /\ Step(r, "revokeOrphanAgain")
           \/ request[r].pc = "finalizeCommit" /\ Step(r, "finalizeRevoke")
    BY <1>2 DEF Abort, SkipFault, db, ids, history
  <2>2. RequestRefs' /\ request' \in [Request -> RequestState]
    BY <2>1, StepRefs, FinishRefs DEF TypeInv, RequestPc
  <2> QED BY <1>1, <2>1, <2>2 DEF TypeInv, TypeOK, DeliveredRefs, MarkerRefs
<1>3. CASE CasFault(r)
  <2>1. /\ UNCHANGED <<marker, tokenCount, operationCount, delivered,
                       exchanges, signedOut, reconciler, now>>
        /\ request[r].pc = "cas" /\ Step(r, "recover")
        /\ UNCHANGED <<family, owner>> \/ SwapToken(r)
    BY <1>3 DEF CasFault, ids
  <2>2. CASE SwapToken(r)
    BY <1>1, <2>1, <2>2, SwapTokenRefs DEF TypeInv, TypeOK, MarkerRefs
  <2>3. CASE UNCHANGED <<family, owner>>
    <3>1. RequestRefs' /\ request' \in [Request -> RequestState]
      BY <2>1, <2>3, StepRefs DEF TypeInv, RequestPc
    <3> QED BY <1>1, <2>1, <2>3, <3>1
            DEF TypeInv, TypeOK, DeliveredRefs, MarkerRefs
  <2> QED BY <2>1, <2>2, <2>3
<1>4. CASE CommitFault(r)
  <2>1. /\ UNCHANGED <<family, tokenCount, operationCount, owner, delivered,
                       exchanges, signedOut, reconciler, now>>
        /\ request[r].pc = "commit" /\ Step(r, "revokeOrphanAgain")
        /\ \/ UNCHANGED marker
           \/ CommitMarker(Hash[request[r].token], request[r].operationId)
    BY <1>4 DEF CommitFault, ids, history
  <2>2. marker' \in [TokenHash -> MarkerDoc] /\ MarkerRefs'
    BY <2>1, CommitMarkerType DEF TypeInv, TypeOK, MarkerRefs
  <2>3. RequestRefs' /\ request' \in [Request -> RequestState]
    BY <2>1, StepRefs DEF TypeInv, RequestPc
  <2> QED BY <1>1, <2>1, <2>2, <2>3 DEF TypeInv, TypeOK, DeliveredRefs
<1> QED BY <1>2, <1>3, <1>4 DEF RequestFault

\* A new call holds a delivered token and a fresh replacement.
LEMMA PresentType ==
    ASSUME TypeInv, NEW r \in Request, NEW t \in Token, Present(r, t)
    PROVE  TypeInv'
<1> DEFINE replayed == \E u \in Token : <<t, u>> \in exchanges
           q == [IdleRequest EXCEPT !.pc = "findMarker", !.token = t,
                    !.at = now, !.next = tokenCount + 1, !.replay = replayed]
<1>1. /\ UNCHANGED <<family, marker, operationCount, owner, delivered,
                     exchanges, signedOut, reconciler, now, faults>>
      /\ t \in delivered /\ tokenCount < MaxTokens
      /\ tokenCount' = tokenCount + 1
      /\ request' = [request EXCEPT ![r] = q]
  BY DEF Present, Rest, db, history
<1>2. /\ tokenCount \in 0 .. MaxTokens /\ tokenCount' \in 0 .. MaxTokens
      /\ tokenCount + 1 \in 1 .. tokenCount'
      /\ 1 .. tokenCount \subseteq 1 .. tokenCount'
  BY <1>1, BoundsAssumption DEF TypeInv, TypeOK
<1>3. q \in RequestState /\ q.token = t /\ q.next = tokenCount + 1
      /\ q.pc = "findMarker"
  <2>1. /\ t \in 0 .. MaxTokens /\ tokenCount + 1 \in 0 .. MaxTokens
        /\ now \in Nat /\ replayed \in BOOLEAN
    BY <1>1, <1>2, BoundsAssumption DEF Token, TypeInv, TypeOK
  <2> HIDE DEF replayed
  <2>2. IdleRequest \in RequestState
    BY RestingTypes
  <2> QED BY <2>1, <2>2 DEF RequestState, RequestPc
<1> HIDE DEF q
<1>4. /\ request' \in [Request -> RequestState]
      /\ request'[r] = q
      /\ \A x \in Request \ {r} : request'[x] = request[x]
  BY <1>1, <1>3 DEF TypeInv, TypeOK
<1>5. RequestRefs'
  BY <1>1, <1>2, <1>3, <1>4 DEF TypeInv, RequestRefs
<1>6. DeliveredRefs'
  BY <1>1, <1>2 DEF TypeInv, DeliveredRefs
<1> QED BY <1>1, <1>2, <1>4, <1>5, <1>6 DEF TypeInv, TypeOK, MarkerRefs

\* A sign-in creates a family with a hash and an expiry.
LEMMA CreateFamilyType ==
    ASSUME TypeInv, NEW f \in Family, NEW s \in Subject, CreateFamily(f, s)
    PROVE  TypeInv'
<1> DEFINE t == tokenCount + 1
<1>1. /\ UNCHANGED <<marker, request, operationCount, exchanges, signedOut,
                     reconciler, now, faults>>
      /\ tokenCount < MaxTokens /\ tokenCount' = t
      /\ owner' = [owner EXCEPT ![t] = f]
      /\ delivered' = delivered \cup {t}
  BY DEF CreateFamily, Rest
<1>2. /\ tokenCount' \in 0 .. MaxTokens /\ t \in Token /\ t \in 1 .. tokenCount'
      /\ 1 .. tokenCount \subseteq 1 .. tokenCount'
  BY <1>1, BoundsAssumption DEF TypeInv, TypeOK, Token
<1>3. family' \in [Family -> FamilyDoc]
  <2>1. Hash[t] \in TokenHash /\ now + RefreshTtl \in Nat
    BY <1>2, HashAssumption, BoundsAssumption DEF TypeInv, TypeOK
  <2> HIDE DEF t
  <2> QED BY <2>1 DEF CreateFamily, TypeInv, TypeOK, FamilyDoc, Absent, t
<1> HIDE DEF t
<1>4. /\ owner' \in [Token -> Family \cup {None}] /\ owner'[t] \in Family
      /\ \A u \in Token : owner[u] \in Family => owner'[u] \in Family
  BY <1>1, <1>2 DEF TypeInv, TypeOK
<1>5. DeliveredRefs' /\ delivered' \subseteq Token
  BY <1>1, <1>2, <1>4 DEF TypeInv, TypeOK, DeliveredRefs
<1>6. RequestRefs'
  BY <1>1, <1>2, <1>4, IssuedTokens DEF TypeInv, RequestRefs
<1> QED BY <1>1, <1>2, <1>3, <1>4, <1>5, <1>6 DEF TypeInv, TypeOK, MarkerRefs

\* The revocations other services ask for, and the clock and the TTL monitor.
LEMMA OutsideType ==
    ASSUME TypeInv,
           \/ \E t \in Token : RevokeRefreshToken(t)
           \/ \E f \in Family : RevokeFamily(f) \/ ExpireFamily(f)
           \/ \E s \in Subject : RevokeSubject(s)
           \/ \E h \in TokenHash : ExpireMarker(h)
           \/ Tick
    PROVE  TypeInv'
<1>1. ASSUME NEW t \in Token, RevokeRefreshToken(t) PROVE TypeInv'
  <2>1. family' \in [Family -> FamilyDoc]
    BY <1>1, RevokeType DEF RevokeRefreshToken, TypeInv, TypeOK
  <2>2. signedOut' \subseteq Family
    BY <1>1 DEF RevokeRefreshToken, TypeInv, TypeOK, DeliveredRefs
  <2> QED BY <1>1, <2>1, <2>2 DEF RevokeRefreshToken, Rest, ids, TypeInv,
             TypeOK, DeliveredRefs, MarkerRefs, RequestRefs
<1>2. ASSUME NEW f \in Family, RevokeFamily(f) PROVE TypeInv'
  <2>1. family' \in [Family -> FamilyDoc]
    BY <1>2, RevokeType DEF RevokeFamily, TypeInv, TypeOK
  <2> QED BY <1>2, <2>1 DEF RevokeFamily, Rest, ids, history, TypeInv,
             TypeOK, DeliveredRefs, MarkerRefs, RequestRefs
<1>3. ASSUME NEW s \in Subject, RevokeSubject(s) PROVE TypeInv'
  <2>1. family' \in [Family -> FamilyDoc]
    BY <1>3, RevokeType DEF RevokeSubject, TypeInv, TypeOK
  <2> QED BY <1>3, <2>1 DEF RevokeSubject, Rest, ids, history, TypeInv,
             TypeOK, DeliveredRefs, MarkerRefs, RequestRefs
<1>4. ASSUME NEW f \in Family, ExpireFamily(f) PROVE TypeInv'
  <2>1. family' \in [Family -> FamilyDoc]
    BY <1>4 DEF ExpireFamily, TypeInv, TypeOK, FamilyDoc
  <2> QED BY <1>4, <2>1 DEF ExpireFamily, Rest, ids, history, TypeInv,
             TypeOK, DeliveredRefs, MarkerRefs, RequestRefs
<1>5. ASSUME NEW h \in TokenHash, ExpireMarker(h) PROVE TypeInv'
  <2>1. /\ marker' \in [TokenHash -> MarkerDoc]
        /\ \A g \in TokenHash : marker'[g] \in {marker[g], NoMarkerDoc}
    BY <1>5, RestingTypes DEF ExpireMarker, TypeInv, TypeOK
  <2>2. MarkerRefs'
    BY <2>1 DEF TypeInv, MarkerRefs, NoMarkerDoc
  <2> QED BY <1>5, <2>1, <2>2 DEF ExpireMarker, Rest, ids, history, TypeInv,
             TypeOK, DeliveredRefs, RequestRefs
<1>6. ASSUME Tick PROVE TypeInv'
  BY <1>6 DEF Tick, db, ids, history, TypeInv, TypeOK, DeliveredRefs,
              MarkerRefs, RequestRefs
<1> QED BY <1>1, <1>2, <1>3, <1>4, <1>5, <1>6

\* Moving a repair pass on, and what it took from the collection, is well typed.
LEMMA NextMarkerType ==
    ASSUME reconciler \in [Instance -> ReconcilerState], NEW i \in Instance,
           NEW batch, batch \subseteq MarkerDoc, NextMarker(i, batch)
    PROVE  reconciler' \in [Instance -> ReconcilerState]
<1>1. [IdleReconciler EXCEPT !.pc = "inspect", !.at = reconciler[i].at,
                             !.batch = batch] \in ReconcilerState
  BY RestingTypes DEF ReconcilerState
<1> QED BY <1>1, RestingTypes DEF NextMarker

\* The repair pass works on markers it has read, which are well typed.
LEMMA ReconcilerType ==
    ASSUME TypeInv, NEW i \in Instance, ReconcilerStep(i) \/ ReconcilerFault(i)
    PROVE  TypeInv'
<1> DEFINE q == reconciler[i]
<1>1. /\ q \in ReconcilerState /\ q.batch \subseteq MarkerDoc
      /\ q.current \in MarkerDoc
  BY DEF TypeInv, TypeOK, ReconcilerState
<1>2. UNCHANGED <<request, tokenCount, operationCount, now, owner, delivered,
                  exchanges, signedOut>>
  BY DEF ReconcilerStep, ReconcilerFault, StartReconciliation, InspectMarker,
         ReconcilerCommit, ReconcilerRevoke, QuietExceptReconciler, ids, history
<1>3. RequestRefs' /\ DeliveredRefs'
  BY <1>2 DEF TypeInv, RequestRefs, DeliveredRefs
<1>4. CASE StartReconciliation(i)
  <2>1. PICK batch \in SUBSET ExpiredPending(now) :
           reconciler' = [reconciler EXCEPT ![i] =
               [IdleReconciler EXCEPT !.pc = "inspect", !.at = now,
                                      !.batch = batch]]
    BY <1>4 DEF StartReconciliation
  <2>2. batch \subseteq MarkerDoc
    BY DEF ExpiredPending, TypeInv, TypeOK
  <2>3. [IdleReconciler EXCEPT !.pc = "inspect", !.at = now, !.batch = batch]
           \in ReconcilerState
    BY <2>2, RestingTypes DEF ReconcilerState, TypeInv, TypeOK
  <2>4. UNCHANGED <<family, marker, faults>>
    BY <1>4 DEF StartReconciliation, db
  <2> QED BY <1>2, <1>3, <2>1, <2>3, <2>4 DEF TypeInv, TypeOK, MarkerRefs
<1>5. CASE InspectMarker(i)
  <2>1. PICK m \in q.batch :
           \/ NextMarker(i, q.batch \ {m})
           \/ reconciler' = [reconciler EXCEPT
                  ![i].pc = "commit", ![i].current = m,
                  ![i].batch = q.batch \ {m}]
    BY <1>5 DEF InspectMarker
  <2>2. reconciler' \in [Instance -> ReconcilerState]
    <3>1. CASE NextMarker(i, q.batch \ {m})
      <4>1. q.batch \ {m} \subseteq MarkerDoc
        BY <1>1
      <4> QED BY <3>1, <4>1, NextMarkerType DEF TypeInv, TypeOK
    <3>2. CASE reconciler' = [reconciler EXCEPT
                  ![i].pc = "commit", ![i].current = m,
                  ![i].batch = q.batch \ {m}]
      BY <1>1, <3>2 DEF ReconcilerState, TypeInv, TypeOK
    <3> QED BY <2>1, <3>1, <3>2
  <2>3. UNCHANGED <<family, marker, faults>>
    BY <1>5 DEF InspectMarker, db
  <2> QED BY <1>2, <1>3, <2>2, <2>3 DEF TypeInv, TypeOK, MarkerRefs
<1>6. CASE ReconcilerCommit(i)
  <2>1. marker' \in [TokenHash -> MarkerDoc] /\ MarkerRefs'
    BY <1>6, CommitMarkerType DEF ReconcilerCommit, TypeInv, TypeOK
  <2>2. reconciler' \in [Instance -> ReconcilerState]
    BY <1>6 DEF ReconcilerCommit, ReconcilerState, TypeInv, TypeOK
  <2> QED BY <1>2, <1>3, <1>6, <2>1, <2>2 DEF ReconcilerCommit, TypeInv, TypeOK
<1>7. CASE ReconcilerRevoke(i)
  <2>1. family' \in [Family -> FamilyDoc]
    BY <1>7, RevokeType DEF ReconcilerRevoke, TypeInv, TypeOK
  <2>2. reconciler' \in [Instance -> ReconcilerState]
    BY <1>1, <1>7, NextMarkerType DEF ReconcilerRevoke, TypeInv, TypeOK
  <2> QED BY <1>2, <1>3, <1>7, <2>1, <2>2
          DEF ReconcilerRevoke, TypeInv, TypeOK, MarkerRefs
<1>8. CASE ReconcilerFault(i)
  <2>1. faults' \in Nat /\ UNCHANGED <<family, marker>>
    BY <1>8 DEF ReconcilerFault, Fault, db, TypeInv, TypeOK
  <2>2. reconciler' \in [Instance -> ReconcilerState]
    <3>1. ASSUME NEW m \in q.batch, NextMarker(i, q.batch \ {m})
          PROVE  reconciler' \in [Instance -> ReconcilerState]
      <4>1. q.batch \ {m} \subseteq MarkerDoc
        BY <1>1
      <4> QED BY <3>1, <4>1, NextMarkerType DEF TypeInv, TypeOK
    <3>2. CASE reconciler' = [reconciler EXCEPT ![i].pc = "revoke"]
      BY <3>2 DEF ReconcilerState, TypeInv, TypeOK
    <3>3. CASE NextMarker(i, q.batch)
      BY <1>1, <3>3, NextMarkerType DEF TypeInv, TypeOK
    <3>4. CASE reconciler' = [reconciler EXCEPT ![i] = IdleReconciler]
      BY <3>4, RestingTypes DEF TypeInv, TypeOK
    <3> QED BY <1>8, <3>1, <3>2, <3>3, <3>4 DEF ReconcilerFault
  <2> QED BY <1>2, <1>3, <2>1, <2>2 DEF TypeInv, TypeOK, MarkerRefs
<1> QED BY <1>4, <1>5, <1>6, <1>7, <1>8 DEF ReconcilerStep

\* Initially there is no document and every handler is idle.
LEMMA InitTypeInv == Init => TypeInv
<1> SUFFICES ASSUME Init PROVE TypeInv
  OBVIOUS
<1>1. TypeOK
  BY RestingTypes, BoundsAssumption DEF Init, TypeOK
<1>2. DeliveredRefs /\ MarkerRefs /\ RequestRefs
  BY DEF Init, DeliveredRefs, MarkerRefs, RequestRefs, NoMarkerDoc, IdleRequest
<1> QED BY <1>1, <1>2 DEF TypeInv

\* Every step keeps the types and the references.
LEMMA NextTypeInv == TypeInv /\ [Next]_vars => TypeInv'
<1> SUFFICES ASSUME TypeInv, [Next]_vars PROVE TypeInv'
  OBVIOUS
<1>1. CASE Next
  BY <1>1, RequestStepType, RequestFaultType, PresentType, CreateFamilyType,
     OutsideType, ReconcilerType DEF Next
<1>2. CASE UNCHANGED vars
  BY <1>2 DEF vars, ids, history, TypeInv, TypeOK, DeliveredRefs, MarkerRefs,
              RequestRefs
<1> QED BY <1>1, <1>2

\* Every reachable state is well typed: documents keep their schema and no
\* handler stores or follows an unset reference, for every value of the
\* constants (the code relies on it where it dereferences prepared.family).
THEOREM TypeCorrect == Spec => []TypeOK
<1>1. Spec => []TypeInv
  BY InitTypeInv, NextTypeInv, PTL DEF Spec
<1>2. TypeInv => TypeOK
  BY DEF TypeInv
<1> QED BY <1>1, <1>2, PTL

-----------------------------------------------------------------------------
(***************************************************************************)
(* Single use.  The argument: a token whose hash no family holds is spent, *)
(* and stays spent, because only tokens that nobody has seen yet are ever  *)
(* installed.  The compare-and-swap needs an unspent token and spends it,  *)
(* so at most one handler per token gets past it, and it alone can record  *)
(* an exchange.  The markers play no part in this: they serve the          *)
(* detection of replays and the recovery.                                  *)
(***************************************************************************)

Spent(t) == \A f \in Family : family[f].currentTokenHash # Hash[t]

BeforeSwap == { "findMarker", "findFamily", "createMarker", "racedMarker",
                "readOwner", "takeOver", "cas" }

\* A family holds the hash of a token generated earlier, and no two families
\* hold the same.
CurrentIssued ==
    \A f \in Family : family[f].currentTokenHash # None =>
        \E t \in 1 .. tokenCount : family[f].currentTokenHash = Hash[t]

CurrentUnique ==
    \A f, g \in Family :
        /\ family[f].currentTokenHash # None
        /\ family[f].currentTokenHash = family[g].currentTokenHash
        => f = g

\* The replacement a handler holds is nobody else's, and is not installed
\* before its compare-and-swap.
NextUnseen ==
    \A r \in Request :
        /\ request[r].pc # "idle" => request[r].next \notin delivered
        /\ request[r].pc \in BeforeSwap => Spent(request[r].next)

NextDistinct ==
    \A r, x \in Request :
        /\ request[r].pc # "idle" /\ request[x].pc # "idle"
        /\ request[r].next = request[x].next
        => r = x

\* A handler past its compare-and-swap has spent its token, alone.
CommitSpent ==
    \A r \in Request : request[r].pc = "commit" =>
        /\ Spent(request[r].token)
        /\ \A y \in exchanges : y[1] # request[r].token

CommitDistinct ==
    \A r, x \in Request :
        /\ request[r].pc = "commit" /\ request[x].pc = "commit"
        /\ request[r].token = request[x].token
        => r = x

ExchangedSpent ==
    \A y \in exchanges : y[1] \in delivered /\ Spent(y[1])

RotationInv ==
    /\ CurrentIssued /\ CurrentUnique
    /\ NextUnseen /\ NextDistinct
    /\ CommitSpent /\ CommitDistinct
    /\ ExchangedSpent /\ SingleUse

\* The digest of a token is a digest, and tells tokens apart.
LEMMA HashFacts ==
    /\ \A t \in Token : Hash[t] \in TokenHash /\ Hash[t] # None
    /\ \A t, u \in Token : Hash[t] = Hash[u] => t = u
BY HashAssumption, NoneAssumption

\* What most steps do to the state RotationInv speaks of: hashes are kept or
\* unset, nothing is delivered, a handler ends or moves on with its tokens and
\* does not pass the compare-and-swap.
QuietFamily ==
    \A f \in Family :
        family'[f].currentTokenHash \in {family[f].currentTokenHash, None}

QuietRequest ==
    \A r \in Request :
        \/ request'[r].pc = "idle"
        \/ /\ request[r].pc # "idle"
           /\ request'[r].token = request[r].token
           /\ request'[r].next = request[r].next
           /\ request'[r].pc = "commit" => request[r].pc = "commit"
           /\ request'[r].pc \in BeforeSwap => request[r].pc \in BeforeSwap

QuietStep ==
    /\ QuietFamily
    /\ tokenCount' = tokenCount /\ delivered' = delivered
    /\ exchanges' = exchanges
    /\ QuietRequest

\* A quiet step (QuietStep above) keeps every part of the invariant.
LEMMA QuietStepKeeps ==
    ASSUME TypeInv, RotationInv, QuietStep
    PROVE  RotationInv'
<1>1. \A t \in Token : Spent(t) =>
         \A f \in Family : family'[f].currentTokenHash # Hash[t]
  BY HashFacts DEF QuietStep, QuietFamily, QuietRequest, Spent
<1>2. \A r \in Request : request[r].pc # "idle" =>
         request[r].token \in Token /\ request[r].next \in Token
  BY IssuedTokens
<1>3. CurrentIssued' /\ CurrentUnique'
  BY DEF QuietStep, QuietFamily, QuietRequest, RotationInv, CurrentIssued, CurrentUnique
<1>4. NextUnseen' /\ NextDistinct'
  <2>1. NextDistinct'
    BY DEF QuietStep, QuietFamily, QuietRequest, RotationInv, NextDistinct
  <2>2. \A r \in Request : request'[r].pc # "idle" =>
           request'[r].next \notin delivered'
    BY DEF QuietStep, QuietFamily, QuietRequest, RotationInv, NextUnseen
  <2>3. \A r \in Request : request'[r].pc \in BeforeSwap => Spent(request[r].next)'
    <3>1. TAKE r \in Request
    <3>2. HAVE request'[r].pc \in BeforeSwap
    <3>3. /\ request[r].pc # "idle" /\ request[r].pc \in BeforeSwap
          /\ request'[r].next = request[r].next
      BY <3>2 DEF QuietStep, QuietFamily, QuietRequest, BeforeSwap
    <3>4. Spent(request[r].next) /\ request[r].next \in Token
      BY <1>2, <3>3 DEF RotationInv, NextUnseen
    <3> QED BY <1>1, <3>3, <3>4 DEF Spent
  <2> QED BY <2>1, <2>2, <2>3 DEF NextUnseen
<1>5. CommitSpent' /\ CommitDistinct'
  <2>1. CommitDistinct'
    BY DEF QuietStep, QuietFamily, QuietRequest, RotationInv, CommitDistinct
  <2>2. ASSUME NEW r \in Request, request'[r].pc = "commit"
        PROVE  /\ Spent(request[r].token)'
               /\ \A y \in exchanges' : y[1] # request'[r].token
    <3>1. /\ request[r].pc = "commit"
          /\ request'[r].token = request[r].token
      BY <2>2 DEF QuietStep, QuietFamily, QuietRequest
    <3>2. Spent(request[r].token) /\ request[r].token \in Token
      BY <1>2, <3>1 DEF RotationInv, CommitSpent
    <3>3. Spent(request[r].token)'
      BY <1>1, <3>1, <3>2 DEF Spent
    <3>4. \A y \in exchanges' : y[1] # request'[r].token
      BY <3>1 DEF QuietStep, QuietFamily, QuietRequest, RotationInv, CommitSpent
    <3> QED BY <3>3, <3>4
  <2> QED BY <2>1, <2>2 DEF CommitSpent
<1>6. ExchangedSpent'
  <2>1. \A y \in exchanges : y[1] \in Token
    BY DEF TypeInv, TypeOK
  <2> QED BY <1>1, <2>1 DEF QuietStep, QuietFamily, QuietRequest, RotationInv, ExchangedSpent, Spent
<1>7. SingleUse'
  BY DEF QuietStep, QuietFamily, QuietRequest, RotationInv, SingleUse
<1> QED BY <1>3, <1>4, <1>5, <1>6, <1>7 DEF RotationInv

\* The ways a handler moves on that are quiet.
LEMMA QuietMoves ==
    ASSUME TypeInv, NEW r \in Request
    PROVE  /\ Finish(r) => QuietRequest
           /\ \A pc \in RequestPc \ {"commit"} :
                 /\ Step(r, pc) /\ request[r].pc # "idle"
                 /\ pc \in BeforeSwap => request[r].pc \in BeforeSwap
                 => QuietRequest
           /\ \A m : HandleExistingMarker(r, m)
                 /\ request[r].pc \in BeforeSwap => QuietRequest
           /\ \A op : OwnMarker(r, op)
                 /\ request[r].pc \in BeforeSwap => QuietRequest
           /\ UNCHANGED request => QuietRequest
<1>0. request \in [Request -> RequestState]
  BY DEF TypeInv, TypeOK
<1>1. ASSUME Finish(r) PROVE QuietRequest
  BY <1>0, <1>1 DEF Finish, QuietRequest, IdleRequest
<1>2. ASSUME NEW pc \in RequestPc \ {"commit"}, Step(r, pc),
             request[r].pc # "idle",
             pc \in BeforeSwap => request[r].pc \in BeforeSwap
      PROVE  QuietRequest
  BY <1>0, <1>2 DEF Step, QuietRequest, RequestState
<1>3. ASSUME NEW m, HandleExistingMarker(r, m), request[r].pc \in BeforeSwap
      PROVE  QuietRequest
  <2>1. /\ \A x \in Request \ {r} : request'[x] = request[x]
        /\ request'[r].token = request[r].token
        /\ request'[r].next = request[r].next
        /\ request'[r].pc # "commit"
    BY <1>0, <1>3 DEF HandleExistingMarker, RequestState
  <2> QED BY <1>3, <2>1 DEF QuietRequest, BeforeSwap
<1>4. ASSUME NEW op, OwnMarker(r, op), request[r].pc \in BeforeSwap
      PROVE  QuietRequest
  <2>1. /\ \A x \in Request \ {r} : request'[x] = request[x]
        /\ request'[r].token = request[r].token
        /\ request'[r].next = request[r].next
        /\ request'[r].pc # "commit"
    BY <1>0, <1>4 DEF OwnMarker, RequestState
  <2> QED BY <1>4, <2>1 DEF QuietRequest, BeforeSwap
<1>5. ASSUME UNCHANGED request PROVE QuietRequest
  BY <1>5 DEF QuietRequest
<1> QED BY <1>1, <1>2, <1>3, <1>4, <1>5

\* A revocation unsets hashes and installs none.
LEMMA QuietRevoke ==
    ASSUME TypeInv
    PROVE  /\ \A F, status : Revoke(F, status) => QuietFamily
           /\ UNCHANGED family => QuietFamily
<1>1. ASSUME NEW F, NEW status, Revoke(F, status) PROVE QuietFamily
  BY <1>1 DEF Revoke, QuietFamily, TypeInv, TypeOK, FamilyDoc
<1>2. ASSUME UNCHANGED family PROVE QuietFamily
  BY <1>2 DEF QuietFamily
<1> QED BY <1>1, <1>2

\* Every operation of a handler other than the three that matter is quiet.
LEMMA QuietHandlerSteps ==
    ASSUME TypeInv, NEW r \in Request,
           \/ FindMarker(r) \/ FindFamily(r) \/ CreateMarker(r)
           \/ RacedMarker(r) \/ ReadOwner(r) \/ TakeOver(r) \/ Recover(r)
           \/ RevokeOrphan(r) \/ FinalizeCommit(r) \/ FinalizeRevoke(r)
           \/ RevokeReplay(r) \/ Abort(r) \/ CommitFault(r) \/ SkipFault(r)
    PROVE  QuietStep
<1>1. /\ tokenCount' = tokenCount /\ delivered' = delivered
      /\ exchanges' = exchanges
  BY DEF FindMarker, FindFamily, CreateMarker, RacedMarker, ReadOwner, TakeOver,
         Recover, RevokeOrphan, FinalizeCommit, FinalizeRevoke, RevokeReplay,
         Abort, CommitFault, SkipFault, ids, history
<1>2. QuietFamily
  <2>1. CASE RevokeOrphan(r) \/ FinalizeRevoke(r) \/ RevokeReplay(r)
    BY <2>1, QuietRevoke DEF RevokeOrphan, FinalizeRevoke, RevokeReplay
  <2>2. CASE ~(RevokeOrphan(r) \/ FinalizeRevoke(r) \/ RevokeReplay(r))
    <3>1. UNCHANGED family
      BY <2>2 DEF FindMarker, FindFamily, CreateMarker, RacedMarker, ReadOwner,
         TakeOver, Recover, FinalizeCommit, Abort, CommitFault, SkipFault, db
    <3> QED BY <3>1, QuietRevoke
  <2> QED BY <2>1, <2>2
<1>3. QuietRequest
  <2>1. CASE FindMarker(r) \/ RacedMarker(r)
    BY <2>1, QuietMoves DEF FindMarker, RacedMarker, BeforeSwap, RequestPc
  <2>2. CASE FindFamily(r)
    <3>1. CASE Finish(r)
      BY <3>1, QuietMoves
    <3>2. CASE \E f \in Family :
                  request' = [request EXCEPT ![r].pc = "createMarker",
                                             ![r].familyId = f]
      <4>1. /\ \A x \in Request \ {r} : request'[x] = request[x]
            /\ request'[r].token = request[r].token
            /\ request'[r].next = request[r].next
            /\ request'[r].pc = "createMarker"
        BY <3>2 DEF TypeInv, TypeOK, RequestState
      <4> QED BY <2>2, <4>1 DEF FindFamily, QuietRequest, BeforeSwap
    <3> QED BY <2>2, <3>1, <3>2 DEF FindFamily
  <2>3. CASE CreateMarker(r) \/ TakeOver(r)
    BY <2>3, QuietMoves DEF CreateMarker, TakeOver, BeforeSwap, RequestPc
  <2>4. CASE ReadOwner(r) \/ Recover(r)
    BY <2>4, QuietMoves DEF ReadOwner, Recover, BeforeSwap, RequestPc
  <2>5. CASE RevokeOrphan(r) \/ FinalizeCommit(r) \/ FinalizeRevoke(r)
             \/ RevokeReplay(r) \/ Abort(r) \/ CommitFault(r) \/ SkipFault(r)
    BY <2>5, QuietMoves DEF RevokeOrphan, FinalizeCommit, FinalizeRevoke,
       RevokeReplay, Abort, CommitFault, SkipFault, BeforeSwap, RequestPc
  <2> QED BY <2>1, <2>2, <2>3, <2>4, <2>5
<1> QED BY <1>1, <1>2, <1>3 DEF QuietStep

\* So is every step that is not a handler's, except a sign-in and a new call.
LEMMA QuietOtherSteps ==
    ASSUME TypeInv,
           \/ \E t \in Token : RevokeRefreshToken(t)
           \/ \E f \in Family : RevokeFamily(f) \/ ExpireFamily(f)
           \/ \E s \in Subject : RevokeSubject(s)
           \/ \E i \in Instance : ReconcilerStep(i) \/ ReconcilerFault(i)
           \/ \E h \in TokenHash : ExpireMarker(h)
           \/ Tick
           \/ UNCHANGED vars
    PROVE  QuietStep
<1>1. /\ tokenCount' = tokenCount /\ delivered' = delivered
      /\ exchanges' = exchanges /\ UNCHANGED request
  BY DEF RevokeRefreshToken, RevokeFamily, ExpireFamily, RevokeSubject,
         ReconcilerStep, ReconcilerFault, StartReconciliation, InspectMarker,
         ReconcilerCommit, ReconcilerRevoke, QuietExceptReconciler,
         ExpireMarker, Tick, vars, ids, history
<1>2. QuietRequest
  BY <1>1 DEF QuietRequest
<1>3. QuietFamily
  <2>1. ASSUME NEW t \in Token, RevokeRefreshToken(t) PROVE QuietFamily
    BY <2>1, QuietRevoke DEF RevokeRefreshToken
  <2>2. ASSUME NEW f \in Family, RevokeFamily(f) PROVE QuietFamily
    BY <2>2, QuietRevoke DEF RevokeFamily
  <2>3. ASSUME NEW f \in Family, ExpireFamily(f) PROVE QuietFamily
    BY <2>3 DEF ExpireFamily, QuietFamily, TypeInv, TypeOK, FamilyDoc
  <2>4. ASSUME NEW s \in Subject, RevokeSubject(s) PROVE QuietFamily
    BY <2>4, QuietRevoke DEF RevokeSubject
  <2>5. ASSUME NEW i \in Instance, ReconcilerRevoke(i) PROVE QuietFamily
    BY <2>5, QuietRevoke DEF ReconcilerRevoke
  <2>6. CASE \/ \E i \in Instance : StartReconciliation(i) \/ InspectMarker(i)
                                   \/ ReconcilerCommit(i) \/ ReconcilerFault(i)
             \/ \E h \in TokenHash : ExpireMarker(h)
             \/ Tick
             \/ UNCHANGED vars
    <3>1. UNCHANGED family
      BY <2>6 DEF StartReconciliation, InspectMarker, ReconcilerCommit,
                  ReconcilerFault, ExpireMarker, Tick, vars, db
    <3> QED BY <3>1, QuietRevoke
  <2> QED BY <2>1, <2>2, <2>3, <2>4, <2>5, <2>6 DEF ReconcilerStep
<1> QED BY <1>1, <1>2, <1>3 DEF QuietStep

\* A call that begins draws a replacement nobody has seen.
LEMMA PresentKeeps ==
    ASSUME TypeInv, RotationInv, NEW r \in Request, NEW t \in Token,
           Present(r, t)
    PROVE  RotationInv'
<1> DEFINE n == tokenCount + 1
<1>1. /\ UNCHANGED <<family, delivered, exchanges>>
      /\ tokenCount' = n /\ tokenCount < MaxTokens
      /\ request[r].pc = "idle"
      /\ \A x \in Request \ {r} : request'[x] = request[x]
      /\ request'[r].pc = "findMarker" /\ request'[r].next = n
  BY DEF Present, IdleRequest, db, history, TypeInv, TypeOK
<1>2. /\ n \in Token /\ n \notin 1 .. tokenCount
      /\ 1 .. tokenCount \subseteq 1 .. tokenCount'
      /\ 1 .. tokenCount \subseteq Token
  BY <1>1, BoundsAssumption DEF TypeInv, TypeOK, Token
<1> HIDE DEF n
<1>3. n \notin delivered
  BY <1>2 DEF TypeInv, DeliveredRefs
<1>4. Spent(n)
  BY <1>2, HashFacts DEF Spent, RotationInv, CurrentIssued
<1>5. \A x \in Request : request[x].pc # "idle" => request[x].next # n
  BY <1>2 DEF TypeInv, RequestRefs
<1>6. CurrentIssued' /\ CurrentUnique'
  BY <1>1, <1>2 DEF RotationInv, CurrentIssued, CurrentUnique
<1>7. NextUnseen' /\ NextDistinct'
  BY <1>1, <1>3, <1>4, <1>5
     DEF RotationInv, NextUnseen, NextDistinct, Spent, BeforeSwap
<1>8. CommitSpent' /\ CommitDistinct'
  BY <1>1 DEF RotationInv, CommitSpent, CommitDistinct, Spent
<1>9. ExchangedSpent' /\ SingleUse'
  BY <1>1 DEF RotationInv, ExchangedSpent, SingleUse, Spent
<1> QED BY <1>6, <1>7, <1>8, <1>9 DEF RotationInv

\* A sign-in installs a token nobody has seen.
LEMMA CreateFamilyKeeps ==
    ASSUME TypeInv, RotationInv, NEW f \in Family, NEW s \in Subject,
           CreateFamily(f, s)
    PROVE  RotationInv'
<1> DEFINE n == tokenCount + 1
<1>1. /\ UNCHANGED <<request, exchanges>>
      /\ tokenCount' = n /\ tokenCount < MaxTokens
      /\ delivered' = delivered \cup {n}
      /\ \A g \in Family \ {f} : family'[g] = family[g]
      /\ family'[f].currentTokenHash = Hash[n]
  BY DEF CreateFamily, TypeInv, TypeOK
<1>2. /\ n \in Token /\ n \notin 1 .. tokenCount /\ n \in 1 .. tokenCount'
      /\ 1 .. tokenCount \subseteq 1 .. tokenCount'
      /\ 1 .. tokenCount \subseteq Token
  BY <1>1, BoundsAssumption DEF TypeInv, TypeOK, Token
<1> HIDE DEF n
<1>3. Spent(n)
  BY <1>2, HashFacts DEF Spent, RotationInv, CurrentIssued
<1>4. \A x \in Request : request[x].pc # "idle" =>
         /\ request[x].next \in Token /\ request[x].next # n
         /\ request[x].token \in Token /\ request[x].token # n
  BY <1>2, IssuedTokens DEF TypeInv, RequestRefs, DeliveredRefs
<1>5. ASSUME NEW u \in Token, u # n, Spent(u)
      PROVE  \A g \in Family : family'[g].currentTokenHash # Hash[u]
  BY <1>1, <1>2, <1>5, HashFacts DEF Spent
<1>6. CurrentIssued'
  BY <1>1, <1>2 DEF RotationInv, CurrentIssued
<1>7. CurrentUnique'
  BY <1>1, <1>3 DEF RotationInv, CurrentUnique, Spent
<1>8. NextUnseen' /\ NextDistinct'
  <2>1. NextDistinct' /\ \A x \in Request : request'[x].pc # "idle" =>
                            request'[x].next \notin delivered'
    BY <1>1, <1>4 DEF RotationInv, NextUnseen, NextDistinct
  <2>2. ASSUME NEW x \in Request, request[x].pc \in BeforeSwap
        PROVE  Spent(request[x].next)'
    BY <1>1, <1>4, <1>5, <2>2 DEF RotationInv, NextUnseen, Spent, BeforeSwap
  <2> QED BY <1>1, <2>1, <2>2 DEF NextUnseen
<1>9. CommitSpent' /\ CommitDistinct'
  <2>1. CommitDistinct'
    BY <1>1 DEF RotationInv, CommitDistinct
  <2>2. ASSUME NEW x \in Request, request[x].pc = "commit"
        PROVE  Spent(request[x].token)'
    BY <1>1, <1>4, <1>5, <2>2 DEF RotationInv, CommitSpent, Spent
  <2> QED BY <1>1, <2>1, <2>2 DEF RotationInv, CommitSpent
<1>10. ExchangedSpent' /\ SingleUse'
  <2>1. SingleUse'
    BY <1>1 DEF RotationInv, SingleUse
  <2>2. ASSUME NEW y \in exchanges
        PROVE  y[1] \in delivered' /\ Spent(y[1])'
    <3>1. y[1] \in delivered /\ Spent(y[1]) /\ y[1] \in Token /\ y[1] # n
      BY <1>2 DEF RotationInv, ExchangedSpent, TypeInv, TypeOK, DeliveredRefs
    <3> QED BY <1>1, <1>5, <3>1 DEF Spent
  <2> QED BY <1>1, <2>1, <2>2 DEF ExchangedSpent
<1> QED BY <1>6, <1>7, <1>8, <1>9, <1>10 DEF RotationInv

\* The compare-and-swap spends the presented token: it held the only hash that
\* any family accepted for it, and no other handler can have got this far.
LEMMA SwapKeeps ==
    ASSUME TypeInv, RotationInv, NEW r \in Request, request[r].pc = "cas",
           Accepts(request[r].familyId, Hash[request[r].token], request[r].at),
           SwapToken(r), NEW pc \in {"commit", "recover"}, Step(r, pc),
           UNCHANGED <<tokenCount, delivered, exchanges>>
    PROVE  RotationInv'
<1> DEFINE t == request[r].token
           n == request[r].next
           f == request[r].familyId
<1>1. /\ f \in Family /\ t \in Token /\ n \in Token /\ n \in 1 .. tokenCount
      /\ t \in delivered /\ n \notin delivered /\ Spent(n)
  BY IssuedTokens
     DEF TypeInv, RequestRefs, RotationInv, NextUnseen, BeforeSwap
<1>2. /\ family[f].currentTokenHash = Hash[t]
      /\ family'[f].currentTokenHash = Hash[n]
      /\ \A g \in Family \ {f} : family'[g] = family[g]
  BY <1>1 DEF Accepts, SwapToken, TypeInv, TypeOK, FamilyDoc
<1>3. /\ \A x \in Request \ {r} : request'[x] = request[x]
      /\ request'[r].token = t /\ request'[r].next = n /\ request'[r].pc = pc
  BY DEF Step, TypeInv, TypeOK, RequestState
<1>4. \A x \in Request : request[x].pc # "idle" =>
         request[x].token \in Token /\ request[x].next \in Token
  BY IssuedTokens
<1>5. \A x \in Request : request[x].pc # "idle" => request[x].token \in delivered
  BY DEF TypeInv, RequestRefs
<1> HIDE DEF t, n, f
<1>6. ASSUME NEW u \in Token, u # n, Spent(u)
      PROVE  \A g \in Family : family'[g].currentTokenHash # Hash[u]
  BY <1>1, <1>2, <1>6, HashFacts DEF Spent
<1>7. ~Spent(t)
  BY <1>1, <1>2 DEF Spent
<1>8. \A g \in Family : family'[g].currentTokenHash # Hash[t]
  <2>1. \A g \in Family \ {f} : family[g].currentTokenHash # Hash[t]
    BY <1>1, <1>2, HashFacts DEF RotationInv, CurrentUnique
  <2>2. Hash[n] # Hash[t]
    BY <1>1, HashFacts
  <2> QED BY <1>2, <2>1, <2>2
<1>9. CurrentIssued'
  BY <1>1, <1>2 DEF RotationInv, CurrentIssued
<1>10. CurrentUnique'
  BY <1>1, <1>2 DEF RotationInv, CurrentUnique, Spent
<1>11. NextUnseen' /\ NextDistinct'
  <2>1. /\ NextDistinct'
        /\ \A x \in Request : request'[x].pc # "idle" =>
              request'[x].next \notin delivered'
    BY <1>1, <1>3 DEF RotationInv, NextUnseen, NextDistinct, n
  <2>2. ASSUME NEW x \in Request, request'[x].pc \in BeforeSwap
        PROVE  Spent(request[x].next)'
    <3>1. x # r
      BY <1>3, <2>2 DEF BeforeSwap
    <3>2. /\ request'[x] = request[x] /\ request[x].pc \in BeforeSwap
          /\ request[x].pc # "idle"
      BY <1>3, <2>2, <3>1 DEF BeforeSwap
    <3>3. request[x].next # n
      BY <3>1, <3>2 DEF RotationInv, NextDistinct, n
    <3>4. Spent(request[x].next) /\ request[x].next \in Token
      BY <1>4, <3>2 DEF RotationInv, NextUnseen
    <3> QED BY <1>6, <3>2, <3>3, <3>4 DEF Spent
  <2> QED BY <2>1, <2>2 DEF NextUnseen
<1>12. \A y \in exchanges : y[1] # t
  BY <1>7 DEF RotationInv, ExchangedSpent
<1>13. \A x \in Request : request[x].pc = "commit" => request[x].token # t
  BY <1>7 DEF RotationInv, CommitSpent
<1>14. CommitDistinct'
  BY <1>3, <1>13 DEF RotationInv, CommitDistinct
<1>15. CommitSpent'
  <2>1. ASSUME NEW x \in Request, request'[x].pc = "commit"
        PROVE  /\ Spent(request[x].token)'
               /\ \A y \in exchanges' : y[1] # request'[x].token
    <3>1. CASE x = r
      BY <1>3, <1>8, <1>12, <3>1 DEF Spent
    <3>2. CASE x # r
      <4>1. request'[x] = request[x] /\ request[x].pc = "commit"
        BY <1>3, <2>1, <3>2
      <4>2. /\ Spent(request[x].token) /\ request[x].token \in Token
            /\ request[x].token # n
        BY <1>1, <1>4, <1>5, <4>1 DEF RotationInv, CommitSpent
      <4>3. \A y \in exchanges : y[1] # request[x].token
        BY <4>1 DEF RotationInv, CommitSpent
      <4> QED BY <1>6, <4>1, <4>2, <4>3 DEF Spent
    <3> QED BY <3>1, <3>2
  <2> QED BY <2>1 DEF CommitSpent
<1>16. ExchangedSpent' /\ SingleUse'
  <2>1. SingleUse'
    BY DEF RotationInv, SingleUse
  <2>2. ASSUME NEW y \in exchanges
        PROVE  y[1] \in delivered' /\ Spent(y[1])'
    <3>1. y[1] \in delivered /\ Spent(y[1]) /\ y[1] \in Token /\ y[1] # n
      BY <1>1 DEF RotationInv, ExchangedSpent, TypeInv, TypeOK
    <3> QED BY <1>6, <3>1 DEF Spent
  <2> QED BY <2>1, <2>2 DEF ExchangedSpent
<1> QED BY <1>9, <1>10, <1>11, <1>14, <1>15, <1>16 DEF RotationInv

\* The commit records the exchange of a token that had none.
LEMMA CommitKeeps ==
    ASSUME TypeInv, RotationInv, NEW r \in Request, Commit(r)
    PROVE  RotationInv'
<1> DEFINE t == request[r].token
           n == request[r].next
<1>1. /\ UNCHANGED <<family, tokenCount>> /\ request[r].pc = "commit"
  BY DEF Commit, ids
<1>2. CASE Step(r, "revokeOrphan") /\ UNCHANGED <<delivered, exchanges>>
  <2>1. QuietRequest
    BY <1>1, <1>2, QuietMoves DEF BeforeSwap, RequestPc
  <2>2. QuietStep
    BY <1>1, <1>2, <2>1, QuietRevoke DEF QuietStep
  <2> QED BY <2>2, QuietStepKeeps
<1>3. CASE /\ delivered' = delivered \cup {n}
           /\ exchanges' = exchanges \cup {<<t, n>>}
           /\ Finish(r)
  <2>1. /\ \A x \in Request \ {r} : request'[x] = request[x]
        /\ request'[r].pc = "idle"
    BY <1>3 DEF Finish, IdleRequest, TypeInv, TypeOK
  <2>2. /\ t \in delivered /\ Spent(t)
        /\ \A y \in exchanges : y[1] # t
    BY <1>1 DEF TypeInv, RequestRefs, RotationInv, CommitSpent
  <2> HIDE DEF t, n
  <2>3. CurrentIssued' /\ CurrentUnique'
    BY <1>1 DEF RotationInv, CurrentIssued, CurrentUnique
  <2>4. NextUnseen' /\ NextDistinct'
    <3>1. NextDistinct'
      BY <2>1 DEF RotationInv, NextDistinct
    <3>2. \A x \in Request \ {r} : request[x].pc # "idle" => request[x].next # n
      BY <1>1 DEF RotationInv, NextDistinct, n
    <3> QED BY <1>1, <1>3, <2>1, <3>1, <3>2
            DEF RotationInv, NextUnseen, Spent, BeforeSwap
  <2>5. CommitSpent' /\ CommitDistinct'
    <3>1. CommitDistinct'
      BY <2>1 DEF RotationInv, CommitDistinct
    <3>2. \A x \in Request \ {r} : request[x].pc = "commit" =>
             request[x].token # t
      BY <1>1 DEF RotationInv, CommitDistinct, t
    <3> QED BY <1>1, <1>3, <2>1, <3>1, <3>2 DEF RotationInv, CommitSpent, Spent
  <2>6. ExchangedSpent'
    BY <1>1, <1>3, <2>2 DEF RotationInv, ExchangedSpent, Spent
  <2>7. SingleUse'
    BY <1>3, <2>2 DEF RotationInv, SingleUse
  <2> QED BY <2>3, <2>4, <2>5, <2>6, <2>7 DEF RotationInv
<1> QED BY <1>2, <1>3 DEF Commit

\* The compare-and-swap keeps the invariant, applied or not.
LEMMA CasKeeps ==
    ASSUME TypeInv, RotationInv, NEW r \in Request, Cas(r) \/ CasFault(r)
    PROVE  RotationInv'
<1>1. /\ UNCHANGED <<tokenCount, delivered, exchanges>>
      /\ request[r].pc = "cas"
  BY DEF Cas, CasFault, ids
<1>2. CASE /\ SwapToken(r)
           /\ Accepts(request[r].familyId, Hash[request[r].token],
                      request[r].at)
           /\ Step(r, "commit") \/ Step(r, "recover")
  BY <1>1, <1>2, SwapKeeps
<1>3. CASE /\ UNCHANGED family
           /\ Step(r, "finalizeCommit") \/ Step(r, "recover")
  <2>1. QuietRequest
    BY <1>1, <1>3, QuietMoves DEF BeforeSwap, RequestPc
  <2>2. QuietStep
    BY <1>1, <1>3, <2>1, QuietRevoke DEF QuietStep
  <2> QED BY <2>2, QuietStepKeeps
<1> QED BY <1>2, <1>3 DEF Cas, CasFault

\* Every step keeps the rotation invariant.
LEMMA NextRotationInv == TypeInv /\ RotationInv /\ [Next]_vars => RotationInv'
<1> SUFFICES ASSUME TypeInv, RotationInv, [Next]_vars PROVE RotationInv'
  OBVIOUS
<1>1. ASSUME NEW r \in Request, NEW t \in Token, Present(r, t)
      PROVE  RotationInv'
  BY <1>1, PresentKeeps
<1>2. ASSUME NEW r \in Request, RequestStep(r) \/ RequestFault(r)
      PROVE  RotationInv'
  BY <1>2, QuietHandlerSteps, QuietStepKeeps, CommitKeeps, CasKeeps
     DEF RequestStep, RequestFault
<1>3. ASSUME NEW f \in Family, NEW s \in Subject, CreateFamily(f, s)
      PROVE  RotationInv'
  BY <1>3, CreateFamilyKeeps
<1>4. CASE \/ \E t \in Token : RevokeRefreshToken(t)
           \/ \E f \in Family : RevokeFamily(f) \/ ExpireFamily(f)
           \/ \E s \in Subject : RevokeSubject(s)
           \/ \E i \in Instance : ReconcilerStep(i) \/ ReconcilerFault(i)
           \/ \E h \in TokenHash : ExpireMarker(h)
           \/ Tick
           \/ UNCHANGED vars
  BY <1>4, QuietOtherSteps, QuietStepKeeps
<1> QED BY <1>1, <1>2, <1>3, <1>4 DEF Next

\* Nothing is exchanged, held or under way at the start.
LEMMA InitRotationInv == Init => RotationInv
BY DEF Init, NoFamilyDoc, IdleRequest, RotationInv, CurrentIssued,
       CurrentUnique, NextUnseen, NextDistinct, CommitSpent, CommitDistinct,
       ExchangedSpent, SingleUse, BeforeSwap

\* A refresh token is exchanged at most once, for any number of concurrent
\* rotate() calls, instances and failures: two calls that present the same
\* token never both return a replacement.
THEOREM RotationSingleUse == Spec => []SingleUse
<1>2. TypeInv /\ RotationInv /\ [Next]_vars => TypeInv' /\ RotationInv'
  BY NextTypeInv, NextRotationInv
<1>3. RotationInv => SingleUse
  BY DEF RotationInv
<1> QED BY <1>2, <1>3, InitTypeInv, InitRotationInv, PTL DEF Spec

-----------------------------------------------------------------------------
(* Revocation is final *)

\* The life of a family document: created, rotated while active, revoked once,
\* removed by the TTL monitor.
FamilyMoves(f) ==
    \/ family'[f] = family[f]
    \/ family[f].status = "absent" /\ family'[f].status = "active"
    \/ family[f].status = "active" /\ family'[f].status = "active"
    \/ /\ family[f].status = "active"
       /\ family'[f].status \in {"revoked", "replayed"}
       /\ family'[f].currentTokenHash = None
    \/ /\ family'[f].status = "deleted"
       /\ family'[f].currentTokenHash = family[f].currentTokenHash

RevokedUnset ==
    \A f \in Family : family[f].status \in {"revoked", "replayed"} =>
        family[f].currentTokenHash = None

\* Each operation on the collection of families is one of these moves.
LEMMA FamilyOperations ==
    ASSUME TypeInv
    PROVE  /\ \A F : \A status \in {"revoked", "replayed"} :
                 Revoke(F, status) => \A f \in Family : FamilyMoves(f)
           /\ \A r \in Request :
                 /\ request[r].pc = "cas" /\ SwapToken(r)
                 /\ Accepts(request[r].familyId, Hash[request[r].token],
                            request[r].at)
                 => \A f \in Family : FamilyMoves(f)
           /\ \A f \in Family, s \in Subject :
                 CreateFamily(f, s) => \A g \in Family : FamilyMoves(g)
           /\ \A f \in Family :
                 ExpireFamily(f) => \A g \in Family : FamilyMoves(g)
           /\ UNCHANGED family => \A f \in Family : FamilyMoves(f)
<1>0. family \in [Family -> FamilyDoc]
  BY DEF TypeInv, TypeOK
<1>1. ASSUME NEW F, NEW status \in {"revoked", "replayed"}, Revoke(F, status),
             NEW f \in Family
      PROVE  FamilyMoves(f)
  BY <1>0, <1>1 DEF Revoke, FamilyMoves, FamilyDoc
<1>2. ASSUME NEW r \in Request, request[r].pc = "cas", SwapToken(r),
             Accepts(request[r].familyId, Hash[request[r].token],
                     request[r].at),
             NEW f \in Family
      PROVE  FamilyMoves(f)
  <2>1. CASE f = request[r].familyId
    BY <1>0, <1>2, <2>1 DEF Accepts, SwapToken, FamilyMoves, FamilyDoc
  <2>2. CASE f # request[r].familyId
    BY <1>0, <1>2, <2>2 DEF SwapToken, FamilyMoves
  <2> QED BY <2>1, <2>2
<1>3. ASSUME NEW f \in Family, NEW s \in Subject, CreateFamily(f, s),
             NEW g \in Family
      PROVE  FamilyMoves(g)
  BY <1>0, <1>3 DEF CreateFamily, FamilyMoves
<1>4. ASSUME NEW f \in Family, ExpireFamily(f), NEW g \in Family
      PROVE  FamilyMoves(g)
  BY <1>0, <1>4 DEF ExpireFamily, FamilyMoves, FamilyDoc
<1>5. ASSUME UNCHANGED family, NEW f \in Family PROVE FamilyMoves(f)
  BY <1>5 DEF FamilyMoves
<1> QED BY <1>1, <1>2, <1>3, <1>4, <1>5

\* Every step of the system moves every family in one of these ways.
LEMMA NextFamilyMoves ==
    ASSUME TypeInv, [Next]_vars
    PROVE  \A f \in Family : FamilyMoves(f)
<1>1. ASSUME NEW r \in Request, RequestStep(r) \/ RequestFault(r)
      PROVE  \A f \in Family : FamilyMoves(f)
  <2>1. CASE RevokeOrphan(r) \/ FinalizeRevoke(r) \/ RevokeReplay(r)
    BY <2>1, FamilyOperations DEF RevokeOrphan, FinalizeRevoke, RevokeReplay
  <2>2. CASE Cas(r) \/ CasFault(r)
    BY <2>2, FamilyOperations DEF Cas, CasFault
  <2>3. CASE ~(RevokeOrphan(r) \/ FinalizeRevoke(r) \/ RevokeReplay(r)
               \/ Cas(r) \/ CasFault(r))
    <3>1. UNCHANGED family
      BY <1>1, <2>3 DEF RequestStep, RequestFault, FindMarker, FindFamily,
         CreateMarker, RacedMarker, ReadOwner, TakeOver, Recover, Commit,
         FinalizeCommit, Abort, CommitFault, SkipFault, db
    <3> QED BY <3>1, FamilyOperations
  <2> QED BY <2>1, <2>2, <2>3
<1>2. ASSUME NEW i \in Instance, ReconcilerStep(i) \/ ReconcilerFault(i)
      PROVE  \A f \in Family : FamilyMoves(f)
  <2>1. CASE ReconcilerRevoke(i)
    BY <2>1, FamilyOperations DEF ReconcilerRevoke
  <2>2. CASE ~ReconcilerRevoke(i)
    <3>1. UNCHANGED family
      BY <1>2, <2>2 DEF ReconcilerStep, ReconcilerFault, StartReconciliation,
         InspectMarker, ReconcilerCommit, db
    <3> QED BY <3>1, FamilyOperations
  <2> QED BY <2>1, <2>2
<1>3. ASSUME NEW t \in Token, RevokeRefreshToken(t)
      PROVE  \A f \in Family : FamilyMoves(f)
  BY <1>3, FamilyOperations DEF RevokeRefreshToken
<1>4. ASSUME NEW g \in Family, RevokeFamily(g)
      PROVE  \A f \in Family : FamilyMoves(f)
  BY <1>4, FamilyOperations DEF RevokeFamily
<1>5. ASSUME NEW s \in Subject, RevokeSubject(s)
      PROVE  \A f \in Family : FamilyMoves(f)
  BY <1>5, FamilyOperations DEF RevokeSubject
<1>6. CASE \/ \E r \in Request, t \in Token : Present(r, t)
           \/ \E h \in TokenHash : ExpireMarker(h)
           \/ Tick
           \/ UNCHANGED vars
  <2>1. UNCHANGED family
    BY <1>6 DEF Present, ExpireMarker, Tick, vars, db
  <2> QED BY <2>1, FamilyOperations
<1> QED BY <1>1, <1>2, <1>3, <1>4, <1>5, <1>6, FamilyOperations DEF Next

\* A revoked family never becomes active, is never relabelled and never gets a
\* hash again, whatever rotation or repair was under way when it was revoked.
THEOREM RevocationFinal == Spec => RevocationIsFinal
<1> DEFINE Final == \A f \in Family :
          family[f].status \in {"revoked", "replayed"} =>
             /\ family'[f].status \in {family[f].status, "deleted"}
             /\ family'[f].currentTokenHash = None
<1>1. Init => RevokedUnset
  BY DEF Init, RevokedUnset, NoFamilyDoc
<1>2. TypeInv /\ RevokedUnset /\ [Next]_vars => TypeInv' /\ RevokedUnset'
  BY NextTypeInv, NextFamilyMoves DEF RevokedUnset, FamilyMoves
<1>3. TypeInv /\ RevokedUnset /\ [Next]_vars => [Final]_vars
  BY NextFamilyMoves DEF RevokedUnset, FamilyMoves
<1>4. Spec => [][Final]_vars
  BY <1>1, <1>2, <1>3, InitTypeInv, PTL DEF Spec
<1> QED BY <1>4, PTL DEF RevocationIsFinal

-----------------------------------------------------------------------------
(***************************************************************************)
(* Markers and replays.  What a handler or a repair pass does to a marker  *)
(* it decides from what it read before.  The argument that the decision is *)
(* still right when it is carried out: a token a client has received       *)
(* belongs to one family for good, that family is never created again, and *)
(* once no family accepts the token none ever will, because only tokens    *)
(* nobody has received are installed and the clock does not go back.       *)
(***************************************************************************)

\* The family does not rotate any more.
Over(f) == family[f].status # "active" \/ family[f].expiresAt <= now

\* No family accepts the hash.
SpentNow(h) == \A f \in Family : ~Accepts(f, h, now)

\* A hash a family holds is one of its own tokens; the family of a token some
\* client has received was created.
TokensOwned ==
    /\ \A f \in Family, t \in Token :
          family[f].currentTokenHash = Hash[t] => owner[t] = f
    /\ \A t \in delivered : family[owner[t]].status # "absent"

\* A marker, in the collection or in the memory of a handler, speaks of a
\* token its family delivered and lives as long as the family.
MarkerOf(m) ==
    \E t \in delivered :
        /\ m.tokenHash = Hash[t]
        /\ m.familyId = owner[t]
        /\ m.expiresAt = family[owner[t]].expiresAt

MarkersOwned ==
    \A h \in TokenHash : marker[h].status # "absent" =>
        /\ marker[h].tokenHash = h
        /\ MarkerOf(marker[h])
        /\ marker[h].status = "pending" => marker[h].leaseExpiresAt # Absent

HandlersOwned ==
    \A r \in Request :
        /\ request[r].pc # "idle" => request[r].at <= now
        /\ request[r].pc \notin {"idle", "findMarker", "findFamily"} =>
              request[r].familyId = owner[request[r].token]
        /\ request[r].pc \in {"readOwner", "takeOver"} =>
              /\ request[r].seen.tokenHash = Hash[request[r].token]
              /\ request[r].seen.familyId = owner[request[r].token]
              /\ request[r].seen.rotationOperationId = request[r].operationId
              /\ request[r].seen.leaseExpiresAt # Absent
        /\ request[r].pc = "commit" =>
              owner[request[r].next] = request[r].familyId

RepairsOwned ==
    \A i \in Instance :
        /\ reconciler[i].pc # "idle" => reconciler[i].at <= now
        /\ \A m \in reconciler[i].batch : MarkerOf(m)
        /\ reconciler[i].pc = "commit" => MarkerOf(reconciler[i].current)

OwnershipInv == TokensOwned /\ MarkersOwned /\ HandlersOwned /\ RepairsOwned

\* The operation id under which a marker of the hash is held, or is about to
\* be read or used by a handler.
Uses(o, h) ==
    \/ /\ h \in TokenHash /\ marker[h].status # "absent"
       /\ marker[h].rotationOperationId = o
    \/ \E r \in Request :
          /\ request[r].pc \in {"readOwner", "cas"}
          /\ Hash[request[r].token] = h
          /\ request[r].operationId = o

\* An operation id is about one token, and a family that records it has
\* stopped holding that token.
OperationIds ==
    /\ \A h \in TokenHash, o \in Nat : Uses(o, h) => o \in 1 .. operationCount
    /\ \A h, g \in TokenHash, o \in Nat : Uses(o, h) /\ Uses(o, g) => h = g
    /\ \A f \in Family : family[f].lastRotationOperationId <= operationCount
    /\ \A f, g \in Family, h \in TokenHash :
          Uses(family[f].lastRotationOperationId, h) =>
              family[g].currentTokenHash # h

\* Whoever is about to commit a marker does so for a spent token.
CommitsSpent ==
    /\ \A r \in Request : request[r].pc = "finalizeCommit" =>
          SpentNow(Hash[request[r].token])
    /\ \A i \in Instance : reconciler[i].pc = "commit" =>
          SpentNow(reconciler[i].current.tokenHash)

\* A call that presents an exchanged token is on its way to the revocation, or
\* the family no longer rotates.
ReplaysCaught ==
    \A r \in Request : request[r].replay /\ request[r].pc # "idle" =>
        \/ Over(owner[request[r].token])
        \/ /\ request[r].pc = "findMarker"
           /\ marker[Hash[request[r].token]].status = "committed"
        \/ request[r].pc = "revokeReplay"

-----------------------------------------------------------------------------
(* What a step may do, one document or handler at a time *)

\* Families are created once, keep their expiry, stay revoked, and are given
\* only tokens that nobody has received.
StoreStep ==
    /\ \A f \in Family : family[f].status # "absent" =>
          /\ family'[f].status # "absent"
          /\ family'[f].expiresAt = family[f].expiresAt
          /\ family[f].status # "active" => family'[f].status # "active"
    /\ \A f \in Family :
          \/ family'[f].currentTokenHash \in {family[f].currentTokenHash, None}
          \/ \E u \in Token \ delivered :
                /\ owner'[u] = f
                /\ family'[f].currentTokenHash = Hash[u]
    /\ \A t \in Token :
          \/ owner'[t] = owner[t]
          \/ /\ t \notin delivered /\ Spent(t)
             /\ \A r \in Request : request[r].pc = "commit" => request[r].next # t
    /\ delivered \subseteq delivered'
    /\ \A t \in delivered' \ delivered :
          \/ family'[owner'[t]].status = "active"
          \/ \E r \in Request : /\ request[r].pc = "commit"
                                /\ t = request[r].next /\ owner' = owner
    /\ now <= now'

\* The call ends; in order, only where nothing is left to find or to revoke.
Ends(r) ==
    /\ request'[r].pc = "idle"
    /\ faults' = faults =>
          /\ request[r].pc # "findMarker"
          /\ request[r].pc = "revokeReplay" =>
                family'[request[r].familyId].status # "active"

Begins(r) ==
    /\ request[r].pc = "idle"
    /\ request'[r].pc = "findMarker"
    /\ request'[r].token \in delivered
    /\ request'[r].at = now
    /\ request'[r].replay =>
          \E u \in Token : <<request'[r].token, u>> \in exchanges'

\* A marker was found for the presented token.
Meets(r) ==
    LET m == marker[Hash[request[r].token]] IN
    /\ request[r].pc \in {"findMarker", "racedMarker"}
    /\ m.status # "absent"
    /\ request'[r].pc = IF m.status = "committed" THEN "revokeReplay"
                                                  ELSE "readOwner"
    /\ request'[r].seen = m
    /\ request'[r].familyId = m.familyId
    /\ request'[r].operationId = m.rotationOperationId

Chooses(r) ==
    /\ request[r].pc = "findFamily"
    /\ request'[r].pc = "createMarker"
    /\ request'[r].familyId \in Family
    /\ Accepts(request'[r].familyId, Hash[request[r].token], request[r].at)

\* The handler becomes the owner of the marker of its token.
Acquires(r) ==
    /\ request[r].pc \in {"createMarker", "takeOver"}
    /\ request'[r].pc = "cas"
    /\ request'[r].familyId = request[r].familyId
    /\ request'[r].operationId = operationCount + 1
    /\ operationCount' = operationCount + 1

Advances(r) ==
    LET q == request[r]
        m == request[r].seen
        pc == request'[r].pc IN
    /\ request'[r].familyId = q.familyId
    /\ request'[r].operationId = q.operationId
    /\ request'[r].seen = q.seen
    /\ \/ /\ q.pc = "findMarker" /\ pc = "findFamily"
          /\ marker[Hash[q.token]].status = "absent"
       \/ q.pc = "createMarker" /\ pc = "racedMarker"
       \/ /\ q.pc = "readOwner" /\ pc = "finalizeCommit"
          /\ \/ RecordsOperation(m.familyId, m.rotationOperationId)
             \/ ~Accepts(m.familyId, m.tokenHash, q.at)
             \/ m.leaseExpiresAt = Absent
       \/ q.pc = "readOwner" /\ pc = "takeOver"
       \/ q.pc = "cas" /\ pc = "commit" /\ owner'[q.next] = q.familyId
       \/ q.pc = "cas" /\ pc = "recover"
       \/ /\ q.pc = "cas" /\ pc = "finalizeCommit"
          /\ ~Accepts(q.familyId, Hash[q.token], q.at)
       \/ /\ q.pc = "recover" /\ pc = "finalizeCommit"
          /\ ~Accepts(q.familyId, Hash[q.token], now)
       \/ /\ q.pc \in {"commit", "revokeOrphan", "finalizeCommit"}
          /\ pc \in {"revokeOrphan", "revokeOrphanAgain", "finalizeRevoke"}

HandlerStep(r) ==
    \/ request'[r] = request[r]
    \/ Ends(r)
    \/ Begins(r)
    \/ /\ request[r].pc # "idle"
       /\ request'[r].token = request[r].token
       /\ request'[r].at = request[r].at
       /\ request'[r].next = request[r].next
       /\ request'[r].replay = request[r].replay
       /\ Meets(r) \/ Chooses(r) \/ Acquires(r) \/ Advances(r)

\* A handler or a repair pass is about to commit the marker of this hash.
Committing(h) ==
    \/ \E r \in Request :
          /\ request[r].pc \in {"commit", "finalizeCommit"}
          /\ Hash[request[r].token] = h
    \/ \E i \in Instance :
          /\ reconciler[i].pc = "commit"
          /\ reconciler[i].current.tokenHash = h

\* The handler that acquires the marker of this hash.
Acquiring(h) ==
    /\ operationCount' = operationCount + 1
    /\ marker'[h].rotationOperationId = operationCount + 1
    /\ marker'[h].leaseExpiresAt # Absent
    /\ \E r \in Request : Acquires(r) /\ Hash[request[r].token] = h

MarkerStep(h) ==
    \/ marker'[h] = marker[h]
    \/ /\ marker[h].status # "absent" /\ marker'[h].status = "absent"
       /\ marker[h].expiresAt <= now
    \/ /\ marker[h].status = "pending"
       /\ marker'[h] = [marker[h] EXCEPT !.status = "committed",
                                         !.leaseExpiresAt = Absent]
       /\ Committing(h)
    \/ /\ marker[h].status = "pending" /\ marker'[h].status = "pending"
       /\ marker'[h].tokenHash = marker[h].tokenHash
       /\ marker'[h].familyId = marker[h].familyId
       /\ marker'[h].expiresAt = marker[h].expiresAt
       /\ Acquiring(h)
    \/ /\ marker[h].status = "absent" /\ marker'[h].status = "pending"
       /\ marker'[h].tokenHash = h
       /\ \E r \in Request :
             /\ request[r].pc = "createMarker" /\ Hash[request[r].token] = h
             /\ marker'[h].familyId = request[r].familyId
             /\ marker'[h].expiresAt = family[request[r].familyId].expiresAt
       /\ Acquiring(h)

\* A repair pass starts from pending markers, and reaches a commit only for a
\* family that did not accept the token of the marker.
RepairStep(i) ==
    \/ reconciler'[i] = reconciler[i]
    \/ /\ reconciler'[i].batch \subseteq reconciler[i].batch
       /\ reconciler'[i].pc # "idle" =>
             /\ reconciler[i].pc # "idle"
             /\ reconciler'[i].at = reconciler[i].at
       /\ reconciler'[i].pc = "commit" =>
             /\ reconciler'[i].current \in reconciler[i].batch
             /\ ~Accepts(reconciler'[i].current.familyId,
                         reconciler'[i].current.tokenHash, reconciler[i].at)
    \/ /\ \A m \in reconciler'[i].batch :
             \E h \in TokenHash : m = marker[h] /\ marker[h].status = "pending"
       /\ reconciler'[i].at = now
       /\ reconciler'[i].pc = "inspect"

\* A family records an operation only when the handler of that operation has
\* spent its token.
RecordStep ==
    \A f \in Family :
        \/ family'[f].lastRotationOperationId
              \in {family[f].lastRotationOperationId, Absent}
        \/ \E r \in Request :
              /\ request[r].pc = "cas"
              /\ family'[f].lastRotationOperationId = request[r].operationId
              /\ \A g \in Family :
                    family'[g].currentTokenHash # Hash[request[r].token]

\* An exchange is recorded when the marker of its token is committed.
ExchangeStep ==
    \A x \in exchanges' \ exchanges :
        \E r \in Request :
            /\ request[r].pc = "commit" /\ x[1] = request[r].token
            /\ marker'[Hash[x[1]]].status = "committed"

-----------------------------------------------------------------------------
(* What the steps of the store keep *)

\* What is true of a delivered token stays true of it.
TokenKept(t) ==
    /\ t \in delivered' /\ owner'[t] = owner[t] /\ owner[t] \in Family
    /\ Spent(t) => \A f \in Family : family'[f].currentTokenHash # Hash[t]
    /\ family'[owner[t]].status # "absent"
    /\ family'[owner[t]].expiresAt = family[owner[t]].expiresAt
    /\ Over(owner[t]) =>
          \/ family'[owner[t]].status # "active"
          \/ family'[owner[t]].expiresAt <= now'
    /\ SpentNow(Hash[t]) => SpentNow(Hash[t])'

LEMMA StoreKeepsTokens ==
    ASSUME TypeInv, TypeInv', TokensOwned, StoreStep, NEW t \in delivered
    PROVE  TokenKept(t)
<1>1. /\ t \in Token /\ owner[t] \in Family /\ Hash[t] # None
      /\ family[owner[t]].status # "absent"
      /\ \A u \in Token : Hash[u] = Hash[t] => u = t
  BY HashFacts DEF TypeInv, TypeOK, DeliveredRefs, TokensOwned
<1>2. /\ now \in Nat /\ now' \in Nat
      /\ \A f \in Family : /\ family[f] \in FamilyDoc
                           /\ family[f].expiresAt \in Nat
                           /\ family'[f].expiresAt \in Nat
  BY DEF TypeInv, TypeOK, FamilyDoc
<1>3. t \in delivered' /\ owner'[t] = owner[t]
  BY <1>1 DEF StoreStep
<1>4. ASSUME NEW f \in Family, family'[f].currentTokenHash = Hash[t]
      PROVE  family[f].currentTokenHash = Hash[t]
  BY <1>1, <1>4 DEF StoreStep
<1>5. /\ family'[owner[t]].status # "absent"
      /\ family'[owner[t]].expiresAt = family[owner[t]].expiresAt
  BY <1>1 DEF StoreStep
<1>6. ASSUME Over(owner[t])
      PROVE  \/ family'[owner[t]].status # "active"
             \/ family'[owner[t]].expiresAt <= now'
  <2>1. CASE family[owner[t]].status # "active"
    BY <1>1, <2>1 DEF StoreStep
  <2>2. CASE family[owner[t]].expiresAt <= now
    <3>1. now <= now'
      BY DEF StoreStep
    <3> QED BY <1>1, <1>2, <1>5, <2>2, <3>1
  <2> QED BY <1>6, <2>1, <2>2 DEF Over
<1>7. ASSUME SpentNow(Hash[t])
      PROVE  SpentNow(Hash[t])'
  <2>1. ASSUME NEW f \in Family, Accepts(f, Hash[t], now)'
        PROVE  FALSE
    <3>1. /\ family'[f].status = "active"
          /\ family'[f].currentTokenHash = Hash[t]
          /\ family'[f].expiresAt > now'
      BY <2>1 DEF Accepts
    <3>2. family[f].currentTokenHash = Hash[t] /\ owner[t] = f
      BY <1>1, <1>4, <3>1 DEF TokensOwned
    <3>3. /\ family[f].status = "active"
          /\ family'[f].expiresAt = family[f].expiresAt
      BY <1>1, <3>1, <3>2 DEF StoreStep
    <3>4. now <= now'
      BY DEF StoreStep
    <3>5. family[f].expiresAt > now
      BY <1>2, <3>1, <3>3, <3>4
    <3> QED BY <1>7, <3>2, <3>3, <3>5 DEF SpentNow, Accepts
  <2> QED BY <2>1 DEF SpentNow
<1> QED BY <1>1, <1>3, <1>4, <1>5, <1>6, <1>7 DEF TokenKept, Spent

\* A family that rejected a token when a handler began, rejects it now.
LEMMA RejectedNow ==
    ASSUME TypeInv, TokensOwned, NEW t \in delivered, NEW f, f = owner[t],
           NEW time \in Nat, time <= now, ~Accepts(f, Hash[t], time)
    PROVE  SpentNow(Hash[t])
<1>1. t \in Token /\ f \in Family
  BY DEF TypeInv, TypeOK, DeliveredRefs
<1>2. ~Accepts(f, Hash[t], now)
  <2>1. family[f].expiresAt \in Nat /\ now \in Nat
    BY <1>1 DEF TypeInv, TypeOK, FamilyDoc
  <2> QED BY <2>1 DEF Accepts
<1> QED BY <1>1, <1>2 DEF SpentNow, Accepts, TokensOwned

\* A spent token is accepted by no family.
LEMMA SpentIsSpentNow ==
    ASSUME NEW t, Spent(t) PROVE SpentNow(Hash[t])
BY DEF Spent, SpentNow, Accepts

\* A marker keeps speaking of its token.
LEMMA MarkerOfKept ==
    ASSUME TypeInv, TypeInv', TokensOwned, StoreStep, NEW m, MarkerOf(m)
    PROVE  \E t \in delivered' : /\ m.tokenHash = Hash[t]
                                 /\ m.familyId = owner'[t]
                                 /\ m.expiresAt = family'[owner'[t]].expiresAt
BY StoreKeepsTokens DEF MarkerOf, TokenKept

\* Ownership of the tokens themselves is kept by every step of the store.
LEMMA TokensOwnedKept ==
    ASSUME TypeInv, TypeInv', TokensOwned, HandlersOwned, StoreStep
    PROVE  TokensOwned'
<1>1. ASSUME NEW t \in delivered' PROVE family'[owner'[t]].status # "absent"
  <2>1. CASE t \in delivered
    BY <2>1, StoreKeepsTokens DEF TokenKept
  <2>2. CASE t \notin delivered
    <3>1. CASE family'[owner'[t]].status = "active"
      BY <3>1
    <3>2. CASE \E r \in Request : /\ request[r].pc = "commit"
                                  /\ t = request[r].next /\ owner' = owner
      <4>1. PICK r \in Request : /\ request[r].pc = "commit"
                                 /\ t = request[r].next /\ owner' = owner
        BY <3>2
      <4>2. /\ request[r].token \in delivered
            /\ owner[t] = owner[request[r].token]
        BY <4>1 DEF HandlersOwned, TypeInv, RequestRefs
      <4> QED BY <4>1, <4>2, StoreKeepsTokens DEF TokenKept
    <3> QED BY <1>1, <2>2, <3>1, <3>2 DEF StoreStep
  <2> QED BY <2>1, <2>2
<1>2. ASSUME NEW f \in Family, NEW t \in Token,
             family'[f].currentTokenHash = Hash[t]
      PROVE  owner'[t] = f
  <2>1. CASE family[f].currentTokenHash = Hash[t]
    BY <2>1 DEF StoreStep, TokensOwned, Spent
  <2>2. CASE family[f].currentTokenHash # Hash[t]
    BY <1>2, <2>2, HashFacts DEF StoreStep
  <2> QED BY <2>1, <2>2
<1> QED BY <1>1, <1>2 DEF TokensOwned

\* Handlers keep to the family that owns the token they were given.
LEMMA HandlersOwnedKept ==
    ASSUME TypeInv, TypeInv', OwnershipInv, StoreStep,
           \A r \in Request : HandlerStep(r)
    PROVE  HandlersOwned'
<1> SUFFICES ASSUME NEW r \in Request
    PROVE  /\ request'[r].pc # "idle" => request'[r].at <= now'
           /\ request'[r].pc \notin {"idle", "findMarker", "findFamily"} =>
                 request'[r].familyId = owner'[request'[r].token]
           /\ request'[r].pc \in {"readOwner", "takeOver"} =>
                 /\ request'[r].seen.tokenHash = Hash[request'[r].token]
                 /\ request'[r].seen.familyId = owner'[request'[r].token]
                 /\ request'[r].seen.rotationOperationId = request'[r].operationId
                 /\ request'[r].seen.leaseExpiresAt # Absent
           /\ request'[r].pc = "commit" =>
                 owner'[request'[r].next] = request'[r].familyId
  BY DEF HandlersOwned
<1> DEFINE q == request[r]
           p == request'[r]
<1>1. /\ now <= now' /\ now \in Nat /\ now' \in Nat
      /\ q.at \in Nat /\ p.at \in Nat
  BY DEF StoreStep, TypeInv, TypeOK, RequestState
<1>2. /\ q.pc # "idle" => /\ q.at <= now /\ q.token \in delivered
                          /\ owner'[q.token] = owner[q.token]
                          /\ q.token \in Token /\ q.next \in Token
      /\ q.pc \notin {"idle", "findMarker", "findFamily"} =>
            q.familyId = owner[q.token]
      /\ q.pc \in {"readOwner", "takeOver"} =>
            /\ q.seen.tokenHash = Hash[q.token]
            /\ q.seen.familyId = owner[q.token]
            /\ q.seen.rotationOperationId = q.operationId
            /\ q.seen.leaseExpiresAt # Absent
      /\ q.pc = "commit" => owner[q.next] = q.familyId
  BY IssuedTokens, StoreKeepsTokens
     DEF OwnershipInv, HandlersOwned, TypeInv, RequestRefs, TokenKept
<1>3. CASE p = q
  <2>1. q.pc = "commit" => owner'[q.next] = owner[q.next]
    BY <1>2 DEF StoreStep
  <2>2. q.pc # "idle" => q.at <= now'
    BY <1>1, <1>2
  <2> QED BY <1>2, <1>3, <2>1, <2>2
<1>4. CASE Ends(r)
  BY <1>4 DEF Ends
<1>5. CASE Begins(r)
  BY <1>1, <1>5 DEF Begins
<1>6. CASE /\ q.pc # "idle" /\ p.token = q.token /\ p.at = q.at
           /\ p.next = q.next
           /\ Meets(r) \/ Chooses(r) \/ Acquires(r) \/ Advances(r)
  <2>1. p.at <= now'
    BY <1>1, <1>2, <1>6
  <2>2. CASE Meets(r)
    <3> DEFINE m == marker[Hash[q.token]]
    <3>1. /\ m.status # "absent" /\ p.seen = m /\ p.familyId = m.familyId
          /\ p.operationId = m.rotationOperationId
          /\ p.pc = IF m.status = "committed" THEN "revokeReplay" ELSE "readOwner"
      BY <2>2 DEF Meets
    <3>2. Hash[q.token] \in TokenHash /\ m \in MarkerDoc
      BY <1>2, <1>6, HashFacts DEF TypeInv, TypeOK
    <3>3. /\ m.tokenHash = Hash[q.token] /\ MarkerOf(m)
          /\ m.status = "pending" => m.leaseExpiresAt # Absent
      BY <3>1, <3>2 DEF OwnershipInv, MarkersOwned
    <3>4. m.familyId = owner[q.token]
      <4>1. PICK t \in delivered : m.tokenHash = Hash[t] /\ m.familyId = owner[t]
        BY <3>3 DEF MarkerOf
      <4>2. t = q.token
        BY <1>2, <1>6, <3>3, <4>1, HashFacts DEF TypeInv, TypeOK
      <4> QED BY <4>1, <4>2
    <3>5. m.status \in {"pending", "committed"}
      BY <3>1, <3>2 DEF MarkerDoc
    <3> QED BY <1>2, <1>6, <2>1, <3>1, <3>3, <3>4, <3>5
  <2>3. CASE Chooses(r)
    <3>1. owner[q.token] = p.familyId
      BY <1>2, <1>6, <2>3 DEF Chooses, Accepts, OwnershipInv, TokensOwned
    <3> QED BY <1>2, <1>6, <2>1, <2>3, <3>1 DEF Chooses
  <2>4. CASE Acquires(r)
    BY <1>2, <1>6, <2>1, <2>4 DEF Acquires
  <2>5. CASE Advances(r)
    <3>1. /\ p.familyId = q.familyId /\ p.operationId = q.operationId
          /\ p.seen = q.seen
          /\ p.pc \notin {"idle", "findMarker", "findFamily"} =>
                q.pc \notin {"idle", "findMarker", "findFamily"}
          /\ p.pc \in {"readOwner", "takeOver"} => q.pc \in {"readOwner", "takeOver"}
          /\ p.pc = "commit" => owner'[q.next] = q.familyId
      BY <2>5 DEF Advances
    <3> QED BY <1>2, <1>6, <2>1, <3>1
  <2> QED BY <1>6, <2>2, <2>3, <2>4, <2>5
<1> HIDE DEF p, q
<1> QED BY <1>3, <1>4, <1>5, <1>6 DEF HandlerStep, p, q

\* Markers keep speaking of the token they were created for.
LEMMA MarkersOwnedKept ==
    ASSUME TypeInv, TypeInv', OwnershipInv, StoreStep,
           \A h \in TokenHash : MarkerStep(h)
    PROVE  MarkersOwned'
<1> DEFINE Of(x) == \E t \in delivered' :
                       /\ x.tokenHash = Hash[t] /\ x.familyId = owner'[t]
                       /\ x.expiresAt = family'[owner'[t]].expiresAt
<1> SUFFICES ASSUME NEW h \in TokenHash, marker'[h].status # "absent"
             PROVE  /\ marker'[h].tokenHash = h
                    /\ Of(marker'[h])
                    /\ marker'[h].status = "pending" =>
                          marker'[h].leaseExpiresAt # Absent
  BY DEF MarkersOwned, MarkerOf
<1> DEFINE m == marker'[h]
           Kept == /\ marker[h].status # "absent"
                   /\ m.tokenHash = marker[h].tokenHash
                   /\ m.familyId = marker[h].familyId
                   /\ m.expiresAt = marker[h].expiresAt
<1>1. marker[h] \in MarkerDoc
  BY DEF TypeInv, TypeOK
<1>2. ASSUME Kept PROVE m.tokenHash = h /\ Of(m)
  <2>1. marker[h].tokenHash = h /\ MarkerOf(marker[h])
    BY <1>2 DEF OwnershipInv, MarkersOwned
  <2>2. PICK t \in delivered' :
           /\ marker[h].tokenHash = Hash[t] /\ marker[h].familyId = owner'[t]
           /\ marker[h].expiresAt = family'[owner'[t]].expiresAt
    BY <2>1, MarkerOfKept DEF OwnershipInv
  <2> QED BY <1>2, <2>1, <2>2
<1>3. \/ Kept /\ (m.status = "pending" => m.leaseExpiresAt # Absent)
      \/ m.tokenHash = h /\ m.leaseExpiresAt # Absent /\ Of(m)
  <2>1. CASE marker'[h] = marker[h]
    BY <2>1 DEF OwnershipInv, MarkersOwned
  <2>2. CASE /\ marker[h].status = "pending"
             /\ marker'[h] = [marker[h] EXCEPT !.status = "committed",
                                               !.leaseExpiresAt = Absent]
    <3>1. Kept /\ m.status = "committed"
      BY <1>1, <2>2 DEF MarkerDoc
    <3> QED BY <3>1
  <2>3. CASE /\ marker[h].status = "pending" /\ marker'[h].status = "pending"
             /\ marker'[h].tokenHash = marker[h].tokenHash
             /\ marker'[h].familyId = marker[h].familyId
             /\ marker'[h].expiresAt = marker[h].expiresAt
             /\ Acquiring(h)
    BY <2>3 DEF Acquiring
  <2>4. CASE /\ m.tokenHash = h /\ Acquiring(h)
             /\ \E r \in Request :
                   /\ request[r].pc = "createMarker" /\ Hash[request[r].token] = h
                   /\ m.familyId = request[r].familyId
                   /\ m.expiresAt = family[request[r].familyId].expiresAt
    <3>1. PICK r \in Request :
             /\ request[r].pc = "createMarker" /\ Hash[request[r].token] = h
             /\ m.familyId = request[r].familyId
             /\ m.expiresAt = family[request[r].familyId].expiresAt
      BY <2>4
    <3> DEFINE t == request[r].token
    <3>2. /\ t \in delivered /\ request[r].familyId = owner[t]
      BY <3>1 DEF TypeInv, RequestRefs, OwnershipInv, HandlersOwned
    <3>3. /\ t \in delivered' /\ owner'[t] = owner[t]
          /\ family'[owner[t]].expiresAt = family[owner[t]].expiresAt
      BY <3>2, StoreKeepsTokens DEF TokenKept, OwnershipInv
    <3> HIDE DEF t
    <3>4. /\ m.tokenHash = Hash[t] /\ m.familyId = owner'[t]
          /\ m.expiresAt = family'[owner'[t]].expiresAt
      BY <2>4, <3>1, <3>2, <3>3 DEF t
    <3>5. Of(m)
      BY <3>3, <3>4
    <3>6. m.leaseExpiresAt # Absent
      BY <2>4 DEF Acquiring
    <3> HIDE DEF Of, Kept
    <3> QED BY <2>4, <3>5, <3>6
  <2> QED BY <2>1, <2>2, <2>3, <2>4 DEF MarkerStep
<1> HIDE DEF Of, Kept
<1> QED BY <1>2, <1>3

\* So do the markers a repair pass has read.
LEMMA RepairsOwnedKept ==
    ASSUME TypeInv, TypeInv', OwnershipInv, StoreStep,
           \A i \in Instance : RepairStep(i)
    PROVE  RepairsOwned'
<1> DEFINE Of(m) == \E t \in delivered' :
                       /\ m.tokenHash = Hash[t] /\ m.familyId = owner'[t]
                       /\ m.expiresAt = family'[owner'[t]].expiresAt
<1>1. \A m : MarkerOf(m) => Of(m)
  BY MarkerOfKept DEF OwnershipInv
<1> SUFFICES ASSUME NEW i \in Instance
             PROVE  /\ reconciler'[i].pc # "idle" => reconciler'[i].at <= now'
                    /\ \A m \in reconciler'[i].batch : Of(m)
                    /\ reconciler'[i].pc = "commit" => Of(reconciler'[i].current)
  BY DEF RepairsOwned, MarkerOf
<1> HIDE DEF Of
<1>2. /\ now <= now' /\ now \in Nat /\ now' \in Nat
      /\ reconciler[i].at \in Nat
  BY DEF StoreStep, TypeInv, TypeOK, ReconcilerState
<1>3. /\ reconciler[i].pc # "idle" => reconciler[i].at <= now
      /\ \A m \in reconciler[i].batch : Of(m)
      /\ reconciler[i].pc = "commit" => Of(reconciler[i].current)
  BY <1>1 DEF OwnershipInv, RepairsOwned
<1>4. CASE reconciler'[i] = reconciler[i]
  BY <1>2, <1>3, <1>4
<1>5. CASE /\ reconciler'[i].batch \subseteq reconciler[i].batch
           /\ reconciler'[i].pc # "idle" =>
                 /\ reconciler[i].pc # "idle"
                 /\ reconciler'[i].at = reconciler[i].at
           /\ reconciler'[i].pc = "commit" =>
                 reconciler'[i].current \in reconciler[i].batch
  <2>1. reconciler'[i].pc # "idle" => reconciler'[i].at <= now'
    BY <1>2, <1>3, <1>5
  <2> QED BY <1>3, <1>5, <2>1
<1>6. CASE /\ \A m \in reconciler'[i].batch :
                 \E h \in TokenHash : m = marker[h] /\ marker[h].status = "pending"
           /\ reconciler'[i].at = now
           /\ reconciler'[i].pc = "inspect"
  <2>1. \A m \in reconciler'[i].batch : MarkerOf(m)
    BY <1>6 DEF OwnershipInv, MarkersOwned
  <2> QED BY <1>1, <1>2, <1>6, <2>1
<1> QED BY <1>4, <1>5, <1>6 DEF RepairStep

\* The markers and handlers that refer to an operation id are about delivered
\* tokens, whose hashes tell them apart.
LEMMA UsesDelivered ==
    ASSUME TypeInv, OwnershipInv, NEW o, NEW h, Uses(o, h)
    PROVE  h \in TokenHash /\ \E t \in delivered : h = Hash[t]
<1>1. CASE h \in TokenHash /\ marker[h].status # "absent"
  BY <1>1 DEF OwnershipInv, MarkersOwned, MarkerOf
<1>2. CASE \E r \in Request : /\ request[r].pc \in {"readOwner", "cas"}
                              /\ Hash[request[r].token] = h
  <2>1. PICK r \in Request : /\ request[r].pc \in {"readOwner", "cas"}
                             /\ Hash[request[r].token] = h
    BY <1>2
  <2>2. request[r].token \in delivered /\ request[r].token \in Token
    BY <2>1 DEF TypeInv, TypeOK, RequestRefs
  <2> QED BY <2>1, <2>2, HashFacts
<1> QED BY <1>1, <1>2 DEF Uses

\* An operation id that is used after a step was used for the same hash
\* before, or was drawn in this step for the hash of the handler's token.
LEMMA UsesStep ==
    ASSUME TypeInv, OwnershipInv,
           \A r \in Request : HandlerStep(r),
           \A h \in TokenHash : MarkerStep(h),
           NEW o, NEW h \in TokenHash, Uses(o, h)'
    PROVE  \/ Uses(o, h)
           \/ /\ o = operationCount + 1 /\ operationCount' = operationCount + 1
              /\ \E r \in Request : Acquires(r) /\ Hash[request[r].token] = h
<1> DEFINE New == /\ o = operationCount + 1
                  /\ operationCount' = operationCount + 1
                  /\ \E r \in Request : Acquires(r) /\ Hash[request[r].token] = h
<1>1. CASE marker'[h].status # "absent" /\ marker'[h].rotationOperationId = o
  <2>1. \/ Acquiring(h)
        \/ /\ marker[h].status # "absent"
           /\ marker'[h].rotationOperationId = marker[h].rotationOperationId
    <3>1. marker[h] \in MarkerDoc
      BY DEF TypeInv, TypeOK
    <3>2. ASSUME marker[h].status = "pending",
                 marker'[h] = [marker[h] EXCEPT !.status = "committed",
                                                !.leaseExpiresAt = Absent]
          PROVE  marker'[h].rotationOperationId = marker[h].rotationOperationId
      BY <3>1, <3>2 DEF MarkerDoc
    <3> QED BY <1>1, <3>2 DEF MarkerStep
  <2>2. CASE Acquiring(h)
    BY <1>1, <2>2 DEF Acquiring
  <2> QED BY <1>1, <2>1, <2>2 DEF Uses
<1>2. CASE \E r \in Request : /\ request'[r].pc \in {"readOwner", "cas"}
                              /\ Hash[request'[r].token] = h
                              /\ request'[r].operationId = o
  <2>1. PICK r \in Request : /\ request'[r].pc \in {"readOwner", "cas"}
                             /\ Hash[request'[r].token] = h
                             /\ request'[r].operationId = o
    BY <1>2
  <2>2. CASE request'[r] = request[r]
    BY <2>1, <2>2 DEF Uses
  <2>3. CASE /\ request'[r].token = request[r].token
             /\ Meets(r)
    BY <2>1, <2>3 DEF Meets, Uses
  <2>4. CASE /\ request'[r].token = request[r].token
             /\ Acquires(r)
    BY <2>1, <2>4 DEF Acquires
  <2>5. CASE Ends(r) \/ Begins(r) \/ Chooses(r) \/ Advances(r)
    BY <2>1, <2>5 DEF Ends, Begins, Chooses, Advances
  <2> QED BY <2>2, <2>3, <2>4, <2>5 DEF HandlerStep
<1> QED BY <1>1, <1>2 DEF Uses

\* Only one handler draws an operation id in a step.
OneAcquires ==
    \A r, x \in Request : Acquires(r) /\ Acquires(x) => r = x

\* Operation ids stay about one token each, and a recorded one about a token
\* its family has stopped holding.
LEMMA OperationIdsKept ==
    ASSUME TypeInv, TypeInv', OwnershipInv, OperationIds, StoreStep, RecordStep,
           \A r \in Request : HandlerStep(r), OneAcquires,
           \A h \in TokenHash : MarkerStep(h),
           operationCount' \in {operationCount, operationCount + 1}
    PROVE  OperationIds'
<1> DEFINE New(o, h) ==
              /\ o = operationCount + 1 /\ operationCount' = operationCount + 1
              /\ \E r \in Request : Acquires(r) /\ Hash[request[r].token] = h
<1>1. /\ operationCount \in Nat
      /\ \A f \in Family : /\ family[f].lastRotationOperationId \in Nat
                           /\ family'[f].lastRotationOperationId \in Nat
  BY DEF TypeInv, TypeOK, FamilyDoc
<1>2. ASSUME NEW h \in TokenHash, NEW o \in Nat, Uses(o, h)'
      PROVE  Uses(o, h) \/ New(o, h)
  BY <1>2, UsesStep
<1>3. ASSUME NEW h \in TokenHash, NEW o \in Nat, Uses(o, h)
      PROVE  o \in 1 .. operationCount /\ o # operationCount + 1
  BY <1>1, <1>3 DEF OperationIds
<1>4. ASSUME NEW h \in TokenHash, NEW o \in Nat, Uses(o, h)'
      PROVE  o \in 1 .. operationCount'
  BY <1>1, <1>2, <1>3, <1>4
<1>5. ASSUME NEW h \in TokenHash, NEW g \in TokenHash, NEW o \in Nat,
             Uses(o, h)', Uses(o, g)'
      PROVE  h = g
  <2>1. CASE Uses(o, h) /\ Uses(o, g)
    BY <2>1 DEF OperationIds
  <2>2. CASE New(o, h) /\ New(o, g)
    BY <2>2 DEF OneAcquires
  <2> QED BY <1>2, <1>3, <1>5, <2>1, <2>2
<1>6. ASSUME NEW h \in TokenHash, NEW o \in Nat, Uses(o, h),
             \A g \in Family : family[g].currentTokenHash # h
      PROVE  \A g \in Family : family'[g].currentTokenHash # h
  <2>1. PICK t \in delivered : h = Hash[t]
    BY <1>6, UsesDelivered
  <2> QED BY <1>6, <2>1, StoreKeepsTokens DEF TokenKept, Spent, OwnershipInv
<1>7. ASSUME NEW f \in Family
      PROVE  /\ family'[f].lastRotationOperationId <= operationCount
             /\ \A g \in Family, h \in TokenHash :
                   Uses(family'[f].lastRotationOperationId, h) =>
                       family'[g].currentTokenHash # h
  <2> DEFINE last == family[f].lastRotationOperationId
             o == family'[f].lastRotationOperationId
  <2>1. CASE o = last
    BY <1>1, <1>6, <2>1 DEF OperationIds
  <2>2. CASE o = Absent
    BY <1>1, <1>3, <2>2 DEF Absent
  <2>3. CASE \E r \in Request :
                /\ request[r].pc = "cas" /\ o = request[r].operationId
                /\ \A g \in Family :
                      family'[g].currentTokenHash # Hash[request[r].token]
    <3>1. PICK r \in Request :
                /\ request[r].pc = "cas" /\ o = request[r].operationId
                /\ \A g \in Family :
                      family'[g].currentTokenHash # Hash[request[r].token]
      BY <2>3
    <3>2. Uses(o, Hash[request[r].token]) /\ o \in Nat
      BY <1>1, <3>1 DEF Uses
    <3>3. Hash[request[r].token] \in TokenHash
      BY <3>2, UsesDelivered
    <3>4. \A h \in TokenHash : Uses(o, h) => h = Hash[request[r].token]
      BY <3>2, <3>3 DEF OperationIds
    <3>5. o <= operationCount
      BY <1>1, <1>3, <3>2, <3>3
    <3> QED BY <3>1, <3>4, <3>5
  <2> QED BY <2>1, <2>2, <2>3 DEF RecordStep
<1>8. \A f \in Family : family'[f].lastRotationOperationId <= operationCount'
  BY <1>1, <1>7
<1>9. ASSUME NEW f \in Family, NEW g \in Family, NEW h \in TokenHash,
             Uses(family[f].lastRotationOperationId, h)'
      PROVE  family'[g].currentTokenHash # h
  <2> DEFINE o == family'[f].lastRotationOperationId
  <2>1. Uses(o, h) \/ New(o, h)
    BY <1>1, <1>2, <1>9 DEF Uses
  <2>2. ~New(o, h)
    BY <1>1, <1>7
  <2> QED BY <1>7, <2>1, <2>2
<1> QED BY <1>4, <1>5, <1>8, <1>9 DEF OperationIds

\* A commit under way stays a commit of a spent token: handlers and repair
\* passes reach it only by finding the token refused.
LEMMA CommitsSpentKept ==
    ASSUME TypeInv, TypeInv', OwnershipInv, OperationIds, CommitsSpent,
           StoreStep, \A r \in Request : HandlerStep(r),
           \A i \in Instance : RepairStep(i)
    PROVE  CommitsSpent'
<1>1. ASSUME NEW t \in delivered, SpentNow(Hash[t])
      PROVE  SpentNow(Hash[t])'
  BY <1>1, StoreKeepsTokens DEF TokenKept, OwnershipInv
<1>2. ASSUME NEW r \in Request, request'[r].pc = "finalizeCommit"
      PROVE  SpentNow(Hash[request[r].token])'
  <2> DEFINE q == request[r]
  <2>1. /\ q.pc # "idle" => q.token \in delivered /\ q.at \in Nat /\ q.at <= now
        /\ q.pc \in {"readOwner", "cas", "recover"} => q.familyId = owner[q.token]
        /\ now \in Nat /\ now <= now
    BY DEF TypeInv, TypeOK, RequestRefs, RequestState, OwnershipInv, HandlersOwned
  <2>2. CASE request'[r] = q
    <3>1. SpentNow(Hash[q.token]) /\ q.token \in delivered
      BY <1>2, <2>1, <2>2 DEF CommitsSpent
    <3> QED BY <1>1, <2>2, <3>1
  <2>3. CASE Advances(r) /\ q.pc # "idle" /\ request'[r].token = q.token
    <3>1. q.token \in delivered
      BY <2>1, <2>3
    <3>2. CASE /\ q.pc = "cas" /\ ~Accepts(q.familyId, Hash[q.token], q.at)
      BY <1>1, <2>1, <2>3, <3>1, <3>2, RejectedNow DEF OwnershipInv
    <3>3. CASE /\ q.pc = "recover" /\ ~Accepts(q.familyId, Hash[q.token], now)
      BY <1>1, <2>1, <2>3, <3>1, <3>3, RejectedNow DEF OwnershipInv
    <3>4. CASE q.pc = "readOwner"
      <4> DEFINE m == q.seen
      <4>1. /\ m.tokenHash = Hash[q.token] /\ m.familyId = owner[q.token]
            /\ m.rotationOperationId = q.operationId /\ m.leaseExpiresAt # Absent
        BY <3>4 DEF OwnershipInv, HandlersOwned
      <4>2. CASE ~Accepts(m.familyId, m.tokenHash, q.at)
        BY <1>1, <2>1, <2>3, <3>1, <4>1, <4>2, RejectedNow DEF OwnershipInv
      <4>3. CASE RecordsOperation(m.familyId, m.rotationOperationId)
        <5>1. owner[q.token] \in Family /\ q.operationId \in Nat
          BY <3>1 DEF TypeInv, TypeOK, DeliveredRefs, RequestState
        <5>2. /\ family[owner[q.token]].lastRotationOperationId = q.operationId
              /\ Uses(q.operationId, Hash[q.token])
          BY <3>4, <4>1, <4>3 DEF RecordsOperation, Uses
        <5>3. Hash[q.token] \in TokenHash
          BY <5>2, UsesDelivered
        <5>4. Spent(q.token)
          BY <5>1, <5>2, <5>3 DEF OperationIds, Spent
        <5> QED BY <1>1, <2>3, <3>1, <5>4, SpentIsSpentNow
      <4> QED BY <1>2, <2>3, <3>4, <4>1, <4>2, <4>3 DEF Advances
    <3> QED BY <1>2, <2>3, <3>2, <3>3, <3>4 DEF Advances
  <2>4. CASE Ends(r) \/ Begins(r) \/ Meets(r) \/ Chooses(r) \/ Acquires(r)
    BY <1>2, <2>4 DEF Ends, Begins, Meets, Chooses, Acquires
  <2> QED BY <2>2, <2>3, <2>4 DEF HandlerStep
<1>3. ASSUME NEW i \in Instance, reconciler'[i].pc = "commit"
      PROVE  SpentNow(reconciler[i].current.tokenHash)'
  <2> DEFINE m == reconciler'[i].current
  <2>1. /\ reconciler[i].pc # "idle" => reconciler[i].at <= now
        /\ reconciler[i].at \in Nat
    BY DEF OwnershipInv, RepairsOwned, TypeInv, TypeOK, ReconcilerState
  <2>2. CASE reconciler'[i] = reconciler[i]
    <3>1. SpentNow(m.tokenHash) /\ MarkerOf(m)
      BY <1>3, <2>2 DEF CommitsSpent, OwnershipInv, RepairsOwned
    <3> QED BY <1>1, <3>1 DEF MarkerOf
  <2>3. CASE /\ m \in reconciler[i].batch /\ reconciler[i].pc # "idle"
             /\ ~Accepts(m.familyId, m.tokenHash, reconciler[i].at)
    <3>1. PICK t \in delivered : m.tokenHash = Hash[t] /\ m.familyId = owner[t]
      BY <2>3 DEF OwnershipInv, RepairsOwned, MarkerOf
    <3>2. SpentNow(Hash[t])
      BY <2>1, <2>3, <3>1, RejectedNow DEF OwnershipInv
    <3> QED BY <1>1, <3>1, <3>2
  <2> QED BY <1>3, <2>2, <2>3 DEF RepairStep
<1> QED BY <1>2, <1>3 DEF CommitsSpent

\* The markers that are committed after a step are about spent tokens.
LEMMA CommittedIsSpentKept ==
    ASSUME TypeInv, TypeInv', RotationInv, OwnershipInv, CommitsSpent,
           CommittedIsSpent, StoreStep, \A h \in TokenHash : MarkerStep(h)
    PROVE  CommittedIsSpent'
<1>1. ASSUME NEW h \in TokenHash, marker'[h].status = "committed"
      PROVE  SpentNow(h)'
  <2>1. /\ marker[h].status # "absent" /\ MarkerOf(marker[h])
        /\ marker[h].tokenHash = h
    BY <1>1 DEF MarkerStep, OwnershipInv, MarkersOwned
  <2>2. SpentNow(h)
    <3>1. CASE marker[h].status = "committed"
      BY <3>1 DEF CommittedIsSpent, SpentNow
    <3>2. CASE Committing(h)
      <4>1. CASE \E r \in Request : /\ request[r].pc = "commit"
                                    /\ Hash[request[r].token] = h
        BY <4>1, SpentIsSpentNow DEF RotationInv, CommitSpent
      <4> QED BY <3>2, <4>1 DEF Committing, CommitsSpent
    <3> QED BY <1>1, <3>1, <3>2 DEF MarkerStep
  <2>3. PICK t \in delivered : h = Hash[t]
    BY <2>1 DEF MarkerOf
  <2> QED BY <2>2, <2>3, StoreKeepsTokens DEF TokenKept, OwnershipInv
<1> QED BY <1>1 DEF CommittedIsSpent, SpentNow

\* The marker of an exchanged token stays committed while its family lives.
LEMMA CommittedBeforeReturnedKept ==
    ASSUME TypeInv, TypeInv', RotationInv, OwnershipInv,
           CommittedBeforeReturned, StoreStep, ExchangeStep,
           \A h \in TokenHash : MarkerStep(h), MarkersOwned'
    PROVE  CommittedBeforeReturned'
<1> SUFFICES ASSUME NEW x \in exchanges'
             PROVE  \/ /\ marker'[Hash[x[1]]].status = "committed"
                       /\ marker'[Hash[x[1]]].familyId = owner'[x[1]]
                    \/ family'[owner'[x[1]]].expiresAt <= now'
  BY DEF CommittedBeforeReturned
<1> DEFINE t == x[1]
           h == Hash[t]
<1>1. /\ t \in delivered /\ t \in Token /\ h \in TokenHash
  <2>1. CASE x \in exchanges
    BY <2>1, HashFacts DEF RotationInv, ExchangedSpent, TypeInv, TypeOK
  <2>2. CASE x \notin exchanges
    BY <2>2, HashFacts DEF ExchangeStep, TypeInv, TypeOK, RequestRefs
  <2> QED BY <2>1, <2>2
<1>2. TokenKept(t)
  BY <1>1, StoreKeepsTokens DEF OwnershipInv
<1>3. CASE marker'[h].status = "committed"
  <2>1. /\ marker'[h].tokenHash = h
        /\ \E u \in delivered' : /\ marker'[h].tokenHash = Hash[u]
                                /\ marker'[h].familyId = owner'[u]
    BY <1>1, <1>3 DEF MarkersOwned, MarkerOf
  <2>2. PICK u \in delivered' : /\ h = Hash[u]
                                /\ marker'[h].familyId = owner'[u]
    BY <2>1
  <2>3. u = t
    BY <1>1, <2>2, HashFacts DEF TypeInv, TypeOK
  <2> QED BY <1>3, <2>2, <2>3
<1>4. CASE marker'[h].status # "committed"
  <2>1. x \in exchanges
    BY <1>4 DEF ExchangeStep
  <2>2. now \in Nat /\ now' \in Nat /\ now <= now'
        /\ family[owner[t]].expiresAt \in Nat
    BY <1>1 DEF StoreStep, TypeInv, TypeOK, FamilyDoc, DeliveredRefs
  <2>3. family[owner[t]].expiresAt <= now
    <3>1. CASE marker[h].status = "committed"
      <4>1. marker[h].expiresAt <= now /\ marker[h].tokenHash = h /\ MarkerOf(marker[h])
        BY <1>1, <1>4, <3>1 DEF MarkerStep, OwnershipInv, MarkersOwned
      <4>2. PICK u \in delivered : /\ h = Hash[u]
                                   /\ marker[h].expiresAt = family[owner[u]].expiresAt
        BY <4>1 DEF MarkerOf
      <4>3. u = t
        BY <1>1, <4>2, HashFacts DEF TypeInv, TypeOK
      <4> QED BY <4>1, <4>2, <4>3
    <3>2. CASE marker[h].status # "committed"
      BY <2>1, <3>2 DEF CommittedBeforeReturned
    <3> QED BY <3>1, <3>2
  <2>4. /\ owner'[t] = owner[t]
        /\ family'[owner[t]].expiresAt = family[owner[t]].expiresAt
    BY <1>2 DEF TokenKept
  <2> QED BY <2>2, <2>3, <2>4
<1> QED BY <1>3, <1>4

\* The marker of a token stays committed unless its family has expired.
LEMMA CommittedStays ==
    ASSUME TypeInv, OwnershipInv, NEW t \in delivered,
           \A h \in TokenHash : MarkerStep(h),
           marker[Hash[t]].status = "committed"
    PROVE  marker'[Hash[t]].status = "committed" \/ Over(owner[t])
<1> DEFINE h == Hash[t]
<1>1. t \in Token /\ h \in TokenHash
  BY HashFacts DEF TypeInv, TypeOK
<1>2. CASE marker[h].expiresAt <= now
  <2>1. MarkerOf(marker[h]) /\ marker[h].tokenHash = h
    BY <1>1 DEF OwnershipInv, MarkersOwned
  <2>2. PICK u \in delivered : /\ h = Hash[u]
                               /\ marker[h].expiresAt = family[owner[u]].expiresAt
    BY <2>1 DEF MarkerOf
  <2>3. u = t
    BY <1>1, <2>2, HashFacts DEF TypeInv, TypeOK
  <2> QED BY <1>2, <2>2, <2>3 DEF Over
<1> QED BY <1>1, <1>2 DEF MarkerStep

\* A replay stays caught.
LEMMA ReplaysCaughtKept ==
    ASSUME TypeInv, TypeInv', OwnershipInv, ReplaysCaught, StoreStep,
           CommittedBeforeReturned', \A r \in Request : HandlerStep(r),
           \A h \in TokenHash : MarkerStep(h)
    PROVE  ReplaysCaught'
<1> DEFINE Ended(f) == \/ family'[f].status # "active"
                       \/ family'[f].expiresAt <= now'
           Caught(r) == \/ Ended(owner'[request'[r].token])
                        \/ /\ request'[r].pc = "findMarker"
                           /\ marker'[Hash[request'[r].token]].status = "committed"
                        \/ request'[r].pc = "revokeReplay"
<1> SUFFICES ASSUME NEW r \in Request, request'[r].replay, request'[r].pc # "idle"
             PROVE  Caught(r)
  BY DEF ReplaysCaught, Over
<1> DEFINE q == request[r]
<1>1. ASSUME NEW t \in delivered, Over(owner[t])
      PROVE  Ended(owner'[t])
  BY <1>1, StoreKeepsTokens DEF TokenKept, OwnershipInv
<1>2. q.pc # "idle" => q.token \in delivered
  BY DEF TypeInv, RequestRefs
<1>3. CASE Begins(r)
  <2>1. PICK u \in Token : <<request'[r].token, u>> \in exchanges'
    BY <1>3 DEF Begins
  <2>2. \/ marker'[Hash[request'[r].token]].status = "committed"
        \/ family'[owner'[request'[r].token]].expiresAt <= now'
    BY <2>1 DEF CommittedBeforeReturned
  <2> QED BY <1>3, <2>2 DEF Begins
<1>4. CASE /\ q.pc # "idle" /\ q.replay /\ request'[r].token = q.token
           /\ request'[r] = q \/ Meets(r) \/ Chooses(r) \/ Acquires(r) \/ Advances(r)
  <2>1. CASE Over(owner[q.token])
    BY <1>1, <1>2, <1>4, <2>1
  <2>2. CASE q.pc = "revokeReplay"
    BY <1>4, <2>2 DEF Meets, Chooses, Acquires, Advances
  <2>3. CASE q.pc = "findMarker" /\ marker[Hash[q.token]].status = "committed"
    <3>1. CASE request'[r] = q
      BY <1>1, <1>2, <1>4, <2>3, <3>1, CommittedStays
    <3>2. CASE Meets(r)
      BY <2>3, <3>2 DEF Meets
    <3>3. CASE Chooses(r) \/ Acquires(r) \/ Advances(r)
      BY <2>3, <3>3 DEF Chooses, Acquires, Advances
    <3> QED BY <1>4, <3>1, <3>2, <3>3
  <2> HIDE DEF Caught
  <2> QED BY <1>4, <2>1, <2>2, <2>3 DEF ReplaysCaught
<1>5. CASE Ends(r)
  BY <1>5 DEF Ends
<1>6. CASE request'[r] = q
  BY <1>4, <1>6
<1> HIDE DEF Caught
<1> QED BY <1>3, <1>4, <1>5, <1>6 DEF HandlerStep

\* A call that presented an exchanged token ends in order only when its family
\* does not rotate any more.
LEMMA ReplayEnds ==
    ASSUME TypeInv, TypeInv', OwnershipInv, ReplaysCaught, StoreStep,
           NEW r \in Request, HandlerStep(r), request[r].replay,
           request[r].pc # "idle", request'[r].pc = "idle", faults' = faults
    PROVE  \/ family'[owner[request[r].token]].status # "active"
           \/ family'[owner[request[r].token]].expiresAt <= now'
<1> DEFINE t == request[r].token
<1>1. t \in delivered /\ TokenKept(t)
  BY StoreKeepsTokens DEF TypeInv, RequestRefs, OwnershipInv
<1>2. Ends(r)
  BY DEF HandlerStep, Begins, Meets, Chooses, Acquires, Advances
<1>3. CASE Over(owner[t])
  BY <1>1, <1>3 DEF TokenKept
<1>4. CASE request[r].pc = "revokeReplay"
  BY <1>2, <1>4 DEF Ends, OwnershipInv, HandlersOwned
<1>5. request[r].pc # "findMarker"
  BY <1>2 DEF Ends
<1> QED BY <1>3, <1>4, <1>5 DEF ReplaysCaught

-----------------------------------------------------------------------------
(* Every step of the system is one of these *)

\* Steps that leave the families and the tokens alone.
LEMMA StoreRests ==
    ASSUME TypeInv, UNCHANGED <<family, owner, delivered>>, now <= now'
    PROVE  StoreStep
BY DEF StoreStep

\* Revocations and the TTL monitor take hashes and statuses away.
LEMMA StoreRevokes ==
    ASSUME TypeInv, UNCHANGED <<owner, delivered, now>>,
           \/ \E F : \E status \in {"revoked", "replayed"} : Revoke(F, status)
           \/ \E f \in Family : ExpireFamily(f)
    PROVE  StoreStep
<1>1. now <= now'
  BY DEF TypeInv, TypeOK
<1>2. family \in [Family -> FamilyDoc]
  BY DEF TypeInv, TypeOK
<1>3. \A f \in Family :
         /\ family[f].status # "absent" =>
               /\ family'[f].status # "absent"
               /\ family'[f].expiresAt = family[f].expiresAt
               /\ family[f].status # "active" => family'[f].status # "active"
         /\ family'[f].currentTokenHash \in {family[f].currentTokenHash, None}
  <2>1. ASSUME NEW F, NEW status \in {"revoked", "replayed"}, Revoke(F, status),
               NEW f \in Family
        PROVE  \/ family'[f] = family[f]
               \/ /\ family[f].status = "active"
                  /\ family'[f] = [family[f] EXCEPT !.status = status,
                                                    !.currentTokenHash = None]
    BY <2>1 DEF Revoke
  <2>2. ASSUME NEW g \in Family, ExpireFamily(g), NEW f \in Family
        PROVE  \/ family'[f] = family[f]
               \/ /\ family[f].status # "absent"
                  /\ family'[f] = [family[f] EXCEPT !.status = "deleted"]
    BY <1>2, <2>2 DEF ExpireFamily, Exists
  <2>3. ASSUME NEW f \in Family,
               \/ family'[f] = family[f]
               \/ \E status \in {"revoked", "replayed"} :
                     family'[f] = [family[f] EXCEPT !.status = status,
                                                    !.currentTokenHash = None]
               \/ family'[f] = [family[f] EXCEPT !.status = "deleted"]
        PROVE  /\ family[f].status # "absent" =>
                     /\ family'[f].status # "absent"
                     /\ family'[f].expiresAt = family[f].expiresAt
                     /\ family[f].status # "active" => family'[f].status # "active"
               /\ family'[f].currentTokenHash
                     \in {family[f].currentTokenHash, None}
    BY <1>2, <2>3 DEF FamilyDoc
  <2> QED BY <2>1, <2>2, <2>3
<1> QED BY <1>1, <1>3 DEF StoreStep

\* A sign-in creates a family for a token that nobody has.
LEMMA StoreCreates ==
    ASSUME TypeInv, RotationInv, NEW f \in Family, NEW s \in Subject,
           CreateFamily(f, s)
    PROVE  StoreStep
<1> DEFINE n == tokenCount + 1
<1>1. /\ family[f].status = "absent" /\ tokenCount < MaxTokens
      /\ delivered' = delivered \cup {n} /\ now' = now
      /\ \A g \in Family \ {f} : family'[g] = family[g]
      /\ family'[f].currentTokenHash = Hash[n] /\ family'[f].status = "active"
  BY DEF CreateFamily, Rest, TypeInv, TypeOK
<1>2. n \in Token /\ n \notin 1 .. tokenCount /\ 1 .. tokenCount \subseteq Token
  BY <1>1, BoundsAssumption DEF TypeInv, TypeOK, Token
<1>3. \A t \in Token : owner'[t] = IF t = n THEN f ELSE owner[t]
  BY DEF CreateFamily, TypeInv, TypeOK
<1> HIDE DEF n
<1>4. n \notin delivered
  BY <1>2 DEF TypeInv, DeliveredRefs
<1>5. Spent(n)
  BY <1>2, HashFacts DEF Spent, RotationInv, CurrentIssued
<1>6. \A r \in Request : request[r].pc = "commit" => request[r].next # n
  BY <1>2 DEF TypeInv, RequestRefs
<1>7. now <= now'
  BY <1>1 DEF TypeInv, TypeOK
<1>8. \A g \in Family : family[g].status # "absent" => family'[g] = family[g]
  BY <1>1
<1>9. \A g \in Family :
         \/ family'[g].currentTokenHash = family[g].currentTokenHash
         \/ \E u \in Token \ delivered :
               owner'[u] = g /\ family'[g].currentTokenHash = Hash[u]
  BY <1>1, <1>2, <1>3, <1>4
<1>10. \A t \in delivered' \ delivered : family'[owner'[t]].status = "active"
  BY <1>1, <1>2, <1>3
<1> QED BY <1>1, <1>3, <1>4, <1>5, <1>6, <1>7, <1>8, <1>9, <1>10 DEF StoreStep

\* The compare-and-swap replaces a hash by that of the handler's replacement;
\* the presented token is spent thereby.
LEMMA StoreSwaps ==
    ASSUME TypeInv, RotationInv, NEW r \in Request, request[r].pc = "cas",
           Accepts(request[r].familyId, Hash[request[r].token], request[r].at),
           SwapToken(r), UNCHANGED <<delivered, now>>
    PROVE  /\ StoreStep
           /\ \A g \in Family :
                 family'[g].currentTokenHash # Hash[request[r].token]
           /\ \A f \in Family :
                 \/ family'[f] = family[f]
                 \/ family'[f].lastRotationOperationId = request[r].operationId
           /\ owner'[request[r].next] = request[r].familyId
<1> DEFINE t == request[r].token
           n == request[r].next
           f == request[r].familyId
<1>1. /\ f \in Family /\ t \in Token /\ n \in Token
      /\ t \in delivered /\ n \notin delivered /\ Spent(n)
  BY IssuedTokens
     DEF TypeInv, RequestRefs, RotationInv, NextUnseen, BeforeSwap
<1>2. /\ family[f].currentTokenHash = Hash[t] /\ family[f].status = "active"
      /\ family'[f].currentTokenHash = Hash[n]
      /\ family'[f].lastRotationOperationId = request[r].operationId
      /\ \A g \in Family \ {f} : family'[g] = family[g]
  BY <1>1 DEF Accepts, SwapToken, TypeInv, TypeOK, FamilyDoc
<1>3. /\ family'[f].status = family[f].status
      /\ family'[f].expiresAt = family[f].expiresAt
  BY <1>1 DEF SwapToken, TypeInv, TypeOK, FamilyDoc
<1>4. \A u \in Token : owner'[u] = IF u = n THEN f ELSE owner[u]
  BY DEF SwapToken, TypeInv, TypeOK
<1>5. \A x \in Request : request[x].pc = "commit" => request[x].next # n
  <2>1. ASSUME NEW x \in Request, request[x].pc = "commit", request[x].next = n
        PROVE  FALSE
    <3>1. x = r
      BY <2>1 DEF RotationInv, NextDistinct
    <3> QED BY <2>1, <3>1
  <2> QED BY <2>1
<1>6. now <= now'
  BY DEF TypeInv, TypeOK
<1> HIDE DEF t, n, f
<1>7. \A g \in Family : family'[g].currentTokenHash # Hash[t]
  BY <1>1, <1>2, HashFacts DEF RotationInv, CurrentUnique
<1>8. \A g \in Family :
         \/ family'[g].currentTokenHash = family[g].currentTokenHash
         \/ \E u \in Token \ delivered :
               owner'[u] = g /\ family'[g].currentTokenHash = Hash[u]
  BY <1>1, <1>2, <1>4
<1>9. \A g \in Family : /\ family'[g].status = family[g].status
                        /\ family'[g].expiresAt = family[g].expiresAt
  BY <1>2, <1>3
<1>10. StoreStep
  BY <1>1, <1>4, <1>5, <1>6, <1>8, <1>9 DEF StoreStep
<1> QED BY <1>1, <1>2, <1>4, <1>7, <1>10 DEF t, n, f

\* Every step treats the store as stated, and records operation ids with the
\* swap alone.
LEMMA NextStore ==
    ASSUME TypeInv, RotationInv, [Next]_vars
    PROVE  StoreStep /\ RecordStep
<1>0. now <= now /\ \A f \in Family : family[f].lastRotationOperationId \in Nat
  BY DEF TypeInv, TypeOK, FamilyDoc
<1> DEFINE Same == \A f \in Family : \/ family'[f] = family[f]
                                     \/ family'[f].lastRotationOperationId
                                           = family[f].lastRotationOperationId
<1>1. ASSUME NEW F, NEW status \in {"revoked", "replayed"}, Revoke(F, status),
             UNCHANGED <<owner, delivered, now>>
      PROVE  StoreStep /\ RecordStep
  <2>1. Same
    BY <1>1 DEF Revoke, TypeInv, TypeOK, FamilyDoc
  <2> QED BY <1>1, <2>1, StoreRevokes DEF RecordStep
<1>2. ASSUME UNCHANGED <<family, owner, delivered>>, now <= now'
      PROVE  StoreStep /\ RecordStep
  BY <1>2, StoreRests DEF RecordStep
<1>3. ASSUME NEW r \in Request, Cas(r) \/ CasFault(r)
      PROVE  StoreStep /\ RecordStep
  <2>1. /\ request[r].pc = "cas" /\ UNCHANGED <<delivered, now>>
        /\ \/ UNCHANGED <<family, owner>>
           \/ /\ SwapToken(r)
              /\ Accepts(request[r].familyId, Hash[request[r].token],
                         request[r].at)
    BY <1>3 DEF Cas, CasFault, Rest
  <2>2. CASE UNCHANGED <<family, owner>>
    BY <1>0, <1>2, <2>1, <2>2
  <2>3. CASE /\ SwapToken(r)
             /\ Accepts(request[r].familyId, Hash[request[r].token],
                        request[r].at)
    BY <2>1, <2>3, StoreSwaps DEF RecordStep
  <2> QED BY <2>1, <2>2, <2>3
<1>4. ASSUME NEW r \in Request, Commit(r)
      PROVE  StoreStep /\ RecordStep
  <2>1. /\ UNCHANGED <<family, owner, now>> /\ request[r].pc = "commit"
        /\ delivered' \in {delivered, delivered \cup {request[r].next}}
    BY <1>4 DEF Commit, Rest
  <2>2. StoreStep
    BY <1>0, <2>1 DEF StoreStep
  <2> QED BY <2>1, <2>2 DEF RecordStep
<1>5. ASSUME NEW r \in Request,
             \/ RevokeOrphan(r) \/ FinalizeRevoke(r) \/ RevokeReplay(r)
      PROVE  StoreStep /\ RecordStep
  BY <1>1, <1>5 DEF RevokeOrphan, FinalizeRevoke, RevokeReplay, history, Rest
<1>6. ASSUME NEW r \in Request,
             \/ \E t \in Token : Present(r, t)
             \/ FindMarker(r) \/ FindFamily(r) \/ CreateMarker(r)
             \/ RacedMarker(r) \/ ReadOwner(r) \/ TakeOver(r) \/ Recover(r)
             \/ FinalizeCommit(r) \/ Abort(r) \/ CommitFault(r) \/ SkipFault(r)
      PROVE  StoreStep /\ RecordStep
  <2>1. UNCHANGED <<family, owner, delivered, now>>
    BY <1>6 DEF Present, FindMarker, FindFamily, CreateMarker, RacedMarker,
       ReadOwner, TakeOver, Recover, FinalizeCommit, Abort, CommitFault,
       SkipFault, db, history, Rest
  <2> QED BY <1>0, <1>2, <2>1
<1>7. ASSUME NEW f \in Family, NEW s \in Subject, CreateFamily(f, s)
      PROVE  StoreStep /\ RecordStep
  <2>1. \A g \in Family : family'[g].lastRotationOperationId
                             \in {family[g].lastRotationOperationId, Absent}
    BY <1>7 DEF CreateFamily, TypeInv, TypeOK
  <2> QED BY <1>7, <2>1, StoreCreates DEF RecordStep
<1>8. CASE \/ \E t \in Token : RevokeRefreshToken(t)
           \/ \E f \in Family : RevokeFamily(f)
           \/ \E s \in Subject : RevokeSubject(s)
           \/ \E i \in Instance : ReconcilerRevoke(i)
  BY <1>1, <1>8 DEF RevokeRefreshToken, RevokeFamily, RevokeSubject,
     ReconcilerRevoke, QuietExceptReconciler, history, Rest
<1>9. ASSUME NEW f \in Family, ExpireFamily(f)
      PROVE  StoreStep /\ RecordStep
  <2>1. UNCHANGED <<owner, delivered, now>>
    BY <1>9 DEF ExpireFamily, history, Rest
  <2>2. Same
    BY <1>9 DEF ExpireFamily, TypeInv, TypeOK, FamilyDoc
  <2> QED BY <1>9, <2>1, <2>2, StoreRevokes DEF RecordStep
<1>10. CASE \/ \E i \in Instance : \/ StartReconciliation(i) \/ InspectMarker(i)
                                   \/ ReconcilerCommit(i) \/ ReconcilerFault(i)
            \/ \E h \in TokenHash : ExpireMarker(h)
            \/ Tick
            \/ UNCHANGED vars
  <2>1. UNCHANGED <<family, owner, delivered>> /\ now' \in {now, now + 1}
    BY <1>10 DEF StartReconciliation, InspectMarker, ReconcilerCommit,
       ReconcilerFault, QuietExceptReconciler, ExpireMarker, Tick, vars, db,
       history, Rest
  <2>2. now <= now'
    BY <2>1 DEF TypeInv, TypeOK
  <2> QED BY <1>2, <2>1, <2>2
<1> QED BY <1>3, <1>4, <1>5, <1>6, <1>7, <1>8, <1>9, <1>10
        DEF Next, RequestStep, RequestFault, ReconcilerStep

\* What the two ways of ending or moving on do to the record of a handler.
LEMMA StepFields ==
    ASSUME request \in [Request -> RequestState], NEW r \in Request
    PROVE  /\ Finish(r) => /\ request'[r].pc = "idle"
                           /\ \A x \in Request \ {r} : request'[x] = request[x]
           /\ \A pc : Step(r, pc) =>
                 /\ request'[r].pc = pc
                 /\ request'[r].token = request[r].token
                 /\ request'[r].at = request[r].at
                 /\ request'[r].next = request[r].next
                 /\ request'[r].replay = request[r].replay
                 /\ request'[r].familyId = request[r].familyId
                 /\ request'[r].operationId = request[r].operationId
                 /\ request'[r].seen = request[r].seen
                 /\ \A x \in Request \ {r} : request'[x] = request[x]
<1>1. ASSUME Finish(r)
      PROVE  /\ request'[r].pc = "idle"
             /\ \A x \in Request \ {r} : request'[x] = request[x]
  BY <1>1 DEF Finish, IdleRequest
<1>2. ASSUME NEW pc, Step(r, pc)
      PROVE  /\ request'[r] = [request[r] EXCEPT !.pc = pc]
             /\ \A x \in Request \ {r} : request'[x] = request[x]
  BY <1>2 DEF Step
<1>3. ASSUME NEW q \in RequestState, NEW pc, NEW p, p = [q EXCEPT !.pc = pc]
      PROVE  /\ p.pc = pc /\ p.token = q.token /\ p.at = q.at /\ p.next = q.next
             /\ p.replay = q.replay /\ p.familyId = q.familyId
             /\ p.operationId = q.operationId /\ p.seen = q.seen
  BY <1>3 DEF RequestState
<1>4. request[r] \in RequestState
  OBVIOUS
<1>5. ASSUME NEW pc, Step(r, pc)
      PROVE  /\ request'[r].pc = pc
             /\ request'[r].token = request[r].token
             /\ request'[r].at = request[r].at
             /\ request'[r].next = request[r].next
             /\ request'[r].replay = request[r].replay
             /\ request'[r].familyId = request[r].familyId
             /\ request'[r].operationId = request[r].operationId
             /\ request'[r].seen = request[r].seen
             /\ \A x \in Request \ {r} : request'[x] = request[x]
  <2>1. /\ request'[r] = [request[r] EXCEPT !.pc = pc]
        /\ \A x \in Request \ {r} : request'[x] = request[x]
    BY <1>2, <1>5
  <2> QED BY <1>3, <1>4, <2>1
<1> QED BY <1>1, <1>5

\* The same for a handler that meets a marker, or becomes its owner.
LEMMA MeetFields ==
    ASSUME request \in [Request -> RequestState], NEW r \in Request
    PROVE  /\ \A m : HandleExistingMarker(r, m) =>
                 /\ request'[r].pc = IF m.status = "committed" THEN "revokeReplay"
                                                               ELSE "readOwner"
                 /\ request'[r].token = request[r].token
                 /\ request'[r].at = request[r].at
                 /\ request'[r].next = request[r].next
                 /\ request'[r].replay = request[r].replay
                 /\ request'[r].seen = m
                 /\ request'[r].familyId = m.familyId
                 /\ request'[r].operationId = m.rotationOperationId
                 /\ \A x \in Request \ {r} : request'[x] = request[x]
           /\ \A op : OwnMarker(r, op) =>
                 /\ request'[r].pc = "cas"
                 /\ request'[r].token = request[r].token
                 /\ request'[r].at = request[r].at
                 /\ request'[r].next = request[r].next
                 /\ request'[r].replay = request[r].replay
                 /\ request'[r].familyId = request[r].familyId
                 /\ request'[r].operationId = op
                 /\ \A x \in Request \ {r} : request'[x] = request[x]
<1> DEFINE Met(q, m) ==
              [q EXCEPT !.pc = IF m.status = "committed" THEN "revokeReplay"
                                                         ELSE "readOwner",
                        !.seen = m, !.familyId = m.familyId,
                        !.operationId = m.rotationOperationId]
           Owning(q, op) == [q EXCEPT !.pc = "cas", !.operationId = op]
<1>1. ASSUME NEW m, HandleExistingMarker(r, m)
      PROVE  /\ request'[r] = Met(request[r], m)
             /\ \A x \in Request \ {r} : request'[x] = request[x]
  BY <1>1 DEF HandleExistingMarker
<1>2. ASSUME NEW op, OwnMarker(r, op)
      PROVE  /\ request'[r] = Owning(request[r], op)
             /\ \A x \in Request \ {r} : request'[x] = request[x]
  BY <1>2 DEF OwnMarker
<1>3. ASSUME NEW q \in RequestState, NEW m
      PROVE  /\ Met(q, m).pc = IF m.status = "committed" THEN "revokeReplay"
                                                         ELSE "readOwner"
             /\ Met(q, m).token = q.token /\ Met(q, m).at = q.at
             /\ Met(q, m).next = q.next /\ Met(q, m).replay = q.replay
             /\ Met(q, m).seen = m /\ Met(q, m).familyId = m.familyId
             /\ Met(q, m).operationId = m.rotationOperationId
  BY DEF RequestState
<1>4. ASSUME NEW q \in RequestState, NEW op
      PROVE  /\ Owning(q, op).pc = "cas" /\ Owning(q, op).token = q.token
             /\ Owning(q, op).at = q.at /\ Owning(q, op).next = q.next
             /\ Owning(q, op).replay = q.replay
             /\ Owning(q, op).familyId = q.familyId
             /\ Owning(q, op).operationId = op
  BY DEF RequestState
<1>5. request[r] \in RequestState
  OBVIOUS
<1> HIDE DEF Met, Owning
<1> QED BY <1>1, <1>2, <1>3, <1>4, <1>5

\* Every operation of a handler is a HandlerStep of it, and of it alone.
LEMMA OperationIsHandlerStep ==
    ASSUME TypeInv, RotationInv, NEW r \in Request,
           RequestStep(r) \/ RequestFault(r)
    PROVE  HandlerStep(r) /\ \A x \in Request \ {r} : request'[x] = request[x]
<1> DEFINE Goal == /\ HandlerStep(r)
                   /\ \A x \in Request \ {r} : request'[x] = request[x]
<1>0. request \in [Request -> RequestState] /\ faults \in Nat
  BY DEF TypeInv, TypeOK
<1>1. ASSUME FindMarker(r) PROVE Goal
  <2> DEFINE m == marker[Hash[request[r].token]]
  <2>1. CASE m.status # "absent" /\ HandleExistingMarker(r, m)
    BY <1>0, <1>1, <2>1, MeetFields DEF FindMarker, HandlerStep, Meets
  <2>2. CASE m.status = "absent" /\ Step(r, "findFamily")
    BY <1>0, <1>1, <2>2, StepFields DEF FindMarker, HandlerStep, Advances
  <2> QED BY <1>1, <2>1, <2>2 DEF FindMarker
<1>2. ASSUME FindFamily(r) PROVE Goal
  <2>1. ASSUME NEW f \in Family, Accepts(f, Hash[request[r].token], request[r].at),
               request' = [request EXCEPT ![r].pc = "createMarker",
                                          ![r].familyId = f]
        PROVE  Goal
    <3>1. /\ request'[r] = [request[r] EXCEPT !.pc = "createMarker",
                                              !.familyId = f]
          /\ \A x \in Request \ {r} : request'[x] = request[x]
      BY <1>0, <2>1
    <3>2. /\ request'[r].pc = "createMarker" /\ request'[r].familyId = f
          /\ request'[r].token = request[r].token
          /\ request'[r].at = request[r].at
          /\ request'[r].next = request[r].next
          /\ request'[r].replay = request[r].replay
      BY <1>0, <3>1 DEF RequestState
    <3> QED BY <1>2, <2>1, <3>1, <3>2 DEF FindFamily, HandlerStep, Chooses
  <2>2. CASE Finish(r)
    BY <1>0, <1>2, <2>2, StepFields DEF FindFamily, HandlerStep, Ends
  <2> QED BY <1>2, <2>1, <2>2 DEF FindFamily
<1>3. ASSUME CreateMarker(r) PROVE Goal
  <2>1. CASE /\ OwnMarker(r, operationCount + 1)
             /\ operationCount' = operationCount + 1
    BY <1>0, <1>3, <2>1, MeetFields DEF CreateMarker, HandlerStep, Acquires
  <2>2. CASE Step(r, "racedMarker")
    BY <1>0, <1>3, <2>2, StepFields DEF CreateMarker, HandlerStep, Advances
  <2> QED BY <1>3, <2>1, <2>2 DEF CreateMarker
<1>4. ASSUME RacedMarker(r) PROVE Goal
  <2> DEFINE m == marker[Hash[request[r].token]]
  <2>1. CASE m.status # "absent" /\ HandleExistingMarker(r, m)
    BY <1>0, <1>4, <2>1, MeetFields DEF RacedMarker, HandlerStep, Meets
  <2>2. CASE Finish(r)
    BY <1>0, <1>4, <2>2, StepFields DEF RacedMarker, HandlerStep, Ends
  <2> QED BY <1>4, <2>1, <2>2 DEF RacedMarker
<1>5. ASSUME ReadOwner(r) PROVE Goal
  <2>1. CASE Finish(r)
    BY <1>0, <1>5, <2>1, StepFields DEF ReadOwner, HandlerStep, Ends
  <2>2. CASE Step(r, "takeOver")
    BY <1>0, <1>5, <2>2, StepFields DEF ReadOwner, HandlerStep, Advances
  <2>3. CASE /\ Step(r, "finalizeCommit")
             /\ LET m == request[r].seen IN
                \/ RecordsOperation(m.familyId, m.rotationOperationId)
                \/ ~Accepts(m.familyId, m.tokenHash, request[r].at)
                \/ m.leaseExpiresAt = Absent
    BY <1>0, <1>5, <2>3, StepFields DEF ReadOwner, HandlerStep, Advances
  <2> QED BY <1>5, <2>1, <2>2, <2>3 DEF ReadOwner
<1>6. ASSUME TakeOver(r) PROVE Goal
  <2>1. CASE /\ OwnMarker(r, operationCount + 1)
             /\ operationCount' = operationCount + 1
    BY <1>0, <1>6, <2>1, MeetFields DEF TakeOver, HandlerStep, Acquires
  <2>2. CASE Finish(r)
    BY <1>0, <1>6, <2>2, StepFields DEF TakeOver, HandlerStep, Ends
  <2> QED BY <1>6, <2>1, <2>2 DEF TakeOver
<1>7. ASSUME Cas(r) \/ CasFault(r) PROVE Goal
  <2>1. CASE Step(r, "commit") /\ SwapToken(r) /\ request[r].pc = "cas"
    <3>1. owner'[request[r].next] = request[r].familyId
      BY <2>1, IssuedTokens DEF SwapToken, TypeInv, TypeOK
    <3> QED BY <1>0, <2>1, <3>1, StepFields DEF HandlerStep, Advances
  <2>2. CASE /\ Step(r, "finalizeCommit") /\ request[r].pc = "cas"
             /\ ~Accepts(request[r].familyId, Hash[request[r].token],
                         request[r].at)
    BY <1>0, <2>2, StepFields DEF HandlerStep, Advances
  <2>3. CASE Step(r, "recover") /\ request[r].pc = "cas"
    BY <1>0, <2>3, StepFields DEF HandlerStep, Advances
  <2> QED BY <1>7, <2>1, <2>2, <2>3 DEF Cas, CasFault
<1>8. ASSUME Recover(r) PROVE Goal
  <2>1. CASE Finish(r)
    BY <1>0, <1>8, <2>1, StepFields DEF Recover, HandlerStep, Ends
  <2>2. CASE /\ Step(r, "finalizeCommit")
             /\ ~Accepts(request[r].familyId, Hash[request[r].token], now)
    BY <1>0, <1>8, <2>2, StepFields DEF Recover, HandlerStep, Advances
  <2> QED BY <1>8, <2>1, <2>2 DEF Recover
<1>9. ASSUME \/ Commit(r) \/ RevokeOrphan(r) \/ FinalizeCommit(r)
             \/ CommitFault(r) \/ SkipFault(r)
      PROVE  Goal
  <2>1. \/ /\ request[r].pc \in {"commit", "revokeOrphan", "finalizeCommit"}
           /\ \E pc \in {"revokeOrphan", "revokeOrphanAgain", "finalizeRevoke"} :
                 Step(r, pc)
        \/ /\ Finish(r) /\ request[r].pc \in {"commit", "revokeOrphanAgain"}
    BY <1>9 DEF Commit, RevokeOrphan, FinalizeCommit, CommitFault, SkipFault
  <2>2. CASE /\ Finish(r) /\ request[r].pc \in {"commit", "revokeOrphanAgain"}
    BY <1>0, <2>2, StepFields DEF HandlerStep, Ends
  <2>3. CASE /\ request[r].pc \in {"commit", "revokeOrphan", "finalizeCommit"}
             /\ \E pc \in {"revokeOrphan", "revokeOrphanAgain", "finalizeRevoke"} :
                   Step(r, pc)
    BY <1>0, <2>3, StepFields DEF HandlerStep, Advances
  <2> QED BY <2>1, <2>2, <2>3
<1>10. ASSUME FinalizeRevoke(r) PROVE Goal
  BY <1>0, <1>10, StepFields DEF FinalizeRevoke, HandlerStep, Ends
<1>11. ASSUME RevokeReplay(r) PROVE Goal
  <2>1. request[r].familyId \in Family
    BY <1>11 DEF RevokeReplay, TypeInv, RequestRefs
  <2>2. family'[request[r].familyId].status # "active"
    BY <1>11, <2>1 DEF RevokeReplay, Revoke, TypeInv, TypeOK, FamilyDoc
  <2> QED BY <1>0, <1>11, <2>2, StepFields DEF RevokeReplay, HandlerStep, Ends
<1>12. ASSUME Abort(r) PROVE Goal
  <2>1. faults' # faults
    BY <1>0, <1>12 DEF Abort, Fault
  <2> QED BY <1>0, <1>12, <2>1, StepFields DEF Abort, HandlerStep, Ends
<1> HIDE DEF Goal
<1>13. Goal
  BY <1>1, <1>2, <1>3, <1>4, <1>5, <1>6, <1>7, <1>8, <1>9, <1>10, <1>11, <1>12
     DEF RequestStep, RequestFault
<1> QED BY <1>13 DEF Goal

\* Only a call of rotate() moves a handler.
LEMMA NextMoves ==
    ASSUME [Next]_vars
    PROVE  \/ request' = request
           \/ \E r \in Request : \/ RequestStep(r) \/ RequestFault(r)
                                 \/ \E t \in Token : Present(r, t)
BY DEF Next, CreateFamily, RevokeRefreshToken, RevokeFamily, ExpireFamily,
   RevokeSubject, ReconcilerStep, ReconcilerFault, StartReconciliation,
   InspectMarker, ReconcilerCommit, ReconcilerRevoke, QuietExceptReconciler,
   ExpireMarker, Tick, vars

\* Every step treats every handler as stated.
LEMMA NextHandlers ==
    ASSUME TypeInv, RotationInv, [Next]_vars
    PROVE  /\ \A r \in Request : HandlerStep(r)
           /\ OneAcquires
<1>0. request \in [Request -> RequestState]
  BY DEF TypeInv, TypeOK
<1>1. ASSUME NEW r \in Request, RequestStep(r) \/ RequestFault(r)
      PROVE  /\ \A x \in Request : HandlerStep(x)
             /\ \A x \in Request \ {r} : ~Acquires(x)
  <2>1. HandlerStep(r) /\ \A x \in Request \ {r} : request'[x] = request[x]
    BY <1>1, OperationIsHandlerStep
  <2> QED BY <2>1 DEF HandlerStep, Acquires
<1>2. ASSUME NEW r \in Request, NEW t \in Token, Present(r, t)
      PROVE  /\ \A x \in Request : HandlerStep(x)
             /\ \A x \in Request : ~Acquires(x)
  <2> DEFINE p == [IdleRequest EXCEPT !.pc = "findMarker", !.token = t, !.at = now,
               !.next = tokenCount + 1,
               !.replay = \E u \in Token : <<t, u>> \in exchanges]
  <2>1. /\ request[r].pc = "idle" /\ t \in delivered
        /\ request' = [request EXCEPT ![r] = p] /\ exchanges' = exchanges
    BY <1>2 DEF Present, history
  <2>2. /\ p.pc = "findMarker" /\ p.token = t /\ p.at = now
        /\ p.replay => \E u \in Token : <<t, u>> \in exchanges
    BY DEF IdleRequest
  <2> HIDE DEF p
  <2>3. request'[r] = p /\ \A x \in Request \ {r} : request'[x] = request[x]
    BY <1>0, <2>1
  <2>4. Begins(r)
    BY <2>1, <2>2, <2>3 DEF Begins
  <2>5. \A x \in Request : ~Acquires(x)
    BY <2>1, <2>2, <2>3 DEF Acquires
  <2> QED BY <2>3, <2>4, <2>5 DEF HandlerStep
<1>3. CASE request' = request
  BY <1>3 DEF HandlerStep, Acquires, OneAcquires
<1> QED BY <1>1, <1>2, <1>3, NextMoves DEF OneAcquires

\* A commit of a marker changes that marker alone, and only when it is pending.
LEMMA CommitIsMarkerStep ==
    ASSUME TypeInv, NEW g, NEW op, CommitMarker(g, op), Committing(g)
    PROVE  \A h \in TokenHash : MarkerStep(h)
<1>1. CASE Commits(g, op)
  <2>1. ASSUME NEW h \in TokenHash, h # g PROVE marker'[h] = marker[h]
    BY <1>1, <2>1 DEF CommitMarker, TypeInv, TypeOK
  <2>2. ASSUME g \in TokenHash
        PROVE  marker'[g] = [marker[g] EXCEPT !.status = "committed",
                                              !.leaseExpiresAt = Absent]
    BY <1>1, <2>2 DEF CommitMarker, TypeInv, TypeOK
  <2>3. marker[g].status = "pending"
    BY <1>1 DEF Commits
  <2> QED BY <2>1, <2>2, <2>3 DEF MarkerStep
<1>2. CASE ~Commits(g, op)
  BY <1>2 DEF CommitMarker, MarkerStep
<1> QED BY <1>1, <1>2

\* Every step treats every marker as stated.
LEMMA NextMarkers ==
    ASSUME TypeInv, RotationInv, OwnershipInv, [Next]_vars
    PROVE  \A h \in TokenHash : MarkerStep(h)
<1> DEFINE Goal == \A h \in TokenHash : MarkerStep(h)
<1>0. /\ marker \in [TokenHash -> MarkerDoc] /\ RotationLease \in Nat \ {0}
      /\ \A r \in Request : request[r].at \in Nat
  BY BoundsAssumption DEF TypeInv, TypeOK, RequestState
<1>1. ASSUME UNCHANGED marker PROVE Goal
  BY <1>1 DEF MarkerStep
<1>2. ASSUME NEW r \in Request, CreateMarker(r) PROVE Goal
  <2> DEFINE h == Hash[request[r].token]
             d == [ status |-> "pending", tokenHash |-> h,
                    familyId |-> request[r].familyId,
                    rotationOperationId |-> operationCount + 1,
                    leaseExpiresAt |-> request[r].at + RotationLease,
                    expiresAt |-> family[request[r].familyId].expiresAt ]
  <2>1. CASE UNCHANGED marker
    BY <1>1, <2>1
  <2>2. CASE /\ marker[h].status = "absent" /\ marker' = [marker EXCEPT ![h] = d]
             /\ operationCount' = operationCount + 1
             /\ OwnMarker(r, operationCount + 1) /\ request[r].pc = "createMarker"
    <3>1. /\ d.status = "pending" /\ d.tokenHash = h
          /\ d.familyId = request[r].familyId
          /\ d.rotationOperationId = operationCount + 1
          /\ d.leaseExpiresAt # Absent
          /\ d.expiresAt = family[request[r].familyId].expiresAt
      BY <1>0 DEF Absent
    <3>2. Acquires(r)
      BY <2>2, MeetFields DEF Acquires, TypeInv, TypeOK
    <3> HIDE DEF d, h
    <3>3. \A g \in TokenHash : marker'[g] = IF g = h THEN d ELSE marker[g]
      BY <1>0, <2>2
    <3>4. h \in TokenHash => MarkerStep(h)
      BY <2>2, <3>1, <3>2, <3>3 DEF MarkerStep, Acquiring, h
    <3>5. \A g \in TokenHash \ {h} : MarkerStep(g)
      BY <3>3 DEF MarkerStep
    <3> QED BY <3>4, <3>5
  <2> QED BY <1>2, <2>1, <2>2 DEF CreateMarker, MarkerExpiry
<1>3. ASSUME NEW r \in Request, TakeOver(r) PROVE Goal
  <2> DEFINE h == request[r].seen.tokenHash
  <2>1. CASE UNCHANGED marker
    BY <1>1, <2>1
  <2>2. CASE /\ marker[h].status = "pending" /\ request[r].pc = "takeOver"
             /\ operationCount' = operationCount + 1
             /\ marker' = [marker EXCEPT
                   ![h].rotationOperationId = operationCount + 1,
                   ![h].leaseExpiresAt = request[r].at + RotationLease]
             /\ OwnMarker(r, operationCount + 1)
    <3>1. h = Hash[request[r].token]
      BY <2>2 DEF OwnershipInv, HandlersOwned
    <3>2. Acquires(r)
      BY <2>2, MeetFields DEF Acquires, TypeInv, TypeOK
    <3> HIDE DEF h
    <3>3. \A g \in TokenHash \ {h} : MarkerStep(g)
      BY <1>0, <2>2 DEF MarkerStep
    <3>4. ASSUME h \in TokenHash PROVE MarkerStep(h)
      <4>1. marker'[h] = [marker[h] EXCEPT
                  !.rotationOperationId = operationCount + 1,
                  !.leaseExpiresAt = request[r].at + RotationLease]
        BY <1>0, <2>2, <3>4
      <4>2. /\ marker'[h].status = marker[h].status
            /\ marker'[h].tokenHash = marker[h].tokenHash
            /\ marker'[h].familyId = marker[h].familyId
            /\ marker'[h].expiresAt = marker[h].expiresAt
            /\ marker'[h].rotationOperationId = operationCount + 1
            /\ marker'[h].leaseExpiresAt = request[r].at + RotationLease
        BY <1>0, <3>4, <4>1 DEF MarkerDoc
      <4>3. marker'[h].leaseExpiresAt # Absent
        BY <1>0, <4>2 DEF Absent
      <4> QED BY <2>2, <3>1, <3>2, <4>2, <4>3 DEF MarkerStep, Acquiring
    <3> QED BY <3>3, <3>4
  <2> QED BY <1>3, <2>1, <2>2 DEF TakeOver, Commits
<1>4. ASSUME NEW r \in Request, Commit(r) \/ FinalizeCommit(r) \/ CommitFault(r)
      PROVE  Goal
  <2>1. /\ request[r].pc \in {"commit", "finalizeCommit"}
        /\ \/ UNCHANGED marker
           \/ CommitMarker(Hash[request[r].token], request[r].operationId)
    BY <1>4 DEF Commit, FinalizeCommit, CommitFault
  <2> QED BY <1>1, <2>1, CommitIsMarkerStep DEF Committing
<1>5. ASSUME NEW i \in Instance, ReconcilerCommit(i) PROVE Goal
  BY <1>5, CommitIsMarkerStep DEF ReconcilerCommit, Committing
<1>6. ASSUME NEW g \in TokenHash, ExpireMarker(g) PROVE Goal
  <2>1. \A h \in TokenHash : marker'[h] = IF h = g THEN NoMarkerDoc ELSE marker[h]
    BY <1>0, <1>6 DEF ExpireMarker
  <2>2. NoMarkerDoc.status = "absent"
    BY DEF NoMarkerDoc
  <2> QED BY <1>6, <2>1, <2>2 DEF MarkerStep, ExpireMarker
<1>7. \/ UNCHANGED marker
      \/ \E r \in Request : \/ CreateMarker(r) \/ TakeOver(r) \/ Commit(r)
                            \/ FinalizeCommit(r) \/ CommitFault(r)
      \/ \E i \in Instance : ReconcilerCommit(i)
      \/ \E g \in TokenHash : ExpireMarker(g)
  BY Zenon DEF Next, RequestStep, RequestFault, Present, FindMarker, FindFamily,
     RacedMarker, ReadOwner, Cas, Recover, RevokeOrphan, FinalizeRevoke,
     RevokeReplay, Abort, CasFault, SkipFault, CreateFamily,
     RevokeRefreshToken, RevokeFamily, ExpireFamily, RevokeSubject,
     ReconcilerStep, ReconcilerFault, StartReconciliation, InspectMarker,
     ReconcilerRevoke, Tick, vars, db
<1> QED BY <1>1, <1>2, <1>3, <1>4, <1>5, <1>6, <1>7

\* What moving on to the next marker, or ending the pass, does.
LEMMA NextMarkerIsRepairStep ==
    ASSUME TypeInv, NEW i \in Instance, reconciler[i].pc # "idle",
           NEW batch, batch \subseteq reconciler[i].batch, NextMarker(i, batch)
    PROVE  RepairStep(i)
<1>1. reconciler'[i] = IF batch = {} THEN IdleReconciler
                       ELSE [IdleReconciler EXCEPT !.pc = "inspect",
                                !.at = reconciler[i].at, !.batch = batch]
  BY DEF NextMarker, TypeInv, TypeOK
<1>2. CASE batch = {}
  BY <1>1, <1>2 DEF IdleReconciler, RepairStep
<1>3. CASE batch # {}
  BY <1>1, <1>3 DEF IdleReconciler, RepairStep
<1> QED BY <1>2, <1>3

\* Every step treats every repair pass as stated.
LEMMA NextRepairs ==
    ASSUME TypeInv, [Next]_vars
    PROVE  \A i \in Instance : RepairStep(i)
<1>0. reconciler \in [Instance -> ReconcilerState]
  BY DEF TypeInv, TypeOK
<1>1. ASSUME NEW i \in Instance, ReconcilerStep(i) \/ ReconcilerFault(i)
      PROVE  RepairStep(i)
  <2>1. CASE StartReconciliation(i)
    <3>1. PICK batch \in SUBSET ExpiredPending(now) :
             reconciler' = [reconciler EXCEPT ![i] =
                [IdleReconciler EXCEPT !.pc = "inspect", !.at = now,
                                       !.batch = batch]]
      BY <2>1 DEF StartReconciliation
    <3>2. reconciler'[i] = [IdleReconciler EXCEPT !.pc = "inspect", !.at = now,
                                                  !.batch = batch]
      BY <1>0, <3>1
    <3>3. /\ reconciler'[i].pc = "inspect" /\ reconciler'[i].at = now
          /\ reconciler'[i].batch = batch
      BY <3>2 DEF IdleReconciler
    <3>4. \A m \in batch :
             \E h \in TokenHash : m = marker[h] /\ marker[h].status = "pending"
      BY DEF ExpiredPending
    <3> QED BY <3>3, <3>4 DEF RepairStep
  <2>2. CASE InspectMarker(i)
    <3>1. PICK m \in reconciler[i].batch :
             /\ Reached(i, m)
             /\ IF AwaitsTakeover(m, reconciler[i].at)
                THEN NextMarker(i, reconciler[i].batch \ {m})
                ELSE reconciler' = [reconciler EXCEPT
                         ![i].pc = "commit", ![i].current = m,
                         ![i].batch = reconciler[i].batch \ {m}]
      BY <2>2 DEF InspectMarker
    <3>2. reconciler[i].pc # "idle"
      BY <3>1 DEF Reached
    <3>3. CASE AwaitsTakeover(m, reconciler[i].at)
      BY <3>1, <3>2, <3>3, NextMarkerIsRepairStep
    <3>4. CASE ~AwaitsTakeover(m, reconciler[i].at)
      <4> DEFINE rest == reconciler[i].batch \ {m}
      <4>1. reconciler'[i] = [reconciler[i] EXCEPT !.pc = "commit", !.current = m,
                                                   !.batch = rest]
        BY <1>0, <3>1, <3>4
      <4>2. /\ reconciler'[i].pc = "commit" /\ reconciler'[i].current = m
            /\ reconciler'[i].batch = rest
            /\ reconciler'[i].at = reconciler[i].at
        BY <1>0, <4>1 DEF ReconcilerState
      <4>3. rest \subseteq reconciler[i].batch
        OBVIOUS
      <4>4. ~Accepts(m.familyId, m.tokenHash, reconciler[i].at)
        BY <3>4 DEF AwaitsTakeover
      <4> HIDE DEF rest
      <4> QED BY <3>1, <3>2, <4>2, <4>3, <4>4 DEF RepairStep
    <3> QED BY <3>3, <3>4
  <2>3. ASSUME reconciler[i].pc # "idle",
               reconciler' = [reconciler EXCEPT ![i].pc = "revoke"]
        PROVE  RepairStep(i)
    <3>1. reconciler'[i] = [reconciler[i] EXCEPT !.pc = "revoke"]
      BY <1>0, <2>3
    <3>2. /\ reconciler'[i].pc = "revoke"
          /\ reconciler'[i].batch = reconciler[i].batch
          /\ reconciler'[i].at = reconciler[i].at
      BY <1>0, <3>1 DEF ReconcilerState
    <3> QED BY <2>3, <3>2 DEF RepairStep
  <2>4. CASE ReconcilerCommit(i)
    BY <2>3, <2>4 DEF ReconcilerCommit
  <2>5. CASE ReconcilerRevoke(i)
    BY <2>5, NextMarkerIsRepairStep DEF ReconcilerRevoke
  <2>6. CASE ReconcilerFault(i)
    <3>1. CASE \E m \in reconciler[i].batch :
                  Reached(i, m) /\ NextMarker(i, reconciler[i].batch \ {m})
      <4>1. PICK m \in reconciler[i].batch :
                  Reached(i, m) /\ NextMarker(i, reconciler[i].batch \ {m})
        BY <3>1
      <4> QED BY <4>1, NextMarkerIsRepairStep DEF Reached
    <3>2. CASE /\ reconciler[i].pc = "commit"
               /\ reconciler' = [reconciler EXCEPT ![i].pc = "revoke"]
      BY <2>3, <3>2
    <3>3. CASE reconciler[i].pc = "revoke" /\ NextMarker(i, reconciler[i].batch)
      BY <3>3, NextMarkerIsRepairStep
    <3>4. CASE reconciler' = [reconciler EXCEPT ![i] = IdleReconciler]
      <4>1. reconciler'[i] = IdleReconciler
        BY <1>0, <3>4
      <4> QED BY <4>1 DEF IdleReconciler, RepairStep
    <3> QED BY <2>6, <3>1, <3>2, <3>3, <3>4 DEF ReconcilerFault
  <2> QED BY <1>1, <2>1, <2>2, <2>4, <2>5, <2>6 DEF ReconcilerStep
<1>2. ASSUME NEW i \in Instance, ReconcilerStep(i) \/ ReconcilerFault(i),
             NEW j \in Instance, j # i
      PROVE  reconciler'[j] = reconciler[j]
  BY <1>0, <1>2, Zenon DEF ReconcilerStep, ReconcilerFault, StartReconciliation,
     InspectMarker, ReconcilerCommit, ReconcilerRevoke, NextMarker
<1>3. \/ reconciler' = reconciler
      \/ \E i \in Instance : ReconcilerStep(i) \/ ReconcilerFault(i)
  BY Zenon DEF Next, RequestStep, RequestFault, Present, FindMarker, FindFamily,
     CreateMarker, RacedMarker, ReadOwner, TakeOver, Cas, Recover, Commit,
     RevokeOrphan, FinalizeCommit, FinalizeRevoke, RevokeReplay, Abort,
     CasFault, CommitFault, SkipFault, CreateFamily, RevokeRefreshToken,
     RevokeFamily, ExpireFamily, RevokeSubject, ExpireMarker, Tick, vars, Rest
<1> QED BY <1>1, <1>2, <1>3 DEF RepairStep

\* Every step records exchanges, and draws operation ids, as stated.
LEMMA NextExchanges ==
    ASSUME TypeInv, [Next]_vars
    PROVE  /\ ExchangeStep
           /\ operationCount' \in {operationCount, operationCount + 1}
<1>1. ASSUME NEW r \in Request, Commit(r)
      PROVE  ExchangeStep
  <2> DEFINE t == request[r].token
  <2>1. CASE exchanges' = exchanges
    BY <2>1 DEF ExchangeStep
  <2>2. CASE /\ exchanges' = exchanges \cup {<<t, request[r].next>>}
             /\ Commits(Hash[t], request[r].operationId)
    <3>1. request[r].pc = "commit" /\ t \in Token /\ Hash[t] \in TokenHash
      BY <1>1, IssuedTokens, HashFacts DEF Commit
    <3>2. marker'[Hash[t]].status = "committed"
      BY <1>1, <2>2, <3>1 DEF Commit, CommitMarker, TypeInv, TypeOK, MarkerDoc
    <3> QED BY <2>2, <3>1, <3>2 DEF ExchangeStep
  <2> QED BY <1>1, <2>1, <2>2 DEF Commit
<1>2. exchanges' = exchanges \/ \E r \in Request : Commit(r)
  BY Zenon DEF Next, RequestStep, RequestFault, Present, FindMarker, FindFamily,
     CreateMarker, RacedMarker, ReadOwner, TakeOver, Cas, Recover,
     RevokeOrphan, FinalizeCommit, FinalizeRevoke, RevokeReplay, Abort,
     CasFault, CommitFault, SkipFault, CreateFamily, RevokeRefreshToken,
     RevokeFamily, ExpireFamily, RevokeSubject, ReconcilerStep,
     ReconcilerFault, StartReconciliation, InspectMarker, ReconcilerCommit,
     ReconcilerRevoke, QuietExceptReconciler, ExpireMarker, Tick, vars, history
<1>3. \/ operationCount' = operationCount
      \/ \E r \in Request : CreateMarker(r) \/ TakeOver(r)
  BY Zenon DEF Next, RequestStep, RequestFault, Present, FindMarker, FindFamily,
     RacedMarker, ReadOwner, Cas, Recover, Commit, RevokeOrphan,
     FinalizeCommit, FinalizeRevoke, RevokeReplay, Abort, CasFault,
     CommitFault, SkipFault, CreateFamily, RevokeRefreshToken, RevokeFamily,
     ExpireFamily, RevokeSubject, ReconcilerStep, ReconcilerFault,
     StartReconciliation, InspectMarker, ReconcilerCommit, ReconcilerRevoke,
     QuietExceptReconciler, ExpireMarker, Tick, vars, ids
<1>4. ASSUME exchanges' = exchanges PROVE ExchangeStep
  BY <1>4 DEF ExchangeStep
<1>5. operationCount' \in {operationCount, operationCount + 1}
  BY <1>3 DEF CreateMarker, TakeOver
<1> QED BY <1>1, <1>2, <1>4, <1>5

-----------------------------------------------------------------------------
(* The invariant and what follows from it *)

ReplayInv ==
    /\ OwnershipInv /\ OperationIds /\ CommitsSpent
    /\ CommittedIsSpent /\ CommittedBeforeReturned /\ ReplaysCaught

\* Every step keeps the whole invariant.
LEMMA NextReplayInv ==
    TypeInv /\ RotationInv /\ ReplayInv /\ [Next]_vars => ReplayInv'
<1> SUFFICES ASSUME TypeInv, RotationInv, ReplayInv, [Next]_vars
             PROVE  ReplayInv'
  OBVIOUS
<1>1. TypeInv'
  BY NextTypeInv
<1>2. OwnershipInv
  BY DEF ReplayInv
<1>3. /\ StoreStep /\ RecordStep /\ ExchangeStep /\ OneAcquires
      /\ \A r \in Request : HandlerStep(r)
      /\ \A h \in TokenHash : MarkerStep(h)
      /\ \A i \in Instance : RepairStep(i)
      /\ operationCount' \in {operationCount, operationCount + 1}
  BY <1>2, NextStore, NextHandlers, NextMarkers, NextRepairs, NextExchanges
<1>4. OwnershipInv'
  BY <1>1, <1>2, <1>3, TokensOwnedKept, MarkersOwnedKept, HandlersOwnedKept,
     RepairsOwnedKept DEF OwnershipInv
<1>5. OperationIds'
  BY <1>1, <1>2, <1>3, OperationIdsKept DEF ReplayInv
<1>6. CommitsSpent'
  BY <1>1, <1>2, <1>3, CommitsSpentKept DEF ReplayInv
<1>7. CommittedIsSpent'
  BY <1>1, <1>2, <1>3, CommittedIsSpentKept DEF ReplayInv
<1>8. CommittedBeforeReturned'
  BY <1>1, <1>2, <1>3, <1>4, CommittedBeforeReturnedKept
     DEF ReplayInv, OwnershipInv
<1>9. ReplaysCaught'
  BY <1>1, <1>2, <1>3, <1>8, ReplaysCaughtKept DEF ReplayInv
<1> QED BY <1>4, <1>5, <1>6, <1>7, <1>8, <1>9 DEF ReplayInv

LEMMA InitReplayInv == Init => ReplayInv
<1> SUFFICES ASSUME Init PROVE ReplayInv
  OBVIOUS
<1>1. \A f \in Family, t \in Token : family[f].currentTokenHash # Hash[t]
  BY HashFacts DEF Init, NoFamilyDoc
<1>2. /\ \A f \in Family : family[f].lastRotationOperationId = 0
      /\ \A h \in TokenHash : marker[h].status = "absent"
      /\ \A r \in Request : request[r].pc = "idle"
      /\ \A i \in Instance : reconciler[i].pc = "idle" /\ reconciler[i].batch = {}
      /\ delivered = {} /\ exchanges = {} /\ operationCount = 0
  BY DEF Init, NoFamilyDoc, NoMarkerDoc, IdleRequest, IdleReconciler, Absent
<1>3. \A o, h : ~Uses(o, h)
  BY <1>2 DEF Uses
<1>4. OwnershipInv
  BY <1>1, <1>2
     DEF OwnershipInv, TokensOwned, MarkersOwned, HandlersOwned, RepairsOwned
<1>5. OperationIds
  BY <1>2, <1>3 DEF OperationIds
<1>6. /\ CommitsSpent /\ CommittedIsSpent /\ CommittedBeforeReturned
      /\ ReplaysCaught
  BY <1>2 DEF CommitsSpent, CommittedIsSpent, CommittedBeforeReturned,
              ReplaysCaught
<1> QED BY <1>4, <1>5, <1>6 DEF ReplayInv

LEMMA RotationAndReplayInvariant == Spec => [](TypeInv /\ RotationInv /\ ReplayInv)
<1>1. Init => TypeInv /\ RotationInv /\ ReplayInv
  BY InitTypeInv, InitRotationInv, InitReplayInv
<1>2. TypeInv /\ RotationInv /\ ReplayInv /\ [Next]_vars
      => TypeInv' /\ RotationInv' /\ ReplayInv'
  BY NextTypeInv, NextRotationInv, NextReplayInv
<1> QED BY <1>1, <1>2, PTL DEF Spec

\* A marker is committed only for a token that no family accepts: whatever a
\* handler or a timer read before, its repair never burns a token that a client
\* could still exchange.
THEOREM RepairsBurnNoToken == Spec => []CommittedIsSpent
<1>1. ReplayInv => CommittedIsSpent
  BY DEF ReplayInv
<1> QED BY <1>1, RotationAndReplayInvariant, PTL

\* No replacement is out before the marker of its predecessor is committed, and
\* that marker stays until the family has expired.
THEOREM MarkerOutlivesExchange == Spec => []CommittedBeforeReturned
<1>1. ReplayInv => CommittedBeforeReturned
  BY DEF ReplayInv
<1> QED BY <1>1, RotationAndReplayInvariant, PTL

\* A call that presents an exchanged token, and is not cut short by a failure,
\* ends only after the family of the token is revoked or has expired.
THEOREM ReplayRevokesFamily == Spec => ReplayRevokes
<1> DEFINE Revokes == \A r \in Request :
          (/\ request[r].replay
           /\ request[r].pc # "idle"
           /\ request'[r].pc = "idle"
           /\ faults' = faults)
          => LET f == owner[request[r].token] IN
             family'[f].status # "active" \/ family'[f].expiresAt <= now
<1>1. TypeInv /\ RotationInv /\ ReplayInv /\ [Next]_vars => [Revokes]_vars
  <2> SUFFICES ASSUME TypeInv, RotationInv, ReplayInv, [Next]_vars,
                      NEW r \in Request, request[r].replay,
                      request[r].pc # "idle", request'[r].pc = "idle",
                      faults' = faults
               PROVE  \/ family'[owner[request[r].token]].status # "active"
                      \/ family'[owner[request[r].token]].expiresAt <= now
    OBVIOUS
  <2>1. TypeInv' /\ StoreStep /\ HandlerStep(r)
    BY NextTypeInv, NextStore, NextHandlers
  <2>2. \/ family'[owner[request[r].token]].status # "active"
        \/ family'[owner[request[r].token]].expiresAt <= now'
    BY <2>1, ReplayEnds DEF ReplayInv
  <2>3. now' = now
    <3>1. request' # request
      OBVIOUS
    <3>2. \E x \in Request : \/ RequestStep(x) \/ RequestFault(x)
                             \/ \E t \in Token : Present(x, t)
      BY <3>1, NextMoves
    <3> QED BY <3>2 DEF RequestStep, RequestFault, Present, FindMarker, FindFamily,
       CreateMarker, RacedMarker, ReadOwner, TakeOver, Cas, Recover, Commit,
       RevokeOrphan, FinalizeCommit, FinalizeRevoke, RevokeReplay, Abort,
       CasFault, CommitFault, SkipFault, Rest
  <2> QED BY <2>2, <2>3
<1>2. Spec => [][Revokes]_vars
  BY <1>1, RotationAndReplayInvariant, PTL DEF Spec
<1> QED BY <1>2, PTL DEF ReplayRevokes

=============================================================================
