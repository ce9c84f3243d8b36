------------------------ MODULE BrowserSessionProofs ------------------------
(***************************************************************************)
(* Proofs about BrowserSession: types, that a tab which signed out has     *)
(* forgotten and stays signed out, and that no tab offers a token twice.   *)
(***************************************************************************)
EXTENDS BrowserSession, FiniteSetTheorems, TLAPS

-----------------------------------------------------------------------------
(* Calls *)

Kind == {"none", "login", "refresh", "query", "logout", "logout-all"}

CallRecord ==
    [ kind : Kind, tab : Tab \cup {None}, user : User \cup {None},
      cookie : Token \cup {None}, generation : BOOLEAN, live : BOOLEAN,
      answer : {"none", "ok", "401", "error"}, set : Token \cup {None} ]

\* Only a login or a refresh that succeeded sets a token; a query is answered
\* only to a user.
CallAt(x) ==
    /\ x.kind = "none" => x = Free
    /\ x.kind # "none" => x.tab \in Tab
    /\ x.set # None => x.kind \in {"login", "refresh"} /\ x.answer = "ok"
    /\ x.kind = "query" /\ x.answer = "ok" => x.user # None

CallInv == \A c \in Call : CallAt(call[c])

-----------------------------------------------------------------------------
(* Tokens *)

\* The refreshes a family has still to see are among the calls that were sent.
Waiting == {c \in Call : Unserved(c, "refresh")}

BudgetInv ==
    /\ Cardinality(Waiting) <= sent
    /\ \A f \in FamilyId : family[f].current + Cardinality(Waiting) <= sent + 1

Issued(k) == k # None => family[k.family].current >= k.number

IssuedInv ==
    /\ Issued(cookie)
    /\ \A c \in Call : Issued(call[c].cookie) /\ Issued(call[c].set)
    /\ \A t \in Tab : \A k \in exchanged[t] :
          k # None /\ family[k.family].current > k.number

\* A token is in one answer and in no other place until that answer is applied.
FreshInv ==
    \A c \in Call : call[c].set # None =>
        /\ call[c].set # cookie
        /\ \A d \in Call : /\ call[c].set # call[d].cookie
                           /\ d # c => call[c].set # call[d].set
        /\ \A t \in Tab : call[c].set \notin exchanged[t]

\* A tab has one refresh in flight.  Its cookie is a token it had exchanged only
\* while the answer to that refresh is on its way.
RefreshInv ==
    /\ \A c \in Call : call[c].kind = "refresh" =>
          /\ pending[call[c].tab]
          /\ call[c].answer = "none" => call[c].cookie \notin exchanged[call[c].tab]
          /\ \A d \in Call :
                call[d].kind = "refresh" /\ call[d].tab = call[c].tab => d = c
    /\ \A t \in Tab : cookie \in exchanged[t] =>
          \E c \in Call : /\ call[c].kind = "refresh" /\ call[c].tab = t
                          /\ call[c].answer = "ok" /\ call[c].cookie = cookie
    /\ twice = {}

-----------------------------------------------------------------------------
(* Tabs *)

\* Nothing that was sent before can sign in a tab that has signed out,
QuietInv ==
    \A t \in Tab : quiet[t] =>
        /\ session[t].user = None
        /\ \A c \in Call : call[c].tab = t =>
              /\ call[c].kind # "login"
              /\ call[c].kind = "refresh" => ~call[c].generation

\* nor bring data of a user into its cache.
ForgottenInv ==
    \A t \in Tab : session[t].reason = "signed-out" =>
        /\ session[t].user = None /\ cache[t] = {}
        /\ \A c \in Call :
              call[c].tab = t /\ call[c].kind = "query" /\ call[c].live =>
                 call[c].user = None

SessionInv ==
    /\ TypeOK /\ CallInv /\ BudgetInv /\ IssuedInv /\ FreshInv /\ RefreshInv
    /\ QuietInv /\ ForgottenInv

-----------------------------------------------------------------------------
(* Steps *)

\* A call goes on, but for a session or a cache that has changed meanwhile.
Fades(x, y) ==
    /\ y.kind = x.kind /\ y.tab = x.tab /\ y.user = x.user /\ y.cookie = x.cookie
    /\ y.answer = x.answer /\ y.set = x.set
    /\ y.generation => x.generation
    /\ y.live => x.live

SessionRecord ==
    [ user : User \cup {None}, reason : {"signed-out", "expired", "switched"} ]

FamilyRecord ==
    [ user : User \cup {None}, current : 0 .. MaxCalls + 1, active : BOOLEAN ]

-----------------------------------------------------------------------------
(* The definitions *)

LEMMA TypeParts ==
    TypeOK <=> /\ session \in [Tab -> SessionRecord]
               /\ cache \in [Tab -> SUBSET User]
               /\ pending \in [Tab -> BOOLEAN]
               /\ call \in [Call -> CallRecord]
               /\ cookie \in Token \cup {None}
               /\ family \in [FamilyId -> FamilyRecord]
               /\ sent \in 0 .. MaxCalls /\ faults \in 0 .. MaxFaults
               /\ quiet \in [Tab -> BOOLEAN]
               /\ exchanged \in [Tab -> SUBSET Token]
               /\ twice \subseteq Tab
BY Zenon DEF TypeOK, SessionRecord, CallRecord, Kind, FamilyRecord

LEMMA FreeFacts ==
    /\ Free \in CallRecord /\ CallAt(Free)
    /\ Free.kind = "none" /\ Free.set = None /\ Free.cookie = None
    /\ Free.answer = "none" /\ Free.tab = None
BY DEF Free, CallRecord, Kind, CallAt

LEMMA WaitingFinite ==
    /\ IsFiniteSet(Waiting) /\ Cardinality(Waiting) \in Nat
    /\ \A C \in SUBSET Waiting :
          Cardinality(C) \in Nat /\ Cardinality(C) <= Cardinality(Waiting)
<1>1. Waiting \subseteq Call
  BY DEF Waiting
<1>2. IsFiniteSet(Waiting)
  BY <1>1, CallAssumption, FS_Subset
<1> QED BY <1>2, FS_Subset, FS_CardinalityType

LEMMA InitSessionInv == Init => SessionInv
<1> SUFFICES ASSUME Init PROVE SessionInv
  OBVIOUS
<1>1. \A c \in Call : call[c] = Free
  BY DEF Init
<1>2. /\ SignedOut \in SessionRecord /\ NoFamily \in FamilyRecord
      /\ NoFamily.current = 0 /\ SignedOut.user = None
  BY BoundsAssumption DEF SignedOut, NoFamily, SessionRecord, FamilyRecord
<1>3. TypeOK
  <2>1. /\ session \in [Tab -> SessionRecord] /\ cache \in [Tab -> SUBSET User]
        /\ family \in [FamilyId -> FamilyRecord]
        /\ exchanged \in [Tab -> SUBSET Token]
    BY <1>2 DEF Init
  <2>2. call \in [Call -> CallRecord]
    BY FreeFacts DEF Init
  <2>3. /\ pending \in [Tab -> BOOLEAN] /\ quiet \in [Tab -> BOOLEAN]
        /\ cookie = None /\ twice = {}
    BY DEF Init
  <2>4. sent \in 0 .. MaxCalls /\ faults \in 0 .. MaxFaults
    BY BoundsAssumption DEF Init
  <2> QED BY <2>1, <2>2, <2>3, <2>4, TypeParts
<1>4. CallInv
  BY <1>1, FreeFacts DEF CallInv
<1>5. BudgetInv
  <2>1. Waiting = {}
    BY <1>1, FreeFacts DEF Waiting, Unserved
  <2>2. Cardinality(Waiting) = 0
    BY <2>1, FS_EmptySet
  <2> QED BY <1>2, <2>2, BoundsAssumption DEF BudgetInv, Init
<1>6. IssuedInv /\ FreshInv
  BY <1>1, FreeFacts DEF IssuedInv, FreshInv, Issued, Init
<1>7. RefreshInv
  BY <1>1, FreeFacts DEF RefreshInv, Init
<1>8. QuietInv /\ ForgottenInv
  BY <1>1, <1>2, FreeFacts DEF QuietInv, ForgottenInv, Init
<1> QED BY <1>3, <1>4, <1>5, <1>6, <1>7, <1>8 DEF SessionInv

-----------------------------------------------------------------------------
(* A call is sent *)

LEMMA SendKeepsInv ==
    ASSUME SessionInv, NEW c \in Call, NEW t \in Tab, NEW kind \in Kind \ {"none"},
           NEW user \in User \cup {None}, Send(c, kind, t, user),
           UNCHANGED <<cache, exchanged, twice>>,
           IF kind = "refresh"
           THEN ~pending[t] /\ pending' = [pending EXCEPT ![t] = TRUE]
           ELSE UNCHANGED pending,
           IF kind \in {"login", "refresh"} THEN quiet' = [quiet EXCEPT ![t] = FALSE]
           ELSE UNCHANGED quiet,
           kind = "query" => user = session[t].user
    PROVE  SessionInv'
<1> DEFINE x == [Free EXCEPT !.kind = kind, !.tab = t, !.user = user, !.cookie = cookie]
<1>1. /\ TypeOK /\ CallInv /\ BudgetInv /\ IssuedInv /\ FreshInv /\ RefreshInv
      /\ QuietInv /\ ForgottenInv
      /\ session \in [Tab -> SessionRecord]
      /\ call \in [Call -> CallRecord] /\ cookie \in Token \cup {None}
      /\ pending \in [Tab -> BOOLEAN] /\ quiet \in [Tab -> BOOLEAN]
  BY TypeParts DEF SessionInv
<1>2. /\ sent < MaxCalls /\ call[c].kind = "none" /\ call[c] = Free
      /\ call' = [call EXCEPT ![c] = x] /\ sent' = sent + 1
      /\ UNCHANGED <<session, cookie, family, faults>>
  BY <1>1 DEF Send, CallInv, CallAt
<1>3. /\ x.kind = kind /\ x.tab = t /\ x.user = user /\ x.cookie = cookie
      /\ x.answer = "none" /\ x.set = None
      /\ x \in CallRecord
  BY <1>1 DEF Free, CallRecord, Kind
<1> HIDE DEF x
<1>4. /\ call' \in [Call -> CallRecord] /\ call'[c] = x
      /\ \A d \in Call : d # c => call'[d] = call[d]
  BY <1>1, <1>2, <1>3
<1>5. /\ pending' \in [Tab -> BOOLEAN] /\ quiet' \in [Tab -> BOOLEAN]
      /\ \A v \in Tab : v # t => pending'[v] = pending[v] /\ quiet'[v] = quiet[v]
      /\ kind = "refresh" => pending'[t] /\ ~pending[t]
      /\ kind # "refresh" => pending' = pending
      /\ kind \in {"login", "refresh"} => ~quiet'[t]
      /\ kind \notin {"login", "refresh"} => quiet' = quiet
  BY <1>1
<1>6. TypeOK'
  <2>1. sent' \in 0 .. MaxCalls
    BY <1>1, <1>2, BoundsAssumption, TypeParts
  <2> QED BY <1>1, <1>2, <1>4, <1>5, <2>1, TypeParts DEF TypeOK, CallRecord, Kind
<1>7. CallInv'
  <2>1. CallAt(x)
    BY <1>3 DEF CallAt
  <2> QED BY <1>1, <1>4, <2>1 DEF CallInv
<1>8. BudgetInv'
  <2>1. Cardinality(Waiting)' \in Nat /\ Cardinality(Waiting)' <= Cardinality(Waiting) + 1
    <3>1. CASE kind = "refresh"
      <4>1. Waiting' = Waiting \cup {c} /\ c \notin Waiting
        BY <1>2, <1>3, <1>4, <3>1 DEF Waiting, Unserved
      <4> QED BY <4>1, WaitingFinite, FS_AddElement
    <3>2. CASE kind # "refresh"
      <4>1. Waiting' = Waiting
        BY <1>2, <1>3, <1>4, <3>2 DEF Waiting, Unserved
      <4> QED BY <4>1, WaitingFinite
    <3> QED BY <3>1, <3>2
  <2>2. sent \in Nat
    BY <1>1, TypeParts
  <2>3. family \in [FamilyId -> FamilyRecord]
    BY <1>1, TypeParts
  <2> QED BY <1>1, <1>2, <2>1, <2>2, <2>3, WaitingFinite, BoundsAssumption
          DEF BudgetInv, FamilyRecord
<1>9. IssuedInv'
  BY <1>1, <1>2, <1>3, <1>4 DEF IssuedInv, Issued
<1>10. FreshInv'
  BY <1>1, <1>2, <1>3, <1>4 DEF FreshInv
<1>11. RefreshInv'
  <2>1. ASSUME NEW d \in Call, call'[d].kind = "refresh"
        PROVE  /\ pending'[call'[d].tab]
               /\ call'[d].answer = "none" =>
                     call'[d].cookie \notin exchanged[call'[d].tab]
               /\ \A e \in Call : call'[e].kind = "refresh" /\ call'[e].tab = call'[d].tab
                     => e = d
    <3>1. \A e \in Call : e # c /\ call[e].kind = "refresh" =>
             call[e].tab \in Tab /\ (kind = "refresh" => call[e].tab # t)
      BY <1>1, <1>5 DEF RefreshInv, CallInv, CallAt
    <3>2. CASE d = c
      <4>1. cookie \notin exchanged[t]
        <5>1. ~pending[t] /\ kind = "refresh"
          BY <1>3, <1>4, <1>5, <2>1, <3>2
        <5> QED BY <1>1, <5>1 DEF RefreshInv
      <4> QED BY <1>3, <1>4, <1>5, <2>1, <3>1, <3>2, <4>1
    <3>3. CASE d # c
      BY <1>1, <1>3, <1>4, <1>5, <2>1, <3>1, <3>3 DEF RefreshInv
    <3> QED BY <3>2, <3>3
  <2>2. ASSUME NEW v \in Tab, cookie \in exchanged[v]
        PROVE  \E d \in Call : /\ call'[d].kind = "refresh" /\ call'[d].tab = v
                               /\ call'[d].answer = "ok" /\ call'[d].cookie = cookie
    <3>1. PICK d \in Call : /\ call[d].kind = "refresh" /\ call[d].tab = v
                            /\ call[d].answer = "ok" /\ call[d].cookie = cookie
      BY <1>1, <2>2 DEF RefreshInv
    <3> QED BY <1>2, <1>4, <3>1
  <2> QED BY <1>1, <1>2, <2>1, <2>2 DEF RefreshInv
<1>12. QuietInv'
  BY <1>1, <1>2, <1>3, <1>4, <1>5 DEF QuietInv
<1>13. ForgottenInv'
  BY <1>1, <1>2, <1>3, <1>4 DEF ForgottenInv
<1> QED BY <1>6, <1>7, <1>8, <1>9, <1>10, <1>11, <1>12, <1>13 DEF SessionInv

LEMMA SendsKeepInv ==
    ASSUME SessionInv, NEW c \in Call, NEW t \in Tab,
           \/ \E u \in User : SendLogin(c, t, u)
           \/ SendRefresh(c, t)
           \/ SendQuery(c, t)
           \/ \E kind \in {"logout", "logout-all"} : SendSignOut(c, t, kind)
    PROVE  SessionInv'
<1>1. session[t].user \in User \cup {None}
  BY TypeParts DEF SessionInv, SessionRecord
<1>2. ASSUME NEW u \in User, SendLogin(c, t, u) PROVE SessionInv'
  BY <1>2, SendKeepsInv DEF SendLogin, Kind
<1>3. CASE SendRefresh(c, t)
  BY <1>3, SendKeepsInv DEF SendRefresh, MayRefresh, Kind
<1>4. CASE SendQuery(c, t)
  BY <1>1, <1>4, SendKeepsInv DEF SendQuery, Kind
<1>5. ASSUME NEW kind \in {"logout", "logout-all"}, SendSignOut(c, t, kind)
      PROVE  SessionInv'
  BY <1>1, <1>5, SendKeepsInv DEF SendSignOut, Kind
<1> QED BY <1>2, <1>3, <1>4, <1>5

-----------------------------------------------------------------------------
(* A call is answered *)

\* What an answer leaves of a call.
Answers(x, y) ==
    /\ y \in CallRecord /\ x.kind # "none"
    /\ y.kind = x.kind /\ y.tab = x.tab /\ y.cookie = x.cookie
    /\ y.generation = x.generation /\ y.live = x.live
    /\ y.answer # "none"
    /\ x.kind = "query" => y.user = x.user

\* The tabs do not notice.
LEMMA AnswerKeepsTabs ==
    ASSUME SessionInv, NEW c \in Call, NEW y \in CallRecord,
           call' = [call EXCEPT ![c] = y], Answers(call[c], y), CallAt(y),
           UNCHANGED <<session, cache, quiet>>
    PROVE  /\ call' \in [Call -> CallRecord] /\ call'[c] = y
           /\ \A d \in Call : d # c => call'[d] = call[d]
           /\ Waiting' = Waiting \ {c}
           /\ CallInv' /\ QuietInv' /\ ForgottenInv'
<1>1. /\ CallInv /\ QuietInv /\ ForgottenInv /\ call \in [Call -> CallRecord]
  BY TypeParts DEF SessionInv
<1>2. /\ call' \in [Call -> CallRecord] /\ call'[c] = y
      /\ \A d \in Call : d # c => call'[d] = call[d]
  BY <1>1
<1>3. Waiting' = Waiting \ {c}
  BY <1>2 DEF Waiting, Unserved, Answers
<1>4. CallInv'
  BY <1>1, <1>2 DEF CallInv
<1>5. QuietInv'
  BY <1>1, <1>2 DEF QuietInv, Answers
<1>6. ForgottenInv'
  BY <1>1, <1>2 DEF ForgottenInv, Answers
<1> QED BY <1>2, <1>3, <1>4, <1>5, <1>6

\* An answer without a token.
LEMMA PlainAnswerKeepsInv ==
    ASSUME SessionInv, NEW c \in Call, NEW y \in CallRecord,
           call' = [call EXCEPT ![c] = y], Answers(call[c], y), CallAt(y),
           y.set = None,
           UNCHANGED <<session, cache, pending, cookie, sent, quiet, twice>>,
           faults' \in 0 .. MaxFaults,
           family' \in [FamilyId -> FamilyRecord],
           \A f \in FamilyId : family'[f].current = family[f].current,
           exchanged' \in [Tab -> SUBSET Token],
           \A t \in Tab : exchanged'[t] \subseteq exchanged[t],
           \A t \in Tab :
              /\ cookie \in exchanged'[t] /\ call[c].tab = t
              /\ call[c].kind = "refresh" /\ call[c].cookie = cookie
              => call[c].answer # "ok"
    PROVE  SessionInv'
<1>1. /\ TypeOK /\ CallInv /\ BudgetInv /\ IssuedInv /\ FreshInv /\ RefreshInv
      /\ sent \in 0 .. MaxCalls
      /\ call \in [Call -> CallRecord] /\ cookie \in Token \cup {None}
  BY TypeParts DEF SessionInv
<1>2. /\ call' \in [Call -> CallRecord] /\ call'[c] = y
      /\ \A d \in Call : d # c => call'[d] = call[d]
      /\ Waiting' = Waiting \ {c}
      /\ CallInv' /\ QuietInv' /\ ForgottenInv'
  BY AnswerKeepsTabs
<1>3. TypeOK'
  BY <1>1, <1>2, TypeParts DEF TypeOK, CallRecord, Kind, FamilyRecord
<1>4. BudgetInv'
  <2>1. Cardinality(Waiting)' \in Nat /\ Cardinality(Waiting)' <= Cardinality(Waiting)
    BY <1>2, WaitingFinite
  <2>2. family \in [FamilyId -> FamilyRecord]
    BY <1>1, TypeParts
  <2> QED BY <1>1, <2>1, <2>2, WaitingFinite, BoundsAssumption
          DEF BudgetInv, FamilyRecord
<1>5. \A k \in Token : Issued(k)' <=> Issued(k)
  BY DEF Issued, Token
<1>6. IssuedInv'
  <2>1. \A t \in Tab : \A k \in exchanged'[t] :
           k \in Token /\ k # None /\ family[k.family].current > k.number
    BY <1>1 DEF IssuedInv
  <2>2. \A t \in Tab : \A k \in exchanged'[t] :
           k # None /\ family'[k.family].current > k.number
    BY <2>1 DEF Token
  <2>3. Issued(cookie)'
    BY <1>1, <1>5 DEF IssuedInv, Issued
  <2>4. ASSUME NEW d \in Call PROVE Issued(call[d].cookie)' /\ Issued(call[d].set)'
    <3>1. /\ call'[d].cookie = call[d].cookie
          /\ call'[d].set = call[d].set \/ call'[d].set = None
      BY <1>2 DEF Answers
    <3>2. call[d].cookie \in Token \cup {None} /\ call[d].set \in Token \cup {None}
      BY <1>1 DEF CallRecord
    <3> QED BY <1>1, <1>5, <3>1, <3>2 DEF IssuedInv, Issued
  <2> QED BY <2>2, <2>3, <2>4 DEF IssuedInv
<1>7. FreshInv'
  BY <1>1, <1>2 DEF FreshInv, Answers
<1>8. RefreshInv'
  <2>1. ASSUME NEW d \in Call, call'[d].kind = "refresh"
        PROVE  /\ pending[call'[d].tab]
               /\ call'[d].answer = "none" =>
                     call'[d].cookie \notin exchanged'[call'[d].tab]
               /\ \A e \in Call : call'[e].kind = "refresh" /\ call'[e].tab = call'[d].tab
                     => e = d
    <3>1. \A e \in Call : call'[e].kind = call[e].kind /\ call'[e].tab = call[e].tab
      BY <1>2 DEF Answers
    <3>2. call'[d].answer = "none" => d # c /\ call'[d] = call[d]
      BY <1>2 DEF Answers
    <3>3. call[d].tab \in Tab
      BY <1>1, <2>1, <3>1 DEF CallInv, CallAt
    <3> QED BY <1>1, <2>1, <3>1, <3>2, <3>3 DEF RefreshInv
  <2>2. ASSUME NEW v \in Tab, cookie \in exchanged'[v]
        PROVE  \E d \in Call : /\ call'[d].kind = "refresh" /\ call'[d].tab = v
                               /\ call'[d].answer = "ok" /\ call'[d].cookie = cookie
    <3>1. PICK d \in Call : /\ call[d].kind = "refresh" /\ call[d].tab = v
                            /\ call[d].answer = "ok" /\ call[d].cookie = cookie
      BY <1>1, <2>2 DEF RefreshInv
    <3>2. d # c
      BY <2>2, <3>1
    <3> QED BY <1>2, <3>1, <3>2
  <2> QED BY <1>1, <2>1, <2>2 DEF RefreshInv
<1> QED BY <1>2, <1>3, <1>4, <1>6, <1>7, <1>8 DEF SessionInv

\* An answer with a token that is the newest of its family.
LEMMA TokenAnswerKeepsInv ==
    ASSUME SessionInv, NEW c \in Call, NEW y \in CallRecord, NEW k \in Token,
           call' = [call EXCEPT ![c] = y], Answers(call[c], y), CallAt(y),
           call[c].answer = "none", y.set = k, y.answer = "ok",
           UNCHANGED <<session, cache, pending, cookie, sent, faults, quiet, twice>>,
           family' \in [FamilyId -> FamilyRecord],
           family[k.family].current < k.number,
           family'[k.family].current = k.number,
           \A f \in FamilyId : f # k.family => family'[f] = family[f],
           BudgetInv',
           exchanged' \in [Tab -> SUBSET Token],
           \A t \in Tab : \A n \in exchanged'[t] :
              \/ n \in exchanged[t]
              \/ /\ call[c].kind = "refresh" /\ t = call[c].tab /\ n = call[c].cookie
                 /\ n # None /\ n.family = k.family /\ n.number < k.number
    PROVE  SessionInv'
<1>1. /\ TypeOK /\ CallInv /\ IssuedInv /\ FreshInv /\ RefreshInv
      /\ sent \in 0 .. MaxCalls
      /\ call \in [Call -> CallRecord] /\ cookie \in Token \cup {None}
      /\ family \in [FamilyId -> FamilyRecord]
      /\ exchanged \in [Tab -> SUBSET Token]
  BY TypeParts DEF SessionInv
<1>2. /\ call' \in [Call -> CallRecord] /\ call'[c] = y
      /\ \A d \in Call : d # c => call'[d] = call[d]
      /\ CallInv' /\ QuietInv' /\ ForgottenInv'
  BY AnswerKeepsTabs
<1>3. TypeOK'
  BY <1>1, <1>2, TypeParts DEF TypeOK, CallRecord, Kind, FamilyRecord
<1>4. \A f \in FamilyId : /\ family[f].current \in Nat /\ family'[f].current \in Nat
                          /\ family[f].current <= family'[f].current
  <2>1. \A f \in FamilyId : /\ family[f].current \in 0 .. MaxCalls + 1
                            /\ family'[f].current \in 0 .. MaxCalls + 1
    BY <1>1 DEF FamilyRecord
  <2>2. k.family \in FamilyId /\ k.number \in Nat
    BY BoundsAssumption DEF Token
  <2> QED BY <2>1, <2>2, BoundsAssumption
\* What was issued still is, and is not the new token.
<1>5. ASSUME NEW n \in Token \cup {None}, Issued(n)
      PROVE  (n # None => family'[n.family].current >= n.number) /\ n # k
  <2>1. CASE n = None
    BY <2>1, TokenAssumption
  <2>2. CASE n \in Token /\ n # None
    <3>1. n.family \in FamilyId /\ n.number \in Nat /\ k.number \in Nat
      BY <2>2, BoundsAssumption DEF Token
    <3> QED BY <1>4, <1>5, <2>2, <3>1 DEF Issued
  <2> QED BY <2>1, <2>2
<1>6. \A t \in Tab : \A n \in exchanged'[t] :
         n # None /\ family'[n.family].current > n.number /\ n # k
  <2> SUFFICES ASSUME NEW t \in Tab, NEW n \in exchanged'[t]
               PROVE  n # None /\ family'[n.family].current > n.number /\ n # k
    OBVIOUS
  <2>1. n \in Token /\ n.family \in FamilyId /\ n.number \in Nat /\ k.number \in Nat
    BY BoundsAssumption DEF Token
  <2>2. CASE n \in exchanged[t]
    BY <1>1, <1>4, <2>1, <2>2 DEF IssuedInv
  <2>3. CASE n \notin exchanged[t]
    BY <2>1, <2>3
  <2> QED BY <2>2, <2>3
<1>7. IssuedInv'
  <2>1. Issued(cookie)'
    BY <1>1, <1>5 DEF IssuedInv, Issued
  <2>2. ASSUME NEW d \in Call PROVE Issued(call[d].cookie)' /\ Issued(call[d].set)'
    <3>1. call[d].cookie \in Token \cup {None} /\ call[d].set \in Token \cup {None}
      BY <1>1 DEF CallRecord
    <3>2. call'[d].cookie = call[d].cookie /\ Issued(call[d].cookie)'
      BY <1>1, <1>2, <1>5, <3>1 DEF Answers, IssuedInv, Issued
    <3>3. Issued(call[d].set)'
      <4>1. CASE d = c
        BY <1>2, <4>1, BoundsAssumption DEF Issued, Token
      <4>2. CASE d # c
        BY <1>1, <1>2, <1>5, <3>1, <4>2 DEF IssuedInv, Issued
      <4> QED BY <4>1, <4>2
    <3> QED BY <3>2, <3>3
  <2> QED BY <1>6, <2>1, <2>2 DEF IssuedInv
<1>8. FreshInv'
  <2>1. cookie # k
    BY <1>1, <1>5 DEF IssuedInv
  <2>2. \A d \in Call : call[d].cookie # k /\ call[d].set # k
    BY <1>1, <1>5 DEF IssuedInv, CallRecord
  <2>3. \A d \in Call : call'[d].cookie = call[d].cookie
    BY <1>2 DEF Answers
  <2>4. ASSUME NEW d \in Call, call'[d].set # None
        PROVE  /\ call'[d].set # cookie
               /\ \A e \in Call : /\ call'[d].set # call'[e].cookie
                                  /\ e # d => call'[d].set # call'[e].set
               /\ \A t \in Tab : call'[d].set \notin exchanged'[t]
    <3>1. CASE d = c
      BY <1>2, <1>6, <2>1, <2>2, <2>3, <3>1
    <3>2. CASE d # c
      <4>1. call'[d].set = call[d].set /\ call[d].set # None
        BY <1>2, <2>4, <3>2
      <4>2. /\ call[d].set # cookie
            /\ \A e \in Call : /\ call[d].set # call[e].cookie
                               /\ e # d => call[d].set # call[e].set
            /\ \A t \in Tab : call[d].set \notin exchanged[t]
        BY <1>1, <4>1 DEF FreshInv
      <4>3. \A t \in Tab : call[d].set \notin exchanged'[t]
        BY <4>2
      <4>4. \A e \in Call : e # d => call[d].set # call'[e].set
        BY <1>2, <2>2, <4>2
      <4> QED BY <2>3, <4>1, <4>2, <4>3, <4>4
    <3> QED BY <3>1, <3>2
  <2> QED BY <2>4 DEF FreshInv
<1>9. RefreshInv'
  <2>0. \A e \in Call : call'[e].kind = call[e].kind /\ call'[e].tab = call[e].tab
    BY <1>2 DEF Answers
  <2>1. ASSUME NEW d \in Call, call'[d].kind = "refresh"
        PROVE  /\ pending[call'[d].tab]
               /\ call'[d].answer = "none" =>
                     call'[d].cookie \notin exchanged'[call'[d].tab]
               /\ \A e \in Call : call'[e].kind = "refresh" /\ call'[e].tab = call'[d].tab
                     => e = d
    <3>1. call'[d].answer = "none" => d # c /\ call'[d] = call[d]
      BY <1>2 DEF Answers
    <3>2. call[d].tab \in Tab
      BY <1>1, <2>0, <2>1 DEF CallInv, CallAt
    <3>3. \A e \in Call : call[e].kind = "refresh" /\ call[e].tab = call[d].tab => e = d
      BY <1>1, <2>0, <2>1 DEF RefreshInv
    <3>4. call'[d].answer = "none" => call'[d].cookie \notin exchanged'[call'[d].tab]
      BY <1>1, <2>0, <2>1, <3>1, <3>2, <3>3 DEF RefreshInv
    <3> QED BY <1>1, <2>0, <2>1, <3>3, <3>4 DEF RefreshInv
  <2>2. ASSUME NEW v \in Tab, cookie \in exchanged'[v]
        PROVE  \E d \in Call : /\ call'[d].kind = "refresh" /\ call'[d].tab = v
                               /\ call'[d].answer = "ok" /\ call'[d].cookie = cookie
    <3>1. CASE cookie \in exchanged[v]
      <4>1. PICK d \in Call : /\ call[d].kind = "refresh" /\ call[d].tab = v
                              /\ call[d].answer = "ok" /\ call[d].cookie = cookie
        BY <1>1, <3>1 DEF RefreshInv
      <4> QED BY <1>2, <4>1
    <3>2. CASE cookie \notin exchanged[v]
      <4>1. call[c].kind = "refresh" /\ v = call[c].tab /\ cookie = call[c].cookie
        BY <2>2, <3>2
      <4> QED BY <1>2, <4>1 DEF Answers
    <3> QED BY <3>1, <3>2
  <2> QED BY <1>1, <2>1, <2>2 DEF RefreshInv
<1> QED BY <1>2, <1>3, <1>7, <1>8, <1>9 DEF SessionInv

LEMMA AnsweredFacts ==
    ASSUME SessionInv, NEW c \in Call, call[c].kind # "none",
           NEW answer \in {"ok", "401", "error"}, Answered(c, answer, None),
           call[c].kind = "query" /\ answer = "ok" => call[c].user # None
    PROVE  \E y \in CallRecord : /\ call' = [call EXCEPT ![c] = y]
                                 /\ Answers(call[c], y) /\ CallAt(y) /\ y.set = None
<1> DEFINE y == [call[c] EXCEPT !.answer = answer, !.set = None]
<1>1. call \in [Call -> CallRecord] /\ CallAt(call[c])
  BY TypeParts DEF SessionInv, CallInv
<1>2. call' = [call EXCEPT ![c] = y]
  BY <1>1 DEF Answered
<1>3. /\ y \in CallRecord /\ y.kind = call[c].kind /\ y.tab = call[c].tab
      /\ y.user = call[c].user /\ y.cookie = call[c].cookie
      /\ y.generation = call[c].generation /\ y.live = call[c].live
      /\ y.answer = answer /\ y.set = None
  BY <1>1 DEF CallRecord
<1> HIDE DEF y
<1>4. Answers(call[c], y) /\ CallAt(y)
  BY <1>1, <1>3 DEF Answers, CallAt
<1> QED BY <1>2, <1>3, <1>4

\* The calls whose answer gives no token.
LEMMA PlainServed ==
    ASSUME SessionInv, NEW c \in Call, call[c].kind # "none",
           call[c].answer = "none",
           NEW answer \in {"ok", "401", "error"}, Answered(c, answer, None),
           call[c].kind = "query" /\ answer = "ok" => call[c].user # None,
           UNCHANGED <<session, cache, pending, cookie, sent, quiet, exchanged, twice>>,
           faults' \in 0 .. MaxFaults,
           family' \in [FamilyId -> FamilyRecord],
           \A f \in FamilyId : family'[f].current = family[f].current
    PROVE  SessionInv'
<1>1. PICK y \in CallRecord : /\ call' = [call EXCEPT ![c] = y]
                              /\ Answers(call[c], y) /\ CallAt(y) /\ y.set = None
  BY AnsweredFacts
<1>2. exchanged \in [Tab -> SUBSET Token]
  BY TypeParts DEF SessionInv
<1> QED BY <1>1, <1>2, PlainAnswerKeepsInv

\* A family that is given up keeps its number.
LEMMA Deactivated ==
    ASSUME family \in [FamilyId -> FamilyRecord], NEW f \in FamilyId, NEW a \in BOOLEAN
    PROVE  /\ [family EXCEPT ![f].active = a] \in [FamilyId -> FamilyRecord]
           /\ \A g \in FamilyId :
                 [family EXCEPT ![f].active = a][g].current = family[g].current
<1> DEFINE x == [family[f] EXCEPT !.active = a]
<1>1. x \in FamilyRecord /\ x.current = family[f].current
  BY DEF FamilyRecord
<1>2. [family EXCEPT ![f].active = a] = [family EXCEPT ![f] = x]
  OBVIOUS
<1> HIDE DEF x
<1> QED BY <1>1, <1>2

LEMMA ServeLoginKeepsInv ==
    ASSUME SessionInv, NEW c \in Call, ServeLogin(c),
           UNCHANGED <<session, cache, pending, cookie, sent, faults, quiet, exchanged,
                       twice>>
    PROVE  SessionInv'
<1>1. /\ TypeOK /\ CallInv /\ BudgetInv
      /\ call \in [Call -> CallRecord] /\ call[c] \in CallRecord /\ CallAt(call[c])
      /\ family \in [FamilyId -> FamilyRecord]
      /\ exchanged \in [Tab -> SUBSET Token]
      /\ sent \in 0 .. MaxCalls /\ faults \in 0 .. MaxFaults
  BY TypeParts DEF SessionInv, CallInv
<1>2. call[c].kind = "login" /\ call[c].answer = "none"
  BY DEF ServeLogin, Unserved
<1>3. CASE Answered(c, "401", None) /\ UNCHANGED family
  BY <1>1, <1>2, <1>3, PlainServed
<1>4. ASSUME NEW f \in FamilyId, family[f] = NoFamily,
             family' = [family EXCEPT ![f] = [ user |-> call[c].user, current |-> 1,
                                               active |-> TRUE ]],
             Answered(c, "ok", [family |-> f, number |-> 1])
      PROVE  SessionInv'
  <2> DEFINE k == [family |-> f, number |-> 1]
             x == [ user |-> call[c].user, current |-> 1, active |-> TRUE ]
             y == [call[c] EXCEPT !.answer = "ok", !.set = k]
  <2>1. k \in Token /\ k.family = f /\ k.number = 1
    BY BoundsAssumption DEF Token
  <2>2. x \in FamilyRecord /\ x.current = 1
    BY <1>1, BoundsAssumption DEF FamilyRecord, CallRecord
  <2>3. family[f].current = 0
    BY <1>4 DEF NoFamily
  <2>4. call' = [call EXCEPT ![c] = y] /\ family' = [family EXCEPT ![f] = x]
    BY <1>1, <1>4 DEF Answered
  <2> HIDE DEF k, x
  <2>5. /\ y \in CallRecord /\ y.kind = call[c].kind /\ y.tab = call[c].tab
        /\ y.user = call[c].user /\ y.cookie = call[c].cookie
        /\ y.generation = call[c].generation /\ y.live = call[c].live
        /\ y.answer = "ok" /\ y.set = k
    BY <1>1, <2>1 DEF CallRecord
  <2> HIDE DEF y
  <2>6. Answers(call[c], y) /\ CallAt(y)
    BY <1>1, <1>2, <2>5 DEF Answers, CallAt
  <2>7. /\ family' \in [FamilyId -> FamilyRecord] /\ family'[f] = x
        /\ \A g \in FamilyId : g # f => family'[g] = family[g]
    BY <1>1, <2>2, <2>4
  <2>8. Waiting' = Waiting
    <3>1. Waiting' = Waiting \ {c}
      BY <2>4, <2>5, <2>6, AnswerKeepsTabs
    <3> QED BY <1>2, <3>1 DEF Waiting, Unserved
  <2>9. BudgetInv'
    BY <1>1, <2>2, <2>7, <2>8, WaitingFinite, BoundsAssumption DEF BudgetInv
  <2>10. /\ family[k.family].current < k.number
         /\ family'[k.family].current = k.number
         /\ \A g \in FamilyId : g # k.family => family'[g] = family[g]
    BY <2>1, <2>2, <2>3, <2>7
  <2>11. \A t \in Tab : \A n \in exchanged'[t] : n \in exchanged[t]
    OBVIOUS
  <2>12. exchanged' \in [Tab -> SUBSET Token]
    BY <1>1
  <2> QED BY <1>2, <2>1, <2>4, <2>5, <2>6, <2>7, <2>9, <2>10, <2>11, <2>12,
             TokenAnswerKeepsInv
<1> QED BY <1>3, <1>4 DEF ServeLogin

LEMMA ServeRefreshKeepsInv ==
    ASSUME SessionInv, NEW c \in Call, ServeRefresh(c),
           UNCHANGED <<session, cache, pending, cookie, sent, faults, quiet>>
    PROVE  SessionInv'
<1>1. /\ TypeOK /\ CallInv /\ BudgetInv /\ RefreshInv
      /\ call \in [Call -> CallRecord] /\ call[c] \in CallRecord /\ CallAt(call[c])
      /\ family \in [FamilyId -> FamilyRecord]
      /\ exchanged \in [Tab -> SUBSET Token]
      /\ sent \in 0 .. MaxCalls /\ faults \in 0 .. MaxFaults
  BY TypeParts DEF SessionInv, CallInv
<1>2. call[c].kind = "refresh" /\ call[c].answer = "none" /\ call[c].tab \in Tab
  BY <1>1 DEF ServeRefresh, Unserved, CallAt
<1>3. CASE call[c].cookie = None
  BY <1>1, <1>2, <1>3, PlainServed DEF ServeRefresh
<1>4. CASE call[c].cookie # None
  <2> DEFINE f == call[c].cookie.family
             n == call[c].cookie.number
             t == call[c].tab
  <2>1. /\ call[c].cookie \in Token /\ f \in FamilyId /\ n \in 1 .. MaxCalls + 1
    BY <1>1, <1>4 DEF CallRecord, Token
  <2>2. CASE family[f].active /\ family[f].current = n
    <3> DEFINE m == n + 1
               k == [family |-> f, number |-> m]
               x == [family[f] EXCEPT !.current = m]
               y == [call[c] EXCEPT !.answer = "ok", !.user = family[f].user, !.set = k]
               e == exchanged[t] \cup {call[c].cookie}
    <3>1. /\ family' = [family EXCEPT ![f] = x] /\ call' = [call EXCEPT ![c] = y]
          /\ exchanged' = [exchanged EXCEPT ![t] = e] /\ UNCHANGED twice
      BY <1>1, <1>2, <1>4, <2>1, <2>2 DEF ServeRefresh
    <3>2. c \in Waiting
      BY <1>2 DEF Waiting, Unserved
    <3>3. /\ Cardinality(Waiting \ {c}) = Cardinality(Waiting) - 1
          /\ Cardinality(Waiting) \in Nat /\ Cardinality(Waiting \ {c}) \in Nat
      BY <3>2, WaitingFinite, FS_RemoveElement
    <3>4. m \in 1 .. MaxCalls + 1
      BY <1>1, <2>1, <2>2, <3>3, BoundsAssumption DEF BudgetInv
    <3> HIDE DEF m
    <3>5. k \in Token /\ k.family = f /\ k.number = m
      BY <2>1, <3>4 DEF Token
    <3>6. x \in FamilyRecord /\ x.current = m /\ family[f].user \in User \cup {None}
      BY <1>1, <2>1, <3>4, BoundsAssumption DEF FamilyRecord
    <3> HIDE DEF k, x
    <3>7. /\ y \in CallRecord /\ y.kind = call[c].kind /\ y.tab = call[c].tab
          /\ y.cookie = call[c].cookie
          /\ y.generation = call[c].generation /\ y.live = call[c].live
          /\ y.answer = "ok" /\ y.set = k
      BY <1>1, <3>5, <3>6 DEF CallRecord
    <3> HIDE DEF y
    <3>8. Answers(call[c], y) /\ CallAt(y)
      BY <1>2, <3>7 DEF Answers, CallAt
    <3>9. /\ family' \in [FamilyId -> FamilyRecord] /\ family'[f] = x
          /\ \A g \in FamilyId : g # f => family'[g] = family[g]
      BY <1>1, <2>1, <3>1, <3>6
    <3>10. /\ exchanged' \in [Tab -> SUBSET Token] /\ exchanged'[t] = e
           /\ \A v \in Tab : v # t => exchanged'[v] = exchanged[v]
      BY <1>1, <1>2, <2>1, <3>1
    <3>11. Waiting' = Waiting \ {c}
      BY <3>1, <3>7, <3>8, AnswerKeepsTabs
    <3>12. m = n + 1 /\ family[f].current = n /\ n \in Nat
      BY <2>1, <2>2, BoundsAssumption DEF m
    <3>13. BudgetInv'
      <4>1. Cardinality(Waiting)' = Cardinality(Waiting) - 1
        BY <3>3, <3>11
      <4>2. ASSUME NEW g \in FamilyId
            PROVE  family'[g].current + Cardinality(Waiting)' <= sent + 1
        <5>1. family[g].current \in Nat /\ family[g].current + Cardinality(Waiting) <= sent + 1
          BY <1>1, BoundsAssumption DEF BudgetInv, FamilyRecord
        <5>2. family'[g].current \in {family[g].current, family[g].current + 1}
          BY <3>6, <3>9, <3>12
        <5> QED BY <1>1, <3>3, <4>1, <5>1, <5>2
      <4>3. Cardinality(Waiting)' <= sent
        BY <1>1, <3>3, <4>1 DEF BudgetInv
      <4> QED BY <4>2, <4>3 DEF BudgetInv
    <3>14. \A v \in Tab : \A w \in exchanged'[v] :
              \/ w \in exchanged[v]
              \/ /\ call[c].kind = "refresh" /\ v = call[c].tab /\ w = call[c].cookie
                 /\ w # None /\ w.family = k.family /\ w.number < k.number
      BY <1>2, <1>4, <3>5, <3>10, <3>12
    <3>15. /\ family[k.family].current < k.number
           /\ family'[k.family].current = k.number
           /\ \A g \in FamilyId : g # k.family => family'[g] = family[g]
      BY <3>5, <3>6, <3>9, <3>12
    <3>16. /\ call' = [call EXCEPT ![c] = y] /\ UNCHANGED twice
           /\ k \in Token /\ y \in CallRecord /\ y.set = k /\ y.answer = "ok"
           /\ family' \in [FamilyId -> FamilyRecord]
           /\ exchanged' \in [Tab -> SUBSET Token]
      BY <3>1, <3>5, <3>7, <3>9, <3>10
    <3> HIDE DEF f, n, t, e
    <3> QED BY <1>2, <3>8, <3>13, <3>14, <3>15, <3>16, TokenAnswerKeepsInv
  <2>3. CASE ~(family[f].active /\ family[f].current = n)
    <3>1. /\ family' = [family EXCEPT ![f].active = FALSE]
          /\ Answered(c, "401", None) /\ UNCHANGED exchanged
          /\ twice' = IF call[c].cookie \in exchanged[t] THEN twice \cup {t} ELSE twice
      BY <1>2, <1>4, <2>3 DEF ServeRefresh
    <3>2. call[c].cookie \notin exchanged[t]
      BY <1>1, <1>2 DEF RefreshInv
    <3>3. /\ family' \in [FamilyId -> FamilyRecord]
          /\ \A g \in FamilyId : family'[g].current = family[g].current
      BY <1>1, <2>1, <3>1, Deactivated
    <3> QED BY <1>1, <1>2, <3>1, <3>2, <3>3, PlainServed
  <2> QED BY <2>2, <2>3
<1> QED BY <1>3, <1>4

\* A sign-out or a query is served.
LEMMA ServePlainKeepsInv ==
    ASSUME SessionInv, NEW c \in Call,
           ServeLogout(c) \/ ServeLogoutAll(c) \/ ServeQuery(c),
           UNCHANGED <<session, cache, pending, cookie, sent, faults, quiet, exchanged,
                       twice>>
    PROVE  SessionInv'
<1>1. /\ call[c] \in CallRecord /\ faults \in 0 .. MaxFaults
      /\ family \in [FamilyId -> FamilyRecord]
  BY TypeParts DEF SessionInv
<1>2. /\ call[c].kind \in {"logout", "logout-all", "query"} /\ call[c].answer = "none"
  BY DEF ServeLogout, ServeLogoutAll, ServeQuery, Unserved
<1>3. ASSUME family' \in [FamilyId -> FamilyRecord],
             \A f \in FamilyId : family'[f].current = family[f].current,
             \/ Answered(c, "401", None)
             \/ Answered(c, "ok", None) /\ (call[c].kind = "query" => call[c].user # None)
      PROVE  SessionInv'
  BY <1>1, <1>2, <1>3, PlainServed
<1>4. CASE ServeLogout(c)
  <2>1. Answered(c, "ok", None) /\ call[c].kind = "logout"
    BY <1>4 DEF ServeLogout, Unserved
  <2>2. CASE call[c].cookie = None
    BY <1>1, <1>3, <1>4, <2>1, <2>2 DEF ServeLogout
  <2>3. CASE call[c].cookie # None
    <3> DEFINE f == call[c].cookie.family
               a == family[f].active /\ family[f].current # call[c].cookie.number
    <3>1. f \in FamilyId
      BY <1>1, <2>3 DEF CallRecord, Token
    <3>2. family' = [family EXCEPT ![f].active = a]
      BY <1>1, <1>4, <2>3, <3>1 DEF ServeLogout
    <3>3. a \in BOOLEAN
      OBVIOUS
    <3> HIDE DEF a, f
    <3>4. /\ family' \in [FamilyId -> FamilyRecord]
          /\ \A g \in FamilyId : family'[g].current = family[g].current
      BY <1>1, <3>1, <3>2, <3>3, Deactivated
    <3> QED BY <1>3, <2>1, <3>4
  <2> QED BY <2>2, <2>3
<1>5. CASE ServeLogoutAll(c)
  <2>1. call[c].kind = "logout-all"
    BY <1>5 DEF ServeLogoutAll, Unserved
  <2>2. \A f \in FamilyId : /\ [family[f] EXCEPT !.active = FALSE] \in FamilyRecord
                            /\ [family[f] EXCEPT !.active = FALSE].current
                                  = family[f].current
    BY <1>1 DEF FamilyRecord
  <2>3. /\ family' \in [FamilyId -> FamilyRecord]
        /\ \A f \in FamilyId : family'[f].current = family[f].current
    BY <1>1, <1>5, <2>2 DEF ServeLogoutAll
  <2>4. Answered(c, "401", None) \/ Answered(c, "ok", None)
    BY <1>5 DEF ServeLogoutAll
  <2> QED BY <1>3, <2>1, <2>3, <2>4
<1>6. CASE ServeQuery(c)
  BY <1>1, <1>3, <1>6 DEF ServeQuery
<1> QED BY <1>4, <1>5, <1>6

LEMMA ServeKeepsInv ==
    ASSUME SessionInv, NEW c \in Call, Serve(c)
    PROVE  SessionInv'
BY ServeLoginKeepsInv, ServeRefreshKeepsInv, ServePlainKeepsInv DEF Serve

\* A call that never arrives.
LEMMA FailCallKeepsInv ==
    ASSUME SessionInv, NEW c \in Call, FailCall(c)
    PROVE  SessionInv'
<1>1. /\ family \in [FamilyId -> FamilyRecord] /\ faults \in 0 .. MaxFaults
  BY TypeParts DEF SessionInv
<1>2. faults' \in 0 .. MaxFaults
  BY <1>1, BoundsAssumption DEF FailCall
<1> QED BY <1>1, <1>2, PlainServed DEF FailCall

\* An answer that never arrives: the token it exchanged no longer counts.
LEMMA LoseAnswerKeepsInv ==
    ASSUME SessionInv, NEW c \in Call, LoseAnswer(c)
    PROVE  SessionInv'
<1>1. /\ CallInv /\ call \in [Call -> CallRecord] /\ call[c] \in CallRecord
      /\ family \in [FamilyId -> FamilyRecord] /\ faults \in 0 .. MaxFaults
      /\ exchanged \in [Tab -> SUBSET Token]
  BY TypeParts DEF SessionInv
<1>2. /\ call[c].answer \notin {"none", "error"}
      /\ Answered(c, "error", None)
      /\ UNCHANGED <<session, cache, pending, cookie, family, sent, quiet, twice>>
      /\ faults < MaxFaults /\ faults' = faults + 1
  BY DEF LoseAnswer
<1>3. call[c].kind # "none"
  BY <1>1, <1>2, FreeFacts DEF CallInv, CallAt
<1>4. faults' \in 0 .. MaxFaults
  BY <1>1, <1>2, BoundsAssumption
<1>5. PICK y \in CallRecord : /\ call' = [call EXCEPT ![c] = y]
                              /\ Answers(call[c], y) /\ CallAt(y) /\ y.set = None
  BY <1>2, <1>3, AnsweredFacts
<1>6. /\ exchanged' \in [Tab -> SUBSET Token]
      /\ \A t \in Tab : exchanged'[t] \subseteq exchanged[t]
      /\ \A t \in Tab : call[c].kind = "refresh" /\ call[c].tab = t =>
            call[c].cookie \notin exchanged'[t]
  <2>1. CASE call[c].kind = "refresh"
    <3> DEFINE e == exchanged[call[c].tab] \ {call[c].cookie}
    <3>1. exchanged' = [exchanged EXCEPT ![call[c].tab] = e]
      BY <1>1, <2>1 DEF LoseAnswer
    <3>2. call[c].tab \in Tab
      BY <1>1, <1>3 DEF CallInv, CallAt
    <3> QED BY <1>1, <3>1, <3>2
  <2>2. CASE call[c].kind # "refresh"
    BY <1>1, <2>2 DEF LoseAnswer
  <2> QED BY <2>1, <2>2
<1> QED BY <1>1, <1>2, <1>4, <1>5, <1>6, PlainAnswerKeepsInv

-----------------------------------------------------------------------------
(* An answer reaches its tab, or the tab moves on *)

LEMMA MovedFacts ==
    ASSUME NEW calls \in [Call -> CallRecord], NEW t
    PROVE  /\ Moved(calls, t) \in [Call -> CallRecord]
           /\ \A d \in Call :
                 /\ Fades(calls[d], Moved(calls, t)[d])
                 /\ calls[d].tab = t /\ calls[d].kind # "none" =>
                       ~Moved(calls, t)[d].generation
                 /\ calls[d].kind = "none" => Moved(calls, t)[d] = calls[d]
<1>1. \A d \in Call : /\ [calls[d] EXCEPT !.generation = FALSE] \in CallRecord
                      /\ Fades(calls[d], [calls[d] EXCEPT !.generation = FALSE])
                      /\ Fades(calls[d], calls[d])
                      /\ ~[calls[d] EXCEPT !.generation = FALSE].generation
  BY DEF CallRecord, Fades
<1> QED BY <1>1 DEF Moved

LEMMA DroppedFacts ==
    ASSUME NEW calls \in [Call -> CallRecord], NEW t
    PROVE  /\ Dropped(calls, t) \in [Call -> CallRecord]
           /\ \A d \in Call :
                 /\ Fades(calls[d], Dropped(calls, t)[d])
                 /\ calls[d].tab = t /\ calls[d].kind = "query" =>
                       ~Dropped(calls, t)[d].live
                 /\ calls[d].kind = "none" => Dropped(calls, t)[d] = calls[d]
<1>1. \A d \in Call : /\ [calls[d] EXCEPT !.live = FALSE] \in CallRecord
                      /\ Fades(calls[d], [calls[d] EXCEPT !.live = FALSE])
                      /\ Fades(calls[d], calls[d])
                      /\ ~[calls[d] EXCEPT !.live = FALSE].live
  BY DEF CallRecord, Fades
<1> QED BY <1>1 DEF Dropped

LEMMA DoneFacts ==
    ASSUME call \in [Call -> CallRecord], NEW c \in Call
    PROVE  /\ Done(c) \in [Call -> CallRecord] /\ Done(c)[c] = Free
           /\ \A d \in Call : d # c => Done(c)[d] = call[d]
BY FreeFacts DEF Done

\* Calls end or fade: the tokens and the calls stay as they should be.  The
\* cookie is kept, or is what one of the answers set.
LEMMA FadingKeepsTokens ==
    ASSUME SessionInv, NEW D \in SUBSET Call,
           call' \in [Call -> CallRecord],
           \A d \in D : call'[d] = Free /\ call[d].answer # "none",
           \A d \in Call \ D : Fades(call[d], call'[d]),
           \A d \in Call : call[d].kind = "none" => call'[d] = Free,
           \/ cookie' = cookie
           \/ \E d \in D : cookie' = call[d].set,
           \A d \in D : call[d].kind = "refresh" /\ call[d].answer = "ok" =>
              cookie' = call[d].set,
           pending' \in [Tab -> BOOLEAN],
           \A d \in Call \ D : call[d].kind = "refresh" => pending'[call[d].tab],
           UNCHANGED <<family, sent, exchanged, twice>>
    PROVE  CallInv' /\ BudgetInv' /\ IssuedInv' /\ FreshInv' /\ RefreshInv'
<1>1. /\ CallInv /\ BudgetInv /\ IssuedInv /\ FreshInv /\ RefreshInv
  BY DEF SessionInv
<1>2. \A d \in Call \ D :
         /\ call'[d].kind = call[d].kind /\ call'[d].tab = call[d].tab
         /\ call'[d].user = call[d].user /\ call'[d].cookie = call[d].cookie
         /\ call'[d].answer = call[d].answer /\ call'[d].set = call[d].set
  BY DEF Fades
<1>3. CallInv'
  BY <1>1, <1>2, FreeFacts DEF CallInv, CallAt
<1>4. BudgetInv'
  <2>1. Waiting' = Waiting
    BY <1>2, FreeFacts DEF Waiting, Unserved
  <2> QED BY <1>1, <2>1 DEF BudgetInv
<1>5. IssuedInv'
  BY <1>1, <1>2, FreeFacts DEF IssuedInv, Issued
<1>6. FreshInv'
  <2> SUFFICES ASSUME NEW c \in Call, call'[c].set # None
               PROVE  /\ call'[c].set # cookie'
                      /\ \A d \in Call : /\ call'[c].set # call'[d].cookie
                                         /\ d # c => call'[c].set # call'[d].set
                      /\ \A t \in Tab : call'[c].set \notin exchanged[t]
    BY DEF FreshInv
  <2>1. c \notin D /\ call'[c].set = call[c].set
    BY <1>2, FreeFacts
  <2>2. \A d \in Call : /\ call'[d].cookie \in {call[d].cookie, None}
                        /\ call'[d].set \in {call[d].set, None}
    BY <1>2, FreeFacts
  <2> QED BY <1>1, <2>1, <2>2 DEF FreshInv
<1>7. RefreshInv'
  <2>1. ASSUME NEW d \in Call, call'[d].kind = "refresh"
        PROVE  /\ pending'[call'[d].tab]
               /\ call'[d].answer = "none" =>
                     call'[d].cookie \notin exchanged[call'[d].tab]
               /\ \A e \in Call : call'[e].kind = "refresh" /\ call'[e].tab = call'[d].tab
                     => e = d
    <3>1. \A e \in Call : call'[e].kind = "refresh" =>
             e \notin D /\ call[e].kind = "refresh" /\ call[e].tab = call'[e].tab
      BY <1>2, FreeFacts
    <3>2. call'[d].answer = call[d].answer /\ call'[d].cookie = call[d].cookie
      BY <1>2, <2>1, <3>1
    <3> QED BY <1>1, <2>1, <3>1, <3>2 DEF RefreshInv
  <2>2. ASSUME NEW v \in Tab, cookie' \in exchanged[v]
        PROVE  \E d \in Call : /\ call'[d].kind = "refresh" /\ call'[d].tab = v
                               /\ call'[d].answer = "ok" /\ call'[d].cookie = cookie'
    <3>0. cookie' # None
      BY <1>1, <2>2 DEF IssuedInv
    <3>1. cookie' = cookie
      BY <1>1, <2>2, <3>0 DEF FreshInv
    <3>2. PICK d \in Call : /\ call[d].kind = "refresh" /\ call[d].tab = v
                            /\ call[d].answer = "ok" /\ call[d].cookie = cookie
      BY <1>1, <2>2, <3>1 DEF RefreshInv
    <3>3. d \notin D
      BY <1>1, <3>0, <3>1, <3>2 DEF FreshInv
    <3> QED BY <1>2, <3>1, <3>2, <3>3
  <2> QED BY <1>1, <2>1, <2>2 DEF RefreshInv
<1> QED BY <1>3, <1>4, <1>5, <1>6, <1>7

\* The session a tab has after authSession.clear or authSession.setSession.
LEMMA SessionFacts ==
    ASSUME session \in [Tab -> SessionRecord], NEW t \in Tab,
           NEW user \in User \cup {None},
           NEW reason \in {"signed-out", "expired", "switched"},
           session' = [session EXCEPT ![t] = [user |-> user, reason |-> reason]]
    PROVE  /\ session' \in [Tab -> SessionRecord]
           /\ session'[t].user = user /\ session'[t].reason = reason
           /\ \A v \in Tab : v # t => session'[v] = session[v]
<1> DEFINE x == [user |-> user, reason |-> reason]
<1>1. x \in SessionRecord /\ x.user = user /\ x.reason = reason
  BY DEF SessionRecord
<1>2. session' = [session EXCEPT ![t] = x]
  OBVIOUS
<1> HIDE DEF x
<1> QED BY <1>1, <1>2

\* What the tabs know after a step in which none is signed out anew.
LEMMA FadingKeepsTabs ==
    ASSUME SessionInv, NEW D \in SUBSET Call,
           \A d \in D : call'[d] = Free,
           \A d \in Call \ D : Fades(call[d], call'[d]),
           UNCHANGED quiet,
           \A t \in Tab :
              \/ session'[t] = session[t]
              \/ /\ session'[t].reason # "signed-out"
                 /\ session'[t].user = None \/ ~quiet[t],
           \A t \in Tab :
              session'[t].reason # "signed-out" \/ cache'[t] \subseteq cache[t]
    PROVE  QuietInv' /\ ForgottenInv'
<1>1. QuietInv /\ ForgottenInv
  BY DEF SessionInv
<1>2. \A d \in Call :
         /\ call'[d].kind # "none" =>
               call'[d].kind = call[d].kind /\ call'[d].tab = call[d].tab
         /\ call'[d].kind = "refresh" => (call'[d].generation => call[d].generation)
         /\ call'[d].kind = "query" => /\ call'[d].live => call[d].live
                                       /\ call'[d].user = call[d].user
  BY FreeFacts DEF Fades
<1>3. QuietInv'
  <2> SUFFICES ASSUME NEW t \in Tab, quiet[t]
               PROVE  /\ session'[t].user = None
                      /\ \A c \in Call : call'[c].tab = t =>
                            /\ call'[c].kind # "login"
                            /\ call'[c].kind = "refresh" => ~call'[c].generation
    BY DEF QuietInv
  <2>1. /\ session[t].user = None
        /\ \A c \in Call : call[c].tab = t =>
              /\ call[c].kind # "login"
              /\ call[c].kind = "refresh" => ~call[c].generation
    BY <1>1 DEF QuietInv
  <2> QED BY <1>2, <2>1
<1>4. ForgottenInv'
  <2> SUFFICES ASSUME NEW t \in Tab, session'[t].reason = "signed-out"
               PROVE  /\ session'[t].user = None /\ cache'[t] = {}
                      /\ \A c \in Call :
                            call'[c].tab = t /\ call'[c].kind = "query" /\ call'[c].live
                               => call'[c].user = None
    BY DEF ForgottenInv
  <2>1. session'[t] = session[t] /\ cache'[t] \subseteq cache[t]
    OBVIOUS
  <2>2. /\ session[t].user = None /\ cache[t] = {}
        /\ \A c \in Call :
              call[c].tab = t /\ call[c].kind = "query" /\ call[c].live
                 => call[c].user = None
    BY <1>1, <2>1 DEF ForgottenInv
  <2> QED BY <1>2, <2>1, <2>2
<1> QED BY <1>3, <1>4

\* The tokens and the calls when an answer has reached its tab.
LEMMA ReturnKeepsTokens ==
    ASSUME SessionInv, NEW c \in Call, call[c].kind # "none", call[c].answer # "none",
           call' \in [Call -> CallRecord], call'[c] = Free,
           \A d \in Call \ {c} : Fades(call[d], call'[d]),
           \A d \in Call : call[d].kind = "none" => call'[d] = Free,
           ApplyCookie(c),
           IF call[c].kind = "refresh"
           THEN pending' = [pending EXCEPT ![call[c].tab] = FALSE]
           ELSE UNCHANGED pending,
           UNCHANGED <<family, sent, faults, exchanged, twice>>
    PROVE  /\ CallInv' /\ BudgetInv' /\ IssuedInv' /\ FreshInv' /\ RefreshInv'
           /\ pending' \in [Tab -> BOOLEAN] /\ cookie' \in Token \cup {None}
<1>1. /\ CallInv /\ RefreshInv /\ call[c] \in CallRecord
      /\ pending \in [Tab -> BOOLEAN] /\ cookie \in Token \cup {None}
  BY TypeParts DEF SessionInv
<1>2. /\ cookie' = cookie \/ cookie' = call[c].set
      /\ call[c].kind = "refresh" /\ call[c].answer = "ok" => cookie' = call[c].set
  BY DEF ApplyCookie
<1>3. cookie' \in Token \cup {None}
  BY <1>1, <1>2 DEF CallRecord
<1>4. pending' \in [Tab -> BOOLEAN]
  BY <1>1
<1>5. \A d \in Call \ {c} : call[d].kind = "refresh" => pending'[call[d].tab]
  <2> SUFFICES ASSUME NEW d \in Call \ {c}, call[d].kind = "refresh"
               PROVE  pending'[call[d].tab]
    OBVIOUS
  <2>1. /\ pending[call[d].tab] /\ call[d].tab \in Tab
        /\ call[c].kind = "refresh" => call[c].tab # call[d].tab
    BY <1>1 DEF RefreshInv, CallInv, CallAt
  <2> QED BY <1>1, <2>1
<1> DEFINE D == {c}
<1>6. /\ D \in SUBSET Call
      /\ \A d \in D : call'[d] = Free /\ call[d].answer # "none"
      /\ \A d \in Call \ D : Fades(call[d], call'[d])
      /\ cookie' = cookie \/ \E d \in D : cookie' = call[d].set
      /\ \A d \in D : call[d].kind = "refresh" /\ call[d].answer = "ok" =>
            cookie' = call[d].set
      /\ \A d \in Call \ D : call[d].kind = "refresh" => pending'[call[d].tab]
  BY <1>2, <1>5
<1> HIDE DEF D
<1> QED BY <1>3, <1>4, <1>6, FadingKeepsTokens

\* The ways in which an answer leaves the other calls.
LEMMA ReturnCalls ==
    ASSUME call \in [Call -> CallRecord], CallInv, NEW c \in Call, NEW t,
           call' \in {Done(c), Moved(Done(c), t), Dropped(Moved(Done(c), t), t)}
    PROVE  /\ call' \in [Call -> CallRecord] /\ call'[c] = Free
           /\ \A d \in Call \ {c} : Fades(call[d], call'[d])
           /\ \A d \in Call : call[d].kind = "none" => call'[d] = Free
<1> DEFINE a == Done(c)
           m == Moved(a, t)
           n == Dropped(m, t)
<1>1. /\ a \in [Call -> CallRecord] /\ a[c] = Free
      /\ \A d \in Call : d # c => a[d] = call[d]
  BY DoneFacts
<1> HIDE DEF a
<1>2. /\ m \in [Call -> CallRecord]
      /\ \A d \in Call : /\ Fades(a[d], m[d])
                         /\ a[d].kind = "none" => m[d] = a[d]
  BY <1>1, MovedFacts
<1> HIDE DEF m
<1>3. /\ n \in [Call -> CallRecord]
      /\ \A d \in Call : /\ Fades(m[d], n[d])
                         /\ m[d].kind = "none" => n[d] = m[d]
  BY <1>2, DroppedFacts
<1> HIDE DEF n
<1>4. call' = a \/ call' = m \/ call' = n
  BY DEF a, m, n
<1>5. \A d \in Call : call[d].kind = "none" => a[d] = Free
  BY <1>1 DEF CallInv, CallAt
<1>6. CASE call' = a
  BY <1>1, <1>5, <1>6 DEF Fades
<1>7. CASE call' = m
  BY <1>1, <1>2, <1>5, <1>7, FreeFacts DEF Fades
<1>8. CASE call' = n
  BY <1>1, <1>2, <1>3, <1>5, <1>8, FreeFacts DEF Fades
<1> QED BY <1>4, <1>6, <1>7, <1>8

LEMMA ReturnKeepsInv ==
    ASSUME SessionInv, NEW c \in Call, Return(c)
    PROVE  SessionInv'
<1> DEFINE t == call[c].tab
<1>1. /\ CallInv /\ QuietInv /\ ForgottenInv
      /\ call \in [Call -> CallRecord] /\ call[c] \in CallRecord
      /\ session \in [Tab -> SessionRecord] /\ cache \in [Tab -> SUBSET User]
      /\ quiet \in [Tab -> BOOLEAN]
  BY TypeParts DEF SessionInv
<1>2. /\ ApplyCookie(c) /\ UNCHANGED <<family, sent, faults, exchanged, twice>>
      /\ call[c].answer # "none"
      /\ call[c].kind \in {"login", "refresh", "query", "logout", "logout-all"}
  BY DEF Return, LoginReturns, RefreshReturns, QueryReturns, SignOutReturns
<1>3. t \in Tab /\ call[c].user \in User \cup {None}
  BY <1>1, <1>2 DEF CallInv, CallAt, CallRecord
\* It is enough to look at the session, the cache and the other calls.
<1>4. ASSUME call' \in {Done(c), Moved(Done(c), t), Dropped(Moved(Done(c), t), t)},
             IF call[c].kind = "refresh" THEN pending' = [pending EXCEPT ![t] = FALSE]
             ELSE UNCHANGED pending,
             session' \in [Tab -> SessionRecord], cache' \in [Tab -> SUBSET User],
             quiet' \in [Tab -> BOOLEAN], QuietInv', ForgottenInv'
      PROVE  SessionInv'
  <2>1. /\ call' \in [Call -> CallRecord] /\ call'[c] = Free
        /\ \A d \in Call \ {c} : Fades(call[d], call'[d])
        /\ \A d \in Call : call[d].kind = "none" => call'[d] = Free
    BY <1>1, <1>4, ReturnCalls
  <2>2. /\ CallInv' /\ BudgetInv' /\ IssuedInv' /\ FreshInv' /\ RefreshInv'
        /\ pending' \in [Tab -> BOOLEAN] /\ cookie' \in Token \cup {None}
    BY <1>2, <1>4, <2>1, ReturnKeepsTokens
  <2>3. TypeOK'
    BY <1>2, <1>4, <2>1, <2>2, TypeParts
       DEF SessionInv, TypeOK, SessionRecord, CallRecord, Kind, FamilyRecord
  <2> QED BY <1>4, <2>2, <2>3 DEF SessionInv
\* No tab is signed out anew.
<1>5. ASSUME call' = Done(c) \/ call' = Moved(Done(c), t),
             IF call[c].kind = "refresh" THEN pending' = [pending EXCEPT ![t] = FALSE]
             ELSE UNCHANGED pending,
             UNCHANGED quiet,
             \/ UNCHANGED session
             \/ \E user \in User \cup {None}, reason \in {"expired", "switched"} :
                   /\ session' = [session EXCEPT ![t] = [user |-> user, reason |-> reason]]
                   /\ user = None \/ ~quiet[t],
             cache' \in [Tab -> SUBSET User],
             \A v \in Tab : cache'[v] = cache[v] \/ session'[v].reason # "signed-out"
      PROVE  SessionInv'
  <2>1. /\ session' \in [Tab -> SessionRecord]
        /\ \A v \in Tab :
              \/ session'[v] = session[v]
              \/ /\ session'[v].reason # "signed-out"
                 /\ session'[v].user = None \/ ~quiet[v]
    <3>1. CASE UNCHANGED session
      BY <1>1, <3>1
    <3>2. ASSUME NEW user \in User \cup {None}, NEW reason \in {"expired", "switched"},
                 session' = [session EXCEPT ![t] = [user |-> user, reason |-> reason]],
                 user = None \/ ~quiet[t]
          PROVE  /\ session' \in [Tab -> SessionRecord]
                 /\ \A v \in Tab :
                       \/ session'[v] = session[v]
                       \/ /\ session'[v].reason # "signed-out"
                          /\ session'[v].user = None \/ ~quiet[v]
      <4>1. /\ session' \in [Tab -> SessionRecord]
            /\ session'[t].user = user /\ session'[t].reason = reason
            /\ \A v \in Tab : v # t => session'[v] = session[v]
        BY <1>1, <1>3, <3>2, SessionFacts
      <4> QED BY <3>2, <4>1
    <3> QED BY <1>5, <3>1, <3>2
  <2>2. /\ call'[c] = Free
        /\ \A d \in Call \ {c} : Fades(call[d], call'[d])
    <3>1. call' \in {Done(c), Moved(Done(c), t), Dropped(Moved(Done(c), t), t)}
      BY <1>5
    <3> HIDE DEF t
    <3> QED BY <1>1, <3>1, ReturnCalls
  <2> DEFINE D == {c}
  <2>3. /\ D \in SUBSET Call /\ \A d \in D : call'[d] = Free
        /\ \A d \in Call \ D : Fades(call[d], call'[d])
        /\ \A v \in Tab :
              session'[v].reason # "signed-out" \/ cache'[v] \subseteq cache[v]
    BY <1>5, <2>2
  <2> HIDE DEF D
  <2>4. QuietInv' /\ ForgottenInv'
    BY <1>5, <2>1, <2>3, FadingKeepsTabs
  <2> QED BY <1>1, <1>4, <1>5, <2>1, <2>4
<1>6. ASSUME Rejected(c), UNCHANGED quiet,
             IF call[c].kind = "refresh" THEN pending' = [pending EXCEPT ![t] = FALSE]
             ELSE UNCHANGED pending
      PROVE  SessionInv'
  <2>1. call' = Done(c) \/ call' = Moved(Done(c), t)
    BY <1>6 DEF Rejected
  <2>2. \/ UNCHANGED session
        \/ \E user \in User \cup {None}, reason \in {"expired", "switched"} :
              /\ session' = [session EXCEPT ![t] = [user |-> user, reason |-> reason]]
              /\ user = None \/ ~quiet[t]
    BY <1>6 DEF Rejected, Clear
  <2>3. UNCHANGED cache
    BY <1>6 DEF Rejected
  <2> QED BY <1>1, <1>5, <1>6, <2>1, <2>2, <2>3
<1>7. CASE LoginReturns(c)
  <2>1. /\ call[c].kind = "login" /\ UNCHANGED <<pending, quiet>>
        /\ \/ /\ SetSession(t, call[c].user)
              /\ call' = Moved(Done(c), t)
              /\ UNCHANGED cache
           \/ Rejected(c)
    BY <1>7 DEF LoginReturns
  <2>2. ~quiet[t]
    BY <1>1, <1>3, <2>1 DEF QuietInv
  <2>3. CASE Rejected(c)
    BY <1>6, <2>1, <2>3
  <2>4. CASE /\ SetSession(t, call[c].user)
             /\ call' = Moved(Done(c), t)
             /\ UNCHANGED cache
    <3>1. \E user \in User \cup {None}, reason \in {"expired", "switched"} :
              /\ session' = [session EXCEPT ![t] = [user |-> user, reason |-> reason]]
              /\ user = None \/ ~quiet[t]
      BY <1>3, <2>2, <2>4 DEF SetSession
    <3> QED BY <1>1, <1>5, <2>1, <2>4, <3>1
  <2> QED BY <2>1, <2>3, <2>4
<1>8. CASE RefreshReturns(c)
  <2>1. /\ call[c].kind = "refresh" /\ UNCHANGED quiet
        /\ pending' = [pending EXCEPT ![t] = FALSE]
        /\ \/ /\ call[c].generation
              /\ SetSession(t, call[c].user)
              /\ call' = Moved(Done(c), t)
              /\ UNCHANGED cache
           \/ call' = Done(c) /\ UNCHANGED <<session, cache>>
           \/ Rejected(c)
    BY <1>8 DEF RefreshReturns, SameGeneration
  <2>2. CASE Rejected(c)
    BY <1>6, <2>1, <2>2
  <2>3. CASE call' = Done(c) /\ UNCHANGED <<session, cache>>
    BY <1>1, <1>5, <2>1, <2>3
  <2>4. CASE /\ call[c].generation
             /\ SetSession(t, call[c].user)
             /\ call' = Moved(Done(c), t)
             /\ UNCHANGED cache
    <3>1. ~quiet[t]
      BY <1>1, <1>3, <2>1, <2>4 DEF QuietInv
    <3>2. \E user \in User \cup {None}, reason \in {"expired", "switched"} :
              /\ session' = [session EXCEPT ![t] = [user |-> user, reason |-> reason]]
              /\ user = None \/ ~quiet[t]
      BY <1>3, <2>4, <3>1 DEF SetSession
    <3> QED BY <1>1, <1>5, <2>1, <2>4, <3>2
  <2> QED BY <2>1, <2>2, <2>3, <2>4
<1>9. CASE QueryReturns(c)
  <2> DEFINE a == IF call[c].live THEN cache[t] \cup {call[c].user} ELSE cache[t]
  <2>1. /\ call[c].kind = "query" /\ UNCHANGED <<pending, quiet>>
        /\ \/ /\ call[c].answer = "ok" /\ cache' = [cache EXCEPT ![t] = a]
              /\ call' = Done(c) /\ UNCHANGED session
           \/ Rejected(c)
    BY <1>9 DEF QueryReturns
  <2>2. CASE Rejected(c)
    BY <1>6, <2>1, <2>2
  <2>3. CASE /\ call[c].answer = "ok" /\ cache' = [cache EXCEPT ![t] = a]
             /\ call' = Done(c) /\ UNCHANGED session
    <3>1. call[c].user \in User
      BY <1>1, <1>3, <2>1, <2>3 DEF CallInv, CallAt
    <3>2. a \in SUBSET User
      BY <1>1, <1>3, <3>1
    <3>3. call[c].live => session[t].reason # "signed-out"
      BY <1>1, <1>3, <2>1, <3>1, UserAssumption DEF ForgottenInv
    <3>4. ~call[c].live => a = cache[t]
      OBVIOUS
    <3> HIDE DEF a
    <3>5. /\ cache' \in [Tab -> SUBSET User] /\ cache'[t] = a
          /\ \A v \in Tab : v # t => cache'[v] = cache[v]
      BY <1>1, <1>3, <2>3, <3>2
    <3> QED BY <1>5, <2>1, <2>3, <3>3, <3>4, <3>5
  <2> QED BY <2>1, <2>2, <2>3
<1>10. CASE SignOutReturns(c)
  <2> DEFINE o == Done(c)
             m == Moved(o, t)
             n == Dropped(m, t)
  <2>1. /\ call[c].kind \in {"logout", "logout-all"}
        /\ session' = [session EXCEPT ![t] = [user |-> None, reason |-> "signed-out"]]
        /\ call' = n
        /\ cache' = [cache EXCEPT ![t] = {}]
        /\ quiet' = [quiet EXCEPT ![t] = ~LoginInFlight(t)]
        /\ UNCHANGED pending
    BY <1>10 DEF SignOutReturns, Clear, Forget
  <2>2. /\ session' \in [Tab -> SessionRecord]
        /\ session'[t].user = None /\ session'[t].reason = "signed-out"
        /\ \A v \in Tab : v # t => session'[v] = session[v]
    BY <1>1, <1>3, <2>1, SessionFacts
  <2>3. /\ cache' \in [Tab -> SUBSET User] /\ cache'[t] = {}
        /\ \A v \in Tab : v # t => cache'[v] = cache[v]
    BY <1>1, <1>3, <2>1
  <2>4. /\ quiet' \in [Tab -> BOOLEAN] /\ quiet'[t] = ~LoginInFlight(t)
        /\ \A v \in Tab : v # t => quiet'[v] = quiet[v]
    BY <1>1, <1>3, <2>1 DEF LoginInFlight
  <2>5. /\ o \in [Call -> CallRecord] /\ o[c] = Free
        /\ \A d \in Call : d # c => o[d] = call[d]
    BY <1>1, DoneFacts
  <2> HIDE DEF o
  <2>6. /\ m \in [Call -> CallRecord]
        /\ \A d \in Call : /\ Fades(o[d], m[d])
                           /\ o[d].tab = t /\ o[d].kind # "none" => ~m[d].generation
    BY <2>5, MovedFacts
  <2> HIDE DEF m
  <2>7. \A d \in Call : /\ Fades(m[d], n[d])
                        /\ m[d].tab = t /\ m[d].kind = "query" => ~n[d].live
    BY <2>6, DroppedFacts
  <2> HIDE DEF n
  <2>8. ASSUME NEW d \in Call, call'[d].kind # "none"
        PROVE  /\ call'[d].kind = call[d].kind /\ call'[d].tab = call[d].tab
               /\ call'[d].user = call[d].user
               /\ call'[d].generation => call[d].generation
               /\ call'[d].live => call[d].live
               /\ call'[d].tab = t => ~call'[d].generation
               /\ call'[d].tab = t /\ call'[d].kind = "query" => ~call'[d].live
    BY <2>1, <2>5, <2>6, <2>7, <2>8, FreeFacts DEF Fades
  <2>9. QuietInv'
    <3> SUFFICES ASSUME NEW v \in Tab, quiet'[v]
                 PROVE  /\ session'[v].user = None
                        /\ \A d \in Call : call'[d].tab = v =>
                              /\ call'[d].kind # "login"
                              /\ call'[d].kind = "refresh" => ~call'[d].generation
      BY DEF QuietInv
    <3>1. CASE v = t
      BY <2>2, <2>4, <2>8, <3>1 DEF LoginInFlight
    <3>2. CASE v # t
      BY <1>1, <2>2, <2>4, <2>8, <3>2 DEF QuietInv
    <3> QED BY <3>1, <3>2
  <2>10. ForgottenInv'
    <3> SUFFICES ASSUME NEW v \in Tab, session'[v].reason = "signed-out"
                 PROVE  /\ session'[v].user = None /\ cache'[v] = {}
                        /\ \A d \in Call :
                              call'[d].tab = v /\ call'[d].kind = "query" /\ call'[d].live
                                 => call'[d].user = None
      BY DEF ForgottenInv
    <3>1. CASE v = t
      BY <2>2, <2>3, <2>8, <3>1
    <3>2. CASE v # t
      BY <1>1, <2>2, <2>3, <2>8, <3>2 DEF ForgottenInv
    <3> QED BY <3>1, <3>2
  <2>11. call' \in {Done(c), Moved(Done(c), t), Dropped(Moved(Done(c), t), t)}
    BY <2>1 DEF n, m, o
  <2> QED BY <1>4, <2>1, <2>2, <2>3, <2>4, <2>9, <2>10, <2>11
<1> QED BY <1>7, <1>8, <1>9, <1>10 DEF Return

\* A tab moves on without an answer: its calls fade.
LEMMA TabKeepsInv ==
    ASSUME SessionInv, NEW t \in Tab,
           \/ \E area \in {"staff", "member"} : Navigate(t, area)
           \/ Refuse(t) \/ Reload(t)
    PROVE  SessionInv'
<1>1. /\ CallInv /\ QuietInv /\ ForgottenInv /\ RefreshInv
      /\ call \in [Call -> CallRecord]
      /\ session \in [Tab -> SessionRecord] /\ cache \in [Tab -> SUBSET User]
      /\ pending \in [Tab -> BOOLEAN] /\ quiet \in [Tab -> BOOLEAN]
      /\ faults \in 0 .. MaxFaults
  BY TypeParts DEF SessionInv
<1>2. ASSUME call' \in [Call -> CallRecord],
             \A d \in Call : Fades(call[d], call'[d]),
             \A d \in Call : call[d].kind = "none" => call'[d] = Free,
             UNCHANGED <<cookie, family, sent, exchanged, twice>>,
             pending' \in [Tab -> BOOLEAN],
             \A d \in Call : call[d].kind = "refresh" => pending'[call[d].tab],
             session' \in [Tab -> SessionRecord], cache' \in [Tab -> SUBSET User],
             quiet' \in [Tab -> BOOLEAN], faults' \in 0 .. MaxFaults,
             QuietInv', ForgottenInv'
      PROVE  SessionInv'
  <2> DEFINE D == {d \in Call : FALSE}
  <2>1. D \in SUBSET Call /\ \A d \in Call : d \notin D
    OBVIOUS
  <2> HIDE DEF D
  <2>2. CallInv' /\ BudgetInv' /\ IssuedInv' /\ FreshInv' /\ RefreshInv'
    BY <1>2, <2>1, FadingKeepsTokens
  <2>3. TypeOK'
    BY <1>2, TypeParts
       DEF SessionInv, TypeOK, SessionRecord, CallRecord, Kind, FamilyRecord
  <2> QED BY <1>2, <2>2, <2>3 DEF SessionInv
<1>3. \A d \in Call : call[d].kind = "refresh" => pending[call[d].tab]
  BY <1>1 DEF RefreshInv
<1>4. \A d \in Call : call[d].kind = "none" => call[d] = Free
  BY <1>1 DEF CallInv, CallAt
\* The tab keeps its session, or loses it to another area.
<1>5. ASSUME call' \in [Call -> CallRecord],
             \A d \in Call : Fades(call[d], call'[d]),
             \A d \in Call : call[d].kind = "none" => call'[d] = Free,
             UNCHANGED <<cookie, family, sent, exchanged, twice, pending, quiet, faults>>,
             cache' = [cache EXCEPT ![t] = {}],
             \/ UNCHANGED session
             \/ session' = [session EXCEPT ![t] = [user |-> None, reason |-> "switched"]]
      PROVE  SessionInv'
  <2>1. /\ session' \in [Tab -> SessionRecord]
        /\ \A v \in Tab :
              \/ session'[v] = session[v]
              \/ session'[v].reason # "signed-out" /\ session'[v].user = None
    <3>1. CASE UNCHANGED session
      BY <1>1, <3>1
    <3>2. CASE session' = [session EXCEPT ![t] = [user |-> None, reason |-> "switched"]]
      BY <1>1, <3>2, SessionFacts
    <3> QED BY <1>5, <3>1, <3>2
  <2>2. /\ cache' \in [Tab -> SUBSET User]
        /\ \A v \in Tab : cache'[v] \subseteq cache[v]
    BY <1>1, <1>5
  <2> DEFINE D == {d \in Call : FALSE}
  <2>3. D \in SUBSET Call /\ \A d \in Call : d \notin D
    OBVIOUS
  <2> HIDE DEF D
  <2>4. QuietInv' /\ ForgottenInv'
    BY <1>5, <2>1, <2>2, <2>3, FadingKeepsTabs
  <2> QED BY <1>1, <1>2, <1>3, <1>5, <2>1, <2>2, <2>4
<1>6. ASSUME NEW area \in {"staff", "member"}, Navigate(t, area) PROVE SessionInv'
  <2> DEFINE m == Moved(call, t)
             n == Dropped(m, t)
  <2>1. /\ m \in [Call -> CallRecord]
        /\ \A d \in Call : /\ Fades(call[d], m[d])
                           /\ call[d].kind = "none" => m[d] = call[d]
    BY <1>1, MovedFacts
  <2>2. call' = n
    BY <1>6 DEF Navigate
  <2> HIDE DEF m
  <2>3. /\ n \in [Call -> CallRecord]
        /\ \A d \in Call : /\ Fades(m[d], n[d])
                           /\ m[d].kind = "none" => n[d] = m[d]
    BY <2>1, DroppedFacts
  <2> HIDE DEF n
  <2>4. /\ call' \in [Call -> CallRecord]
        /\ \A d \in Call : Fades(call[d], call'[d])
        /\ \A d \in Call : call[d].kind = "none" => call'[d] = Free
    BY <1>4, <2>1, <2>2, <2>3 DEF Fades
  <2>5. /\ cache' = [cache EXCEPT ![t] = {}]
        /\ session' = [session EXCEPT ![t] = [user |-> None, reason |-> "switched"]]
        /\ UNCHANGED <<cookie, family, sent, exchanged, twice, pending, quiet, faults>>
    BY <1>6 DEF Navigate, Clear
  <2> QED BY <1>5, <2>4, <2>5
<1>7. CASE Refuse(t)
  <2> DEFINE n == Dropped(call, t)
  <2>1. /\ n \in [Call -> CallRecord]
        /\ \A d \in Call : /\ Fades(call[d], n[d])
                           /\ call[d].kind = "none" => n[d] = call[d]
    BY <1>1, DroppedFacts
  <2>2. call' = n
    BY <1>7 DEF Refuse
  <2> HIDE DEF n
  <2>3. /\ cache' = [cache EXCEPT ![t] = {}] /\ UNCHANGED session
        /\ UNCHANGED <<cookie, family, sent, exchanged, twice, pending, quiet, faults>>
    BY <1>7 DEF Refuse
  <2> QED BY <1>4, <1>5, <2>1, <2>2, <2>3
<1>8. CASE Reload(t)
  <2>1. /\ session' = [session EXCEPT ![t] = SignedOut]
        /\ cache' = [cache EXCEPT ![t] = {}]
        /\ pending' = [pending EXCEPT ![t] = FALSE]
        /\ \A c \in Call : call[c].tab # t
        /\ quiet' = [quiet EXCEPT ![t] = FALSE]
        /\ faults' = faults + 1 /\ faults < MaxFaults
        /\ UNCHANGED <<call, cookie, family, sent, exchanged, twice>>
    BY <1>8 DEF Reload
  <2>2. /\ session' \in [Tab -> SessionRecord]
        /\ session'[t].user = None
        /\ \A v \in Tab : v # t => session'[v] = session[v]
    BY <1>1, <2>1, SessionFacts DEF SignedOut
  <2>3. /\ cache' \in [Tab -> SUBSET User] /\ cache'[t] = {}
        /\ pending' \in [Tab -> BOOLEAN] /\ quiet' \in [Tab -> BOOLEAN] /\ ~quiet'[t]
        /\ \A v \in Tab : v # t => /\ cache'[v] = cache[v] /\ pending'[v] = pending[v]
                                   /\ quiet'[v] = quiet[v]
    BY <1>1, <2>1
  <2>4. faults' \in 0 .. MaxFaults
    BY <1>1, <2>1, BoundsAssumption
  <2>5. QuietInv' /\ ForgottenInv'
    BY <1>1, <2>1, <2>2, <2>3 DEF QuietInv, ForgottenInv
  <2>6. \A d \in Call : call[d].kind = "refresh" => pending'[call[d].tab]
    BY <1>1, <1>3, <2>1, <2>3 DEF CallInv, CallAt
  <2>7. \A d \in Call : Fades(call[d], call'[d])
    BY <2>1 DEF Fades
  <2> QED BY <1>1, <1>2, <1>4, <2>1, <2>2, <2>3, <2>4, <2>5, <2>6, <2>7
<1> QED BY <1>6, <1>7, <1>8

-----------------------------------------------------------------------------
(* The theorems *)

LEMMA NextKeepsInv ==
    ASSUME SessionInv, [Next]_vars
    PROVE  SessionInv'
<1>1. ASSUME NEW c \in Call, NEW t \in Tab,
             \/ \E u \in User : SendLogin(c, t, u)
             \/ SendRefresh(c, t)
             \/ SendQuery(c, t)
             \/ \E kind \in {"logout", "logout-all"} : SendSignOut(c, t, kind)
      PROVE  SessionInv'
  BY <1>1, SendsKeepInv
<1>2. ASSUME NEW c \in Call, Serve(c) \/ FailCall(c) \/ LoseAnswer(c) \/ Return(c)
      PROVE  SessionInv'
  BY <1>2, ServeKeepsInv, FailCallKeepsInv, LoseAnswerKeepsInv, ReturnKeepsInv
<1>3. ASSUME NEW t \in Tab,
             \/ \E area \in {"staff", "member"} : Navigate(t, area)
             \/ Refuse(t) \/ Reload(t)
      PROVE  SessionInv'
  BY <1>3, TabKeepsInv
<1>4. CASE UNCHANGED vars
  BY <1>4 DEF vars, SessionInv, TypeOK, CallInv, BudgetInv, Waiting, Unserved, IssuedInv,
              Issued, FreshInv, RefreshInv, QuietInv, ForgottenInv
<1> QED BY <1>1, <1>2, <1>3, <1>4 DEF Next

LEMMA SessionInvariant == Spec => []SessionInv
BY InitSessionInv, NextKeepsInv, PTL DEF Spec

\* The stores of session.ts and query-client.ts hold what their types say, and the
\* numbers of the families stay within the calls that were sent.
THEOREM TypeCorrect == Spec => []TypeOK
<1>1. SessionInv => TypeOK
  BY DEF SessionInv
<1> QED BY <1>1, SessionInvariant, PTL

\* The finally blocks of sign-out.ts drop the cache before the page can ask again,
\* and a query that was under way finds itself cancelled: for any number of tabs,
\* users and calls in flight.
THEOREM SignOutForgets == Spec => []SignedOutMeansForgotten
<1>1. SessionInv => SignedOutMeansForgotten
  BY DEF SessionInv, ForgottenInv, SignedOutMeansForgotten
<1> QED BY <1>1, SessionInvariant, PTL

\* refreshSession compares the generation of the store: an answer to what was asked
\* before a sign-out brings no session back.
THEOREM SignOutLasts == Spec => []StaysSignedOut
<1>1. SessionInv => StaysSignedOut
  BY DEF SessionInv, QuietInv, StaysSignedOut
<1> QED BY <1>1, SessionInvariant, PTL

\* pendingRefresh: callers share one refresh, so a tab never offers a token whose
\* successor is on its way, and what the cookie held before is gone when the answer
\* has come.
THEOREM TokensOfferedOnce == Spec => []OfferedOnce
<1>1. SessionInv => OfferedOnce
  BY DEF SessionInv, RefreshInv, OfferedOnce
<1> QED BY <1>1, SessionInvariant, PTL

============================================================================
