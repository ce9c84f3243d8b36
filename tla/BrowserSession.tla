--------------------------- MODULE BrowserSession ---------------------------
(***************************************************************************)
(* The session as the browser keeps it: the in-memory store                *)
(* (src/frontend/src/lib/auth/session.ts), the calls that read and change  *)
(* it (lib/api/client.ts, lib/api/auth.ts, lib/auth/sign-out.ts,           *)
(* lib/auth/route-guards.ts), the query cache (app/query-client.ts), and   *)
(* the refresh cookie that the handlers of src/src/auth/auth.controller.ts *)
(* set and clear.                                                          *)
(*                                                                         *)
(* A call is sent with the cookie and the access token of that moment, is  *)
(* served later and answered later still, in any order among the calls in  *)
(* flight; it may get no answer.  Tabs share the cookie and nothing else.  *)
(* The server side of a family is TokenSession; here it is a status and    *)
(* the number of its current token.                                        *)
(***************************************************************************)
EXTENDS Naturals, FiniteSets

CONSTANTS
    Tab,
    Staff, Member,      \* accounts by role area
    Call,               \* slots for calls in flight
    None,
    MaxCalls,           \* bound: calls sent
    MaxFaults           \* bound: calls or answers lost, and server errors

User == Staff \cup Member

ASSUME UserAssumption == Staff \cap Member = {} /\ None \notin User

ASSUME CallAssumption == IsFiniteSet(Call)

ASSUME BoundsAssumption == MaxCalls \in Nat /\ MaxFaults \in Nat

VARIABLES
    session,    \* createAuthSessionStore, one in each tab
    cache,      \* queryClient: whose data a tab holds
    pending,    \* pendingRefresh of a tab
    call,       \* calls in flight
    cookie,     \* the refresh cookie of the browser
    family,     \* refresh-token families on the server
    sent, faults,
    quiet,      \* history: signed out, and nothing asked for since
    exchanged,  \* history: tokens a tab has had exchanged, no answer lost
    twice       \* history: tabs that offered such a token again

vars == <<session, cache, pending, call, cookie, family, sent, faults,
          quiet, exchanged, twice>>

\* There are no more families than calls, nor tokens in a family.
FamilyId == 1 .. MaxCalls
Token == [family : FamilyId, number : 1 .. MaxCalls + 1]

ASSUME TokenAssumption == None \notin Token

RoleArea(u) == IF u \in Staff THEN "staff" ELSE "member"

SignedOut == [user |-> None, reason |-> "signed-out"]

NoFamily == [user |-> None, current |-> 0, active |-> FALSE]

\* generation says that getGeneration() is what it was when the call was
\* sent; live that the query the call serves is still in the cache.
Free == [ kind |-> "none", tab |-> None, user |-> None, cookie |-> None,
          generation |-> TRUE, live |-> TRUE,
          answer |-> "none", set |-> None ]

Init ==
    /\ session = [t \in Tab |-> SignedOut]
    /\ cache = [t \in Tab |-> {}]
    /\ pending = [t \in Tab |-> FALSE]
    /\ call = [c \in Call |-> Free]
    /\ cookie = None
    /\ family = [f \in FamilyId |-> NoFamily]
    /\ sent = 0
    /\ faults = 0
    /\ quiet = [t \in Tab |-> FALSE]
    /\ exchanged = [t \in Tab |-> {}]
    /\ twice = {}

-----------------------------------------------------------------------------
(* Sending.                                                                *)

Send(c, kind, t, user) ==
    /\ sent < MaxCalls
    /\ call[c].kind = "none"
    /\ call' = [call EXCEPT ![c] = [Free EXCEPT !.kind = kind, !.tab = t,
                                                !.user = user,
                                                !.cookie = cookie]]
    /\ sent' = sent + 1
    /\ UNCHANGED <<session, cookie, family, faults>>

\* handleSubmit of SharedLogin: submissionPending lets one login through.
SendLogin(c, t, u) ==
    /\ \A d \in Call : ~(call[d].kind = "login" /\ call[d].tab = t)
    /\ Send(c, "login", t, u)
    /\ quiet' = [quiet EXCEPT ![t] = FALSE]
    /\ UNCHANGED <<cache, pending, exchanged, twice>>

\* Mutant: every caller of refreshSession sends a request of its own.
RefreshFree(t) == TRUE

\* refreshSession: callers share the request that is pending.
MayRefresh(t) == ~pending[t]

SendRefresh(c, t) ==
    /\ MayRefresh(t)
    /\ Send(c, "refresh", t, None)
    /\ pending' = [pending EXCEPT ![t] = TRUE]
    /\ quiet' = [quiet EXCEPT ![t] = FALSE]
    /\ UNCHANGED <<cache, exchanged, twice>>

\* A query of a page, with the access token if there is one.
SendQuery(c, t) ==
    /\ Send(c, "query", t, session[t].user)
    /\ UNCHANGED <<cache, pending, quiet, exchanged, twice>>

\* signOut and signOutAll await the answer first.
SendSignOut(c, t, kind) ==
    /\ Send(c, kind, t, session[t].user)
    /\ UNCHANGED <<cache, pending, quiet, exchanged, twice>>

-----------------------------------------------------------------------------
(* The server.                                                             *)

Answered(c, answer, set) ==
    call' = [call EXCEPT ![c] = [@ EXCEPT !.answer = answer, !.set = set]]

Unserved(c, kind) == call[c].kind = kind /\ call[c].answer = "none"

\* login: a family of its own and the cookie for it; or wrong credentials.
ServeLogin(c) ==
    /\ Unserved(c, "login")
    /\ \/ \E f \in FamilyId :
            /\ family[f] = NoFamily
            /\ \A g \in 1 .. f - 1 : family[g] # NoFamily
            /\ family' = [family EXCEPT ![f] = [ user |-> call[c].user,
                                                 current |-> 1,
                                                 active |-> TRUE ]]
            /\ Answered(c, "ok", [family |-> f, number |-> 1])
       \/ Answered(c, "401", None) /\ UNCHANGED family

\* refresh: the current token is exchanged, a spent one revokes the family.
ServeRefresh(c) ==
    /\ Unserved(c, "refresh")
    /\ IF call[c].cookie = None
       THEN Answered(c, "401", None) /\ UNCHANGED <<family, exchanged, twice>>
       ELSE LET f == call[c].cookie.family
                n == call[c].cookie.number
                t == call[c].tab
            IN  IF family[f].active /\ family[f].current = n
                THEN /\ family' = [family EXCEPT ![f].current = n + 1]
                     /\ call' = [call EXCEPT ![c] =
                          [@ EXCEPT !.answer = "ok", !.user = family[f].user,
                                    !.set = [family |-> f, number |-> n + 1]]]
                     /\ exchanged' = [exchanged EXCEPT ![t] =
                                        @ \cup {call[c].cookie}]
                     /\ UNCHANGED twice
                ELSE /\ family' = [family EXCEPT ![f].active = FALSE]
                     /\ Answered(c, "401", None)
                     /\ twice' = IF call[c].cookie \in exchanged[t]
                                 THEN twice \cup {t} ELSE twice
                     /\ UNCHANGED exchanged

\* logout: the family whose current token is presented; the cookie is cleared.
ServeLogout(c) ==
    /\ Unserved(c, "logout")
    /\ family' = IF call[c].cookie = None THEN family
                 ELSE [family EXCEPT ![call[c].cookie.family].active =
                         @ /\ family[call[c].cookie.family].current
                                # call[c].cookie.number]
    /\ Answered(c, "ok", None)

\* logout-all: every family of the bearer; JwtAuthGuard may refuse the token.
ServeLogoutAll(c) ==
    /\ Unserved(c, "logout-all")
    /\ \/ /\ call[c].user # None
          /\ family' = [f \in FamilyId |->
                          IF family[f].user = call[c].user
                          THEN [family[f] EXCEPT !.active = FALSE]
                          ELSE family[f]]
          /\ Answered(c, "ok", None)
       \/ Answered(c, "401", None) /\ UNCHANGED family

\* A protected route: the access token may have run out.
ServeQuery(c) ==
    /\ Unserved(c, "query")
    /\ \/ call[c].user # None /\ Answered(c, "ok", None)
       \/ Answered(c, "401", None)
    /\ UNCHANGED family

\* The request never arrives, AuthBrowserOriginGuard or the throttle refuses it,
\* or the handler fails before it wrote anything.
FailCall(c) ==
    /\ faults < MaxFaults
    /\ call[c].kind # "none" /\ call[c].answer = "none"
    /\ Answered(c, "error", None)
    /\ faults' = faults + 1
    /\ UNCHANGED <<session, cache, pending, cookie, family, sent, quiet,
                   exchanged, twice>>

\* The answer never arrives.  After it the tab cannot know which token is
\* current.
LoseAnswer(c) ==
    /\ faults < MaxFaults
    /\ call[c].answer \notin {"none", "error"}
    /\ Answered(c, "error", None)
    /\ faults' = faults + 1
    /\ exchanged' = IF call[c].kind = "refresh"
                    THEN [exchanged EXCEPT ![call[c].tab] =
                            @ \ {call[c].cookie}]
                    ELSE exchanged
    /\ UNCHANGED <<session, cache, pending, cookie, family, sent, quiet,
                   twice>>

Serve(c) ==
    /\ \/ ServeRefresh(c)
       \/ /\ \/ ServeLogin(c) \/ ServeLogout(c)
             \/ ServeLogoutAll(c) \/ ServeQuery(c)
          /\ UNCHANGED <<exchanged, twice>>
    /\ UNCHANGED <<session, cache, pending, cookie, sent, faults, quiet>>

-----------------------------------------------------------------------------
(* The answer reaches the tab.                                             *)

\* The generation of tab t moves on, and queries of t are dropped.
Moved(calls, t) ==
    [d \in Call |-> IF calls[d].tab = t /\ calls[d].kind # "none"
                    THEN [calls[d] EXCEPT !.generation = FALSE]
                    ELSE calls[d]]

Dropped(calls, t) ==
    [d \in Call |-> IF calls[d].tab = t /\ calls[d].kind = "query"
                    THEN [calls[d] EXCEPT !.live = FALSE]
                    ELSE calls[d]]

Done(c) == [call EXCEPT ![c] = Free]

\* authSession.clear and authSession.setSession
Clear(t, reason) ==
    session' = [session EXCEPT ![t] = [user |-> None, reason |-> reason]]
SetSession(t, u) ==
    session' = [session EXCEPT ![t] = [user |-> u, reason |-> "switched"]]

\* Set-Cookie is applied before any code of the page runs.
ApplyCookie(c) ==
    cookie' = IF call[c].answer # "ok" \/ call[c].kind = "query"
              THEN cookie ELSE call[c].set

\* apiRequest: any 401 clears the session, whichever session sent the call.
Rejected(c) ==
    /\ IF call[c].answer = "401"
       THEN /\ Clear(call[c].tab, "expired")
            /\ call' = Moved(Done(c), call[c].tab)
       ELSE /\ call' = Done(c)
            /\ UNCHANGED session
    /\ UNCHANGED cache

LoginReturns(c) ==
    /\ call[c].kind = "login" /\ call[c].answer # "none"
    /\ IF call[c].answer = "ok"
       THEN /\ SetSession(call[c].tab, call[c].user)
            /\ call' = Moved(Done(c), call[c].tab)
            /\ UNCHANGED cache
       ELSE Rejected(c)
    /\ UNCHANGED <<pending, quiet>>

\* Mutant: the answer is taken whatever happened since.
SessionKept(c) == TRUE

\* refreshSession compares the generation.
SameGeneration(c) == call[c].generation

RefreshReturns(c) ==
    /\ call[c].kind = "refresh" /\ call[c].answer # "none"
    /\ pending' = [pending EXCEPT ![call[c].tab] = FALSE]
    /\ IF call[c].answer = "ok"
       THEN IF SameGeneration(c)
            THEN /\ SetSession(call[c].tab, call[c].user)
                 /\ call' = Moved(Done(c), call[c].tab)
                 /\ UNCHANGED cache
            ELSE call' = Done(c) /\ UNCHANGED <<session, cache>>
       ELSE Rejected(c)
    /\ UNCHANGED quiet

QueryReturns(c) ==
    /\ call[c].kind = "query" /\ call[c].answer # "none"
    /\ IF call[c].answer = "ok"
       THEN /\ cache' = [cache EXCEPT ![call[c].tab] =
                           IF call[c].live THEN @ \cup {call[c].user} ELSE @]
            /\ call' = Done(c)
            /\ UNCHANGED session
       ELSE Rejected(c)
    /\ UNCHANGED <<pending, quiet>>

\* Mutant: the cache is dropped after the await, not in the finally.
ForgetWhenServed(c) ==
    cache' = IF call[c].answer = "ok"
             THEN [cache EXCEPT ![call[c].tab] = {}] ELSE cache

\* The finally of signOut and signOutAll drops the cache.
Forget(c) == cache' = [cache EXCEPT ![call[c].tab] = {}]

LoginInFlight(t) ==
    \E d \in Call : call[d].kind = "login" /\ call[d].tab = t

SignOutReturns(c) ==
    LET t == call[c].tab IN
    /\ call[c].kind \in {"logout", "logout-all"} /\ call[c].answer # "none"
    /\ Clear(t, "signed-out")
    /\ call' = Dropped(Moved(Done(c), t), t)
    /\ Forget(c)
    /\ quiet' = [quiet EXCEPT ![t] = ~LoginInFlight(t)]
    /\ UNCHANGED pending

Return(c) ==
    /\ \/ LoginReturns(c) \/ RefreshReturns(c) \/ QueryReturns(c)
       \/ SignOutReturns(c)
    /\ ApplyCookie(c)
    /\ UNCHANGED <<family, sent, faults, exchanged, twice>>

\* requireRoleArea in the beforeLoad of the staff and member routes: a
\* session of the other area is dropped, and with it the cache.
Navigate(t, area) ==
    /\ session[t].user # None
    /\ RoleArea(session[t].user) # area
    /\ Clear(t, "switched")
    /\ cache' = [cache EXCEPT ![t] = {}]
    /\ call' = Dropped(Moved(call, t), t)
    /\ UNCHANGED <<pending, cookie, family, sent, faults, quiet, exchanged,
                   twice>>

\* requirePermission: the session stays, the cache goes.
Refuse(t) ==
    /\ session[t].user # None
    /\ cache' = [cache EXCEPT ![t] = {}]
    /\ call' = Dropped(call, t)
    /\ UNCHANGED <<session, pending, cookie, family, sent, faults, quiet,
                   exchanged, twice>>

\* The page is loaded again: everything in memory is gone, the cookie stays.
\* An answer the reload loses is lost before it, as in LoseAnswer.
Reload(t) ==
    /\ faults < MaxFaults
    /\ session' = [session EXCEPT ![t] = SignedOut]
    /\ cache' = [cache EXCEPT ![t] = {}]
    /\ pending' = [pending EXCEPT ![t] = FALSE]
    /\ \A c \in Call : call[c].tab # t
    /\ quiet' = [quiet EXCEPT ![t] = FALSE]
    /\ faults' = faults + 1
    /\ UNCHANGED <<call, cookie, family, sent, exchanged, twice>>

Next ==
    \/ \E c \in Call, t \in Tab :
         \/ \E u \in User : SendLogin(c, t, u)
         \/ SendRefresh(c, t)
         \/ SendQuery(c, t)
         \/ \E kind \in {"logout", "logout-all"} : SendSignOut(c, t, kind)
    \/ \E c \in Call : Serve(c) \/ FailCall(c) \/ LoseAnswer(c) \/ Return(c)
    \/ \E t \in Tab :
         \/ \E area \in {"staff", "member"} : Navigate(t, area)
         \/ Refuse(t) \/ Reload(t)

Spec == Init /\ [][Next]_vars

-----------------------------------------------------------------------------
(* Properties.                                                             *)

\* Every variable keeps its type.
TypeOK ==
    /\ session \in [Tab -> [ user : User \cup {None},
                             reason : {"signed-out", "expired", "switched"} ]]
    /\ cache \in [Tab -> SUBSET User]
    /\ pending \in [Tab -> BOOLEAN]
    /\ call \in [Call ->
         [ kind : {"none", "login", "refresh", "query", "logout", "logout-all"},
           tab : Tab \cup {None}, user : User \cup {None},
           cookie : Token \cup {None}, generation : BOOLEAN, live : BOOLEAN,
           answer : {"none", "ok", "401", "error"},
           set : Token \cup {None} ]]
    /\ cookie \in Token \cup {None}
    /\ family \in [FamilyId -> [ user : User \cup {None},
                                 current : 0 .. MaxCalls + 1,
                                 active : BOOLEAN ]]
    /\ sent \in 0 .. MaxCalls /\ faults \in 0 .. MaxFaults
    /\ quiet \in [Tab -> BOOLEAN]
    /\ exchanged \in [Tab -> SUBSET Token]
    /\ twice \subseteq Tab

\* A tab that signed out holds nobody's data, whichever queries were in
\* flight when it did.
SignedOutMeansForgotten ==
    \A t \in Tab : session[t].reason = "signed-out" => cache[t] = {}

\* Once a sign-out has ended, no answer to what was asked before brings a
\* session back: the user has to sign in, or a refresh has to be asked for.
StaysSignedOut == \A t \in Tab : quiet[t] => session[t].user = None

\* However many callers of a tab want a refresh, and whatever it signs in and
\* out of meanwhile, it never offers the server a token that was exchanged for
\* it and whose successor it was sent: only a lost answer makes it the replay
\* that revokes its own family.
OfferedOnce == twice = {}

=============================================================================
