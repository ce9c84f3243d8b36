------------------------- MODULE ProtectedRequests --------------------------
(***************************************************************************)
(* Protected requests beside everything that changes what an account may   *)
(* do (AccountSessions): JwtAuthGuard runs JwtStrategy.validate, which     *)
(* reads the account; the guard of the route decides from the context      *)
(* built there, that is from the permissions in the token; the handler     *)
(* runs later.  RolesGuard is on no route and @Public only on the health   *)
(* routes, so neither appears.  A denial is recorded as a security event   *)
(* that no decision reads, and a failure to record it is swallowed, so a   *)
(* request that is refused changes nothing here.                           *)
(***************************************************************************)
EXTENDS AccountSessions

CONSTANTS
    Request,            \* concurrent protected requests
    StaffPermission,    \* AuthPermission without member:self:read
    Policies,           \* the permissions a staff route may require
    Grants              \* staffRolePermissions, for each list of roles

ASSUME GrantsAssumption ==
    /\ Policies \subseteq SUBSET StaffPermission
    /\ Grants \in [Roles -> SUBSET StaffPermission]

VARIABLE request        \* the requests whose handler runs

requestVars == <<vars, request>>

SelfRead == "member:self:read"

\* PermissionsGuard with @RequirePermissions, MemberAuthGuard, or neither.
Route == [ guard : {"permissions"}, needs : Policies ]
         \cup {[ guard |-> "member", needs |-> {SelfRead} ],
               [ guard |-> "none", needs |-> {} ]}

\* "entitled" is history: the account, as it was read, gave what the route needs.
RequestState == [ account : Account \cup {None}, entitled : BOOLEAN ]

IdleRequest == [ account |-> None, entitled |-> FALSE ]

RequestTypeOK == TypeOK /\ request \in [Request -> RequestState]

RequestInit == Init /\ request = [q \in Request |-> IdleRequest]

-----------------------------------------------------------------------------

\* permissionsForStaffRoles and memberRolePermissions
PermissionsOf(a, roles) == IF a \in Staff THEN Grants[roles] ELSE {SelfRead}

\* What the documents say, now.
Entitled(a, route) ==
    /\ account[a].status = "active"
    /\ route.needs \subseteq PermissionsOf(a, account[a].roles)

\* permissionsFromPayload: those the token was signed with.
TokenPermissions(t) == PermissionsOf(t.account, t.roles)

\* buildStaffContext, buildMemberContext
Context(t) == [ subject |-> t.account, permissions |-> TokenPermissions(t) ]

\* Mutant: one of the required permissions is enough.
HasSomePermission(context, needs) == \E p \in needs : p \in context.permissions

\* A policy without permissions lets nobody pass.
HasEveryPermission(context, needs) ==
    needs # {} /\ needs \subseteq context.permissions

\* What the guard of the route lets pass.
Allowed(context, route) ==
    /\ route.guard = "permissions" => /\ context.subject \notin Member
                                      /\ HasEveryPermission(context, route.needs)
    /\ route.guard = "member" => /\ context.subject \in Member
                                 /\ SelfRead \in context.permissions

\* JwtStrategy.validate reads the account, the guard decides; any other request
\* is answered 401 or 403.
Admit(q, t, route) ==
    /\ request[q] = IdleRequest
    /\ Valid(t.account, t.authVersion)
    /\ Allowed(Context(t), route)
    /\ request' = [request EXCEPT ![q] =
          [ account |-> t.account, entitled |-> Entitled(t.account, route) ]]
    /\ UNCHANGED vars

\* The handler ends.
Answer(q) ==
    /\ request[q] # IdleRequest
    /\ request' = [request EXCEPT ![q] = IdleRequest]
    /\ UNCHANGED vars

RequestNext ==
    \/ Next /\ UNCHANGED request
    \/ \E q \in Request, t \in token, route \in Route : Admit(q, t, route)
    \/ \E q \in Request : Answer(q)

RequestSpec == RequestInit /\ [][RequestNext]_requestVars

-----------------------------------------------------------------------------
(* Correctness *)

\* The handler of a route runs only for an account that was active and whose
\* roles gave every permission of the route when the request was validated,
\* although the guard never reads the roles: it decides from the token, whose
\* permissions are as old as its sign-in or refresh (permissions.service.ts,
\* permissionsFromPayload before the roles of the document).  The exception is
\* an account that lost an increment of its version to overlapping handlers.
HandledWithAuthority ==
    \A q \in Request :
        request[q] # IdleRequest /\ request[q].account \notin overtaken
        => request[q].entitled

=============================================================================
