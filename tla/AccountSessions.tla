-------------------------- MODULE AccountSessions ---------------------------
(***************************************************************************)
(* Which credentials an account honours: access tokens (src/src/auth/      *)
(* auth.service.ts, jwt.strategy.ts), refresh-token families, and the      *)
(* authVersion of the staff and member documents that ties them together.  *)
(*                                                                         *)
(* An access token carries the authVersion and the permissions of the      *)
(* moment its account was read; a protected request compares only the      *)
(* version and takes the permissions from the token.  Sign-out everywhere  *)
(* increments the version in the database; the account handlers read the   *)
(* document, compute the next version and later save it as a value.  Every *)
(* await between two database operations is a step boundary here.          *)
(*                                                                         *)
(* TokenSession models the rotation itself; here it succeeds in one step   *)
(* on an active family, and a family may end at any time.                  *)
(***************************************************************************)
EXTENDS Naturals, FiniteSetsExt

CONSTANTS
    Staff, Member,      \* account ids
    Roles,              \* the role lists a staff user may have
    Family,             \* refresh-token family ids
    SignIn,             \* concurrent executions of the sign-in handlers
    Refresh,            \* concurrent executions of refresh()
    SignOutAll,         \* concurrent executions of logoutAll()
    Editor,             \* concurrent executions of the account handlers
    None,               \* an unset reference, a field that is not written
    MaxCutoffs          \* bound: no account is invalidated again after so many

Account == Staff \cup Member

ASSUME BoundsAssumption == MaxCutoffs \in Nat

ASSUME NoneAssumption == None \notin Nat \cup Account \cup Roles \cup Family

VARIABLES
    account,        \* the staff user and member documents
    family,         \* the refresh-token family documents
    token,          \* every access token signed so far
    signIn, refresh, signOutAll, editor,    \* handlers: what they read before
    cutoff,         \* history: invalidations of the account so far
    overtaken       \* history: the accounts that lost an increment, because a
                    \* save wrote a version computed from one that was old

handlers == <<signIn, refresh, signOutAll, editor>>
vars == <<account, family, token, handlers, cutoff, overtaken>>

\* Every account has credentials here; "suspended" stands for each status a
\* handler can give it that findActiveById refuses.
AccountStatus == {"active", "suspended"}

AccountDoc == [ status : AccountStatus, roles : Roles \cup {None},
                authVersion : Nat,
                revision : Nat ]        \* mongoose's __v

\* "born" is history: the invalidations when the account was read.
FamilyDoc == [ status : {"absent", "active", "revoked"},
               account : Account \cup {None}, authVersion : Nat, born : Nat ]

NoFamily ==
    [ status |-> "absent", account |-> None, authVersion |-> 0, born |-> 0 ]

AccessToken == [ account : Account, authVersion : Nat,
                 roles : Roles \cup {None}, born : Nat ]

IdleSignIn == [ account |-> None, authVersion |-> 0, born |-> 0 ]

IdleRefresh == [ pc |-> "idle", family |-> None ]

\* The document an account handler read, and what it will save: the version it
\* writes, unless "bump" is 0, is the one it read and "bump".
EditorState ==
    [ pc : {"idle", "save", "revoke"}, account : Account \cup {None},
      revision : Nat, status : AccountStatus \cup {None},
      roles : Roles \cup {None}, authVersion : Nat, bump : Nat ]

IdleEditor == [ pc |-> "idle", account |-> None, revision |-> 0, status |-> None,
                roles |-> None, authVersion |-> 0, bump |-> 0 ]

TypeOK ==
    /\ account \in [Account -> AccountDoc]
    /\ family \in [Family -> FamilyDoc]
    /\ token \subseteq AccessToken
    /\ signIn \in [SignIn -> [ account : Account \cup {None},
                               authVersion : Nat, born : Nat ]]
    /\ refresh \in [Refresh -> [ pc : {"idle", "check", "revoke"},
                                 family : Family \cup {None} ]]
    /\ signOutAll \in [SignOutAll -> Account \cup {None}]
    /\ editor \in [Editor -> EditorState]
    /\ cutoff \in [Account -> Nat]
    /\ overtaken \subseteq Account

Init ==
    /\ account \in [Account -> [ status : {"active"}, roles : Roles \cup {None},
                                 authVersion : {0}, revision : {0} ]]
    /\ \A a \in Account : (account[a].roles = None) <=> (a \notin Staff)
    /\ family = [f \in Family |-> NoFamily]
    /\ token = {}
    /\ signIn = [p \in SignIn |-> IdleSignIn]
    /\ refresh = [p \in Refresh |-> IdleRefresh]
    /\ signOutAll = [p \in SignOutAll |-> None]
    /\ editor = [e \in Editor |-> IdleEditor]
    /\ cutoff = [a \in Account |-> 0]
    /\ overtaken = {}

\* Over all accounts.
Invalidations == MapThenSumSet(LAMBDA a : cutoff[a], Account)

-----------------------------------------------------------------------------
(* What a protected request accepts *)

\* Mutant: the version is not compared.
ValidIfActive(a, authVersion) == account[a].status = "active"

\* JwtStrategy.validate, and refresh() for the version its family carries.
Valid(a, authVersion) ==
    account[a].status = "active" /\ account[a].authVersion = authVersion

\* The access token signed for an account as it was just read.
Signed(a) ==
    [ account |-> a, authVersion |-> account[a].authVersion,
      roles |-> account[a].roles, born |-> cutoff[a] ]

Revoke(F) ==
    family' = [f \in Family |->
        IF f \in F /\ family[f].status = "active"
        THEN [family[f] EXCEPT !.status = "revoked"] ELSE family[f]]

FamiliesOf(a) == {f \in Family : family[f].account = a}

-----------------------------------------------------------------------------
(* Sign-in *)

\* The account is read, its password verified and an access token signed.  The
\* token counts from here on, although the client receives it later; the
\* handlers without a refresh session end here.
Authenticate(p, a) ==
    /\ signIn[p].account = None
    /\ account[a].status = "active"
    /\ token' = token \cup {Signed(a)}
    /\ signIn' = [signIn EXCEPT ![p] =
          [ account |-> a, authVersion |-> account[a].authVersion,
            born |-> cutoff[a] ]]
    /\ UNCHANGED <<account, family, refresh, signOutAll, editor,
                   cutoff, overtaken>>

\* Mutant: the version is read again for the new family.
CreateSessionAtLatest(p, f) ==
    /\ signIn[p].account # None
    /\ family[f].status = "absent"
    /\ family' = [family EXCEPT ![f] =
          [ status |-> "active", account |-> signIn[p].account,
            authVersion |-> account[signIn[p].account].authVersion,
            born |-> signIn[p].born ]]
    /\ signIn' = [signIn EXCEPT ![p] = IdleSignIn]
    /\ UNCHANGED <<account, token, refresh, signOutAll, editor,
                   cutoff, overtaken>>

\* createRefreshToken: the family carries the version that was authenticated.
CreateSession(p, f) ==
    /\ signIn[p].account # None
    /\ family[f].status = "absent"
    /\ family' = [family EXCEPT ![f] =
          [ status |-> "active", account |-> signIn[p].account,
            authVersion |-> signIn[p].authVersion, born |-> signIn[p].born ]]
    /\ signIn' = [signIn EXCEPT ![p] = IdleSignIn]
    /\ UNCHANGED <<account, token, refresh, signOutAll, editor,
                   cutoff, overtaken>>

\* login() and memberLogin() create no family; any handler may fail.
EndSignIn(p) ==
    /\ signIn[p].account # None
    /\ signIn' = [signIn EXCEPT ![p] = IdleSignIn]
    /\ UNCHANGED <<account, family, token, refresh, signOutAll, editor,
                   cutoff, overtaken>>

-----------------------------------------------------------------------------
(* refresh() *)

\* The rotation is granted.
Rotate(p, f) ==
    /\ refresh[p].pc = "idle"
    /\ family[f].status = "active"
    /\ refresh' = [refresh EXCEPT ![p] = [ pc |-> "check", family |-> f ]]
    /\ UNCHANGED <<account, family, token, signIn, signOutAll, editor,
                   cutoff, overtaken>>

\* The account is read again: a new access token, or the denial.
CheckSubject(p) ==
    LET d == family[refresh[p].family] IN
    /\ refresh[p].pc = "check"
    /\ \/ /\ Valid(d.account, d.authVersion)
          /\ token' = token \cup {Signed(d.account)}
          /\ refresh' = [refresh EXCEPT ![p] = IdleRefresh]
       \/ /\ ~Valid(d.account, d.authVersion)
          /\ refresh' = [refresh EXCEPT ![p].pc = "revoke"]
          /\ UNCHANGED token
    /\ UNCHANGED <<account, family, signIn, signOutAll, editor,
                   cutoff, overtaken>>

DenyRefreshAndRevoke(p) ==
    /\ refresh[p].pc = "revoke"
    /\ Revoke({refresh[p].family})
    /\ refresh' = [refresh EXCEPT ![p] = IdleRefresh]
    /\ UNCHANGED <<account, token, signIn, signOutAll, editor,
                   cutoff, overtaken>>

EndRefresh(p) ==
    /\ refresh[p].pc # "idle"
    /\ refresh' = [refresh EXCEPT ![p] = IdleRefresh]
    /\ UNCHANGED <<account, family, token, signIn, signOutAll, editor,
                   cutoff, overtaken>>

-----------------------------------------------------------------------------
(* Sign-out *)

\* logout(), a replayed token or the expiry of a family ends it.
EndFamily(f) ==
    /\ family[f].status = "active"
    /\ Revoke({f})
    /\ UNCHANGED <<account, token, handlers, cutoff, overtaken>>

\* logoutAll(), called with an access token: first every family is revoked.
RevokeSubject(p, a) ==
    /\ signOutAll[p] = None
    /\ Invalidations < MaxCutoffs
    /\ \E t \in token : t.account = a /\ Valid(a, t.authVersion)
    /\ Revoke(FamiliesOf(a))
    /\ signOutAll' = [signOutAll EXCEPT ![p] = a]
    /\ UNCHANGED <<account, token, signIn, refresh, editor, cutoff, overtaken>>

\* Then the version is incremented in place.
BumpAuthVersion(p) ==
    LET a == signOutAll[p] IN
    /\ a # None
    /\ account' = [account EXCEPT ![a].authVersion = @ + 1]
    /\ cutoff' = [cutoff EXCEPT ![a] = @ + 1]
    /\ signOutAll' = [signOutAll EXCEPT ![p] = None]
    /\ UNCHANGED <<family, token, signIn, refresh, editor, overtaken>>

\* A failure between the two.
EndSignOutAll(p) ==
    /\ signOutAll[p] # None
    /\ signOutAll' = [signOutAll EXCEPT ![p] = None]
    /\ UNCHANGED <<account, family, token, signIn, refresh, editor,
                   cutoff, overtaken>>

-----------------------------------------------------------------------------
(* The account handlers: read, and later save *)

Changed(value, read) == IF value \in {None, read} THEN None ELSE value

\* The next version, computed from the one that was read.
Edit(e, a, status, roles, bump) ==
    /\ editor[e].pc = "idle"
    /\ editor' = [editor EXCEPT ![e] =
          [ pc |-> "save", account |-> a, revision |-> account[a].revision,
            status |-> status, roles |-> roles,
            authVersion |-> account[a].authVersion, bump |-> bump ]]
    /\ UNCHANGED <<account, family, token, signIn, refresh, signOutAll,
                   cutoff, overtaken>>

\* Mutant: a change of roles alone does not count.
BumpUnlessRoles(statusWrite, rolesWrite, emailChanged) ==
    IF statusWrite # None \/ emailChanged THEN 1 ELSE 0

\* StaffUsersService.update counts one for any change that matters.
StaffBump(statusWrite, rolesWrite, emailChanged) ==
    IF statusWrite # None \/ rolesWrite # None \/ emailChanged THEN 1 ELSE 0

UpdateStaff(e, a, status, roles, emailChanged) ==
    LET s == Changed(status, account[a].status)
        r == Changed(roles, account[a].roles) IN
    Edit(e, a, s, r, StaffBump(s, r, emailChanged))

\* MembersService.update counts one for the status and one for the email.
MemberBump(statusWrite, emailChanged) ==
    (IF statusWrite # None THEN 1 ELSE 0) + (IF emailChanged THEN 1 ELSE 0)

UpdateMember(e, a, status, emailChanged) ==
    LET s == Changed(status, account[a].status) IN
    Edit(e, a, s, None, MemberBump(s, emailChanged))

SetMemberCredentials(e, a) == Edit(e, a, None, None, 1)

\* save(): the fields that changed, as values.  Replacing the roles array makes
\* mongoose also match and increment the document's revision; a save that
\* finds another revision fails.
Save(e) ==
    LET q == editor[e]
        old == account[q.account]
        new == [ status |-> IF q.status = None THEN old.status ELSE q.status,
                 roles |-> IF q.roles = None THEN old.roles ELSE q.roles,
                 authVersion |-> IF q.bump = 0 THEN old.authVersion
                                 ELSE q.authVersion + q.bump,
                 revision |-> IF q.roles = None THEN old.revision
                                                ELSE old.revision + 1 ] IN
    /\ q.pc = "save"
    /\ q.roles # None => old.revision = q.revision
    /\ account' = [account EXCEPT ![q.account] = new]
    /\ IF q.bump = 0
       THEN /\ editor' = [editor EXCEPT ![e] = IdleEditor]
            /\ UNCHANGED <<cutoff, overtaken>>
       ELSE /\ editor' = [editor EXCEPT ![e] =
                  [IdleEditor EXCEPT !.pc = "revoke", !.account = q.account]]
            /\ cutoff' = [cutoff EXCEPT ![q.account] = @ + 1]
            /\ overtaken' = overtaken \cup
                  {a \in {q.account} : old.authVersion # q.authVersion}
    /\ UNCHANGED <<family, token, signIn, refresh, signOutAll>>

\* revokeSessions, after a save that changed the version; then the events, that
\* no decision reads.
RevokeSessions(e) ==
    /\ editor[e].pc = "revoke"
    /\ Revoke(FamiliesOf(editor[e].account))
    /\ editor' = [editor EXCEPT ![e] = IdleEditor]
    /\ UNCHANGED <<account, token, signIn, refresh, signOutAll,
                   cutoff, overtaken>>

\* The save is refused, or the handler fails or dies between two operations.
EndEdit(e) ==
    /\ editor[e].pc # "idle"
    /\ editor' = [editor EXCEPT ![e] = IdleEditor]
    /\ UNCHANGED <<account, family, token, signIn, refresh, signOutAll,
                   cutoff, overtaken>>

-----------------------------------------------------------------------------

SignInStep(p) ==
    \/ \E a \in Account : Authenticate(p, a)
    \/ \E f \in Family : CreateSession(p, f)
    \/ EndSignIn(p)

RefreshStep(p) ==
    \/ \E f \in Family : Rotate(p, f)
    \/ CheckSubject(p) \/ DenyRefreshAndRevoke(p) \/ EndRefresh(p)

SignOutAllStep(p) ==
    \/ \E a \in Account : RevokeSubject(p, a)
    \/ BumpAuthVersion(p) \/ EndSignOutAll(p)

EditorStep(e) ==
    \/ /\ Invalidations < MaxCutoffs
       /\ \/ \E a \in Staff, s \in AccountStatus \cup {None},
                r \in Roles \cup {None}, emailChanged \in BOOLEAN :
                UpdateStaff(e, a, s, r, emailChanged)
          \/ \E a \in Member, s \in AccountStatus \cup {None},
                emailChanged \in BOOLEAN : UpdateMember(e, a, s, emailChanged)
          \/ \E a \in Member : SetMemberCredentials(e, a)
    \/ Save(e) \/ RevokeSessions(e) \/ EndEdit(e)

Next ==
    \/ \E p \in SignIn : SignInStep(p)
    \/ \E p \in Refresh : RefreshStep(p)
    \/ \E p \in SignOutAll : SignOutAllStep(p)
    \/ \E e \in Editor : EditorStep(e)
    \/ \E f \in Family : EndFamily(f)

Spec == Init /\ [][Next]_vars

-----------------------------------------------------------------------------
(* Correctness *)

\* What was issued from an account as it was before an invalidation (a sign-out
\* everywhere, a change of status, roles, email or password) is not honoured
\* after it: no such access token passes JwtStrategy.validate, and no family
\* created by a sign-in that had read the account before, or missed by the
\* revocation, gets through refresh() (auth-api.md: "Ensure access credentials
\* issued before the operation fail the next protected-request
\* authorization-version check").  Nothing but a lost increment breaks it: the
\* save of a version that another handler or sign-out had raised since it was
\* read, as the account handlers do not compare it.
StaleCredentialsRejected ==
    /\ \A t \in token :
          t.account \notin overtaken /\ t.born < cutoff[t.account]
             => ~Valid(t.account, t.authVersion)
    /\ \A f \in Family :
          LET d == family[f] IN
          d.status = "active" /\ d.account \notin overtaken
          /\ d.born < cutoff[d.account] => ~Valid(d.account, d.authVersion)

\* A staff user acts with the permissions of the roles the account has now: the
\* permissions are taken from the token, so a token of other roles must have
\* another version (spec.md SC-004: "Role changes take effect for protected
\* workflows within 1 minute").  Here too only a lost increment breaks it.
PermissionsFollowRoles ==
    \A t \in token :
        t.account \in Staff \ overtaken /\ Valid(t.account, t.authVersion)
        => t.roles = account[t.account].roles

=============================================================================
