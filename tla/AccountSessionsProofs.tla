----------------------- MODULE AccountSessionsProofs ------------------------
(***************************************************************************)
(* Proofs about AccountSessions: types, and that a change of an account    *)
(* invalidates everything issued before it, however handlers overlap,      *)
(* unless the account has lost an increment of its version; and about its  *)
(* composition ProtectedRequests: what the guards let pass is what such an *)
(* account is entitled to.                                                 *)
(***************************************************************************)
EXTENDS ProtectedRequests, TLAPS

\* Every reference a document or handler holds is one that can be followed.
FamilyRefs ==
    \A f \in Family : family[f].status # "absent" => family[f].account \in Account

RefreshRefs ==
    \A p \in Refresh : refresh[p].pc # "idle" =>
        /\ refresh[p].family \in Family
        /\ family[refresh[p].family].status # "absent"

EditorRefs ==
    \A e \in Editor : editor[e].pc # "idle" => editor[e].account \in Account

TypeInv == TypeOK /\ FamilyRefs /\ RefreshRefs /\ EditorRefs

\* None is not a version, an account, a role list or a family.
LEMMA NoneFacts ==
    None \notin Nat /\ None \notin Account /\ None \notin Roles
    /\ None \notin Family
BY NoneAssumption

\* Revoking families changes their status alone.
LEMMA RevokeType ==
    ASSUME TypeInv, NEW F, Revoke(F)
    PROVE  /\ family' \in [Family -> FamilyDoc]
           /\ \A f \in Family :
                 /\ family'[f].account = family[f].account
                 /\ family'[f].authVersion = family[f].authVersion
                 /\ family'[f].born = family[f].born
                 /\ family'[f].status = "active" => family[f].status = "active"
                 /\ (family'[f].status = "absent")
                       <=> (family[f].status = "absent")
BY DEF TypeInv, TypeOK, Revoke, FamilyDoc

\* The token signed for an account has the type of an access token.
LEMMA SignedType ==
    ASSUME TypeInv, NEW a \in Account
    PROVE  Signed(a) \in AccessToken
BY DEF TypeInv, TypeOK, Signed, AccessToken, AccountDoc

\* $inc leaves an account document behind.
LEMMA IncrementType ==
    ASSUME NEW d \in AccountDoc
    PROVE  [d EXCEPT !.authVersion = @ + 1] \in AccountDoc
BY DEF AccountDoc

\* Accounts start active, at version zero, with nothing issued.
LEMMA InitTypeInv == Init => TypeInv
BY NoneFacts DEF Init, TypeInv, TypeOK, FamilyRefs, RefreshRefs, EditorRefs,
    AccountDoc, AccountStatus, FamilyDoc, NoFamily, AccessToken, IdleSignIn,
    IdleRefresh, IdleEditor, EditorState

\* The steps of a sign-in keep the types.
LEMMA SignInType ==
    ASSUME TypeInv, NEW p \in SignIn, SignInStep(p)
    PROVE  TypeInv'
<1> USE DEF TypeInv, FamilyRefs, RefreshRefs, EditorRefs
<1>1. ASSUME NEW a \in Account, Authenticate(p, a)
      PROVE  TypeInv'
  BY <1>1, SignedType DEF Authenticate, TypeOK, AccountDoc
<1>2. ASSUME NEW f \in Family, CreateSession(p, f)
      PROVE  TypeInv'
  <2>1. signIn[p].account \in Account
    BY <1>2 DEF CreateSession, TypeOK
  <2>2. family' \in [Family -> FamilyDoc]
    BY <1>2, <2>1 DEF CreateSession, TypeOK, FamilyDoc
  <2>3. signIn' \in [SignIn -> [ account : Account \cup {None},
                                 authVersion : Nat, born : Nat ]]
    BY <1>2 DEF CreateSession, TypeOK, IdleSignIn
  <2>4. TypeOK'
    BY <1>2, <2>2, <2>3 DEF CreateSession, TypeOK
  <2>5. FamilyRefs' /\ RefreshRefs' /\ EditorRefs'
    BY <1>2, <2>1 DEF CreateSession, TypeOK, FamilyDoc
  <2> QED BY <2>4, <2>5
<1>3. ASSUME EndSignIn(p)
      PROVE  TypeInv'
  BY <1>3 DEF EndSignIn, TypeOK, IdleSignIn
<1> QED BY <1>1, <1>2, <1>3 DEF SignInStep

\* The steps of a refresh keep the types.
LEMMA RefreshType ==
    ASSUME TypeInv, NEW p \in Refresh, RefreshStep(p)
    PROVE  TypeInv'
<1> USE DEF TypeInv, FamilyRefs, RefreshRefs, EditorRefs
<1>1. ASSUME NEW f \in Family, Rotate(p, f)
      PROVE  TypeInv'
  BY <1>1 DEF Rotate, TypeOK
<1>2. ASSUME CheckSubject(p)
      PROVE  TypeInv'
  <2>1. family[refresh[p].family].account \in Account
    BY <1>2 DEF CheckSubject
  <2>2. Signed(family[refresh[p].family].account) \in AccessToken
    BY <2>1, SignedType
  <2>3. token' \subseteq AccessToken
    BY <1>2, <2>2 DEF CheckSubject, TypeOK
  <2>4. refresh' \in [Refresh -> [ pc : {"idle", "check", "revoke"},
                                   family : Family \cup {None} ]]
    BY <1>2 DEF CheckSubject, TypeOK, IdleRefresh
  <2>5. TypeOK'
    BY <1>2, <2>3, <2>4 DEF CheckSubject, TypeOK
  <2>6. RefreshRefs'
    BY <1>2 DEF CheckSubject, TypeOK, IdleRefresh
  <2> QED BY <1>2, <2>5, <2>6 DEF CheckSubject
<1>3. ASSUME DenyRefreshAndRevoke(p)
      PROVE  TypeInv'
  <2>1. Revoke({refresh[p].family})
    BY <1>3 DEF DenyRefreshAndRevoke
  <2>2. TypeOK'
    BY <1>3, <2>1, RevokeType DEF DenyRefreshAndRevoke, TypeOK, IdleRefresh
  <2> QED BY <1>3, <2>1, <2>2, RevokeType
      DEF DenyRefreshAndRevoke, TypeOK, IdleRefresh
<1>4. ASSUME EndRefresh(p)
      PROVE  TypeInv'
  BY <1>4 DEF EndRefresh, TypeOK, IdleRefresh
<1> QED BY <1>1, <1>2, <1>3, <1>4 DEF RefreshStep

\* The steps of a sign-out keep the types.
LEMMA SignOutType ==
    ASSUME TypeInv,
           \/ \E p \in SignOutAll : SignOutAllStep(p)
           \/ \E f \in Family : EndFamily(f)
    PROVE  TypeInv'
<1> USE DEF TypeInv, FamilyRefs, RefreshRefs, EditorRefs
<1>1. ASSUME NEW f \in Family, EndFamily(f)
      PROVE  TypeInv'
  <2>1. Revoke({f})
    BY <1>1 DEF EndFamily
  <2> QED BY <1>1, <2>1, RevokeType DEF EndFamily, TypeOK, handlers
<1>2. ASSUME NEW p \in SignOutAll, NEW a \in Account, RevokeSubject(p, a)
      PROVE  TypeInv'
  <2>1. Revoke(FamiliesOf(a))
    BY <1>2 DEF RevokeSubject
  <2> QED BY <1>2, <2>1, RevokeType DEF RevokeSubject, TypeOK
<1>3. ASSUME NEW p \in SignOutAll, BumpAuthVersion(p)
      PROVE  TypeInv'
  <2> DEFINE a == signOutAll[p]
  <2>1. a \in Account
    BY <1>3 DEF BumpAuthVersion, TypeOK
  <2>2. [account[a] EXCEPT !.authVersion = @ + 1] \in AccountDoc
    BY <2>1, IncrementType DEF TypeOK
  <2>3. account' \in [Account -> AccountDoc]
    BY <1>3, <2>1, <2>2 DEF BumpAuthVersion, TypeOK
  <2>4. cutoff' \in [Account -> Nat] /\ overtaken' \subseteq Account
    BY <1>3, <2>1 DEF BumpAuthVersion, TypeOK
  <2> QED BY <1>3, <2>3, <2>4 DEF BumpAuthVersion, TypeOK
<1>4. ASSUME NEW p \in SignOutAll, EndSignOutAll(p)
      PROVE  TypeInv'
  BY <1>4 DEF EndSignOutAll, TypeOK
<1> QED BY <1>1, <1>2, <1>3, <1>4 DEF SignOutAllStep


\* What an account handler read, as a record of its own.
LEMMA EditType ==
    ASSUME TypeInv, NEW e \in Editor, NEW a \in Account,
           NEW s \in AccountStatus \cup {None}, NEW r \in Roles \cup {None},
           NEW bump \in Nat, Edit(e, a, s, r, bump)
    PROVE  TypeInv'
<1>1. account[a].authVersion \in Nat /\ account[a].revision \in Nat
  BY DEF TypeInv, TypeOK, AccountDoc
<1>2. TypeOK'
  BY <1>1 DEF TypeInv, TypeOK, Edit, EditorState
<1>3. EditorRefs'
  BY DEF TypeInv, TypeOK, EditorRefs, Edit
<1> QED BY <1>2, <1>3 DEF TypeInv, FamilyRefs, RefreshRefs, Edit

\* A field that is written has the type of the value in the request.
LEMMA ChangedType ==
    ASSUME NEW S, NEW value \in S \cup {None}, NEW read
    PROVE  Changed(value, read) \in S \cup {None}
BY DEF Changed

\* save() leaves a document of the right type behind, and so does the rest of
\* the account handlers.
LEMMA EditorType ==
    ASSUME TypeInv, NEW e \in Editor, EditorStep(e)
    PROVE  TypeInv'
<1>1. ASSUME NEW a \in Staff, NEW s \in AccountStatus \cup {None},
             NEW r \in Roles \cup {None}, NEW m \in BOOLEAN,
             UpdateStaff(e, a, s, r, m)
      PROVE  TypeInv'
  <2> DEFINE sw == Changed(s, account[a].status)
             rw == Changed(r, account[a].roles)
  <2>1. sw \in AccountStatus \cup {None} /\ rw \in Roles \cup {None}
    BY ChangedType
  <2>2. StaffBump(sw, rw, m) \in Nat
    BY DEF StaffBump
  <2>3. Edit(e, a, sw, rw, StaffBump(sw, rw, m)) /\ a \in Account
    BY <1>1 DEF UpdateStaff, Account
  <2> HIDE DEF sw, rw
  <2> QED BY <2>1, <2>2, <2>3, EditType
<1>2. ASSUME NEW a \in Member, NEW s \in AccountStatus \cup {None},
             NEW m \in BOOLEAN, UpdateMember(e, a, s, m)
      PROVE  TypeInv'
  <2> DEFINE sw == Changed(s, account[a].status)
  <2>1. sw \in AccountStatus \cup {None}
    BY ChangedType
  <2>2. MemberBump(sw, m) \in Nat
    BY DEF MemberBump
  <2>3. Edit(e, a, sw, None, MemberBump(sw, m)) /\ a \in Account
    BY <1>2 DEF UpdateMember, Account
  <2> HIDE DEF sw
  <2> QED BY <2>1, <2>2, <2>3, EditType
<1>3. ASSUME NEW a \in Member, SetMemberCredentials(e, a)
      PROVE  TypeInv'
  BY <1>3, EditType DEF SetMemberCredentials, Account
<1>4. ASSUME Save(e)
      PROVE  TypeInv'
  <2> DEFINE q == editor[e]
             old == account[q.account]
  <2>1. q.account \in Account
    BY <1>4 DEF Save, TypeInv, EditorRefs
  <2>2. /\ old \in AccountDoc
        /\ q.status \in AccountStatus \cup {None}
        /\ q.roles \in Roles \cup {None}
        /\ q.authVersion \in Nat /\ q.bump \in Nat
    BY <2>1 DEF TypeInv, TypeOK, EditorState
  <2>3. [ status |-> IF q.status = None THEN old.status ELSE q.status,
          roles |-> IF q.roles = None THEN old.roles ELSE q.roles,
          authVersion |-> IF q.bump = 0 THEN old.authVersion
                          ELSE q.authVersion + q.bump,
          revision |-> IF q.roles = None THEN old.revision
                                         ELSE old.revision + 1 ]
        \in AccountDoc
    <3> HIDE DEF q, old
    <3> QED BY <2>2 DEF AccountDoc
  <2>4. account' \in [Account -> AccountDoc]
    BY <1>4, <2>1, <2>3 DEF Save, TypeInv, TypeOK
  <2>5. cutoff' \in [Account -> Nat] /\ overtaken' \subseteq Account
    BY <1>4, <2>1 DEF Save, TypeInv, TypeOK
  <2>6. [IdleEditor EXCEPT !.pc = "revoke", !.account = q.account] \in EditorState
    <3> HIDE DEF q
    <3> QED BY <2>1 DEF IdleEditor, EditorState
  <2>7. editor' \in [Editor -> EditorState] /\ EditorRefs'
    <3>1. CASE q.bump = 0
      <4>1. editor' = [editor EXCEPT ![e] = IdleEditor]
        BY <1>4, <3>1 DEF Save
      <4>2. IdleEditor \in EditorState /\ IdleEditor.pc = "idle"
        BY DEF IdleEditor, EditorState
      <4> QED BY <4>1, <4>2 DEF TypeInv, TypeOK, EditorRefs
    <3>2. CASE q.bump # 0
      <4>1. editor' = [editor EXCEPT ![e] =
               [IdleEditor EXCEPT !.pc = "revoke", !.account = q.account]]
        BY <1>4, <3>2 DEF Save
      <4>2. [IdleEditor EXCEPT !.pc = "revoke", !.account = q.account].account
               = q.account
        BY DEF IdleEditor
      <4> QED BY <2>1, <2>6, <4>1, <4>2 DEF TypeInv, TypeOK, EditorRefs
    <3> QED BY <3>1, <3>2
  <2>8. UNCHANGED <<family, token, signIn, refresh, signOutAll>>
    BY <1>4 DEF Save
  <2>9. TypeOK'
    BY <2>4, <2>5, <2>7, <2>8 DEF TypeInv, TypeOK
  <2> QED BY <2>7, <2>8, <2>9 DEF TypeInv, FamilyRefs, RefreshRefs
<1>5. ASSUME RevokeSessions(e)
      PROVE  TypeInv'
  <2>1. Revoke(FamiliesOf(editor[e].account))
    BY <1>5 DEF RevokeSessions
  <2>2. TypeOK'
    BY <1>5, <2>1, RevokeType DEF RevokeSessions, TypeInv, TypeOK, IdleEditor, EditorState
  <2> QED BY <1>5, <2>1, <2>2, RevokeType
      DEF RevokeSessions, TypeInv, TypeOK, IdleEditor, FamilyRefs, RefreshRefs,
          EditorRefs
<1>6. ASSUME EndEdit(e)
      PROVE  TypeInv'
  BY <1>6 DEF EndEdit, TypeInv, TypeOK, IdleEditor, EditorState, FamilyRefs, RefreshRefs,
      EditorRefs
<1> QED BY <1>1, <1>2, <1>3, <1>4, <1>5, <1>6 DEF EditorStep

\* Every step keeps the types and the references.
LEMMA NextTypeInv == TypeInv /\ [Next]_vars => TypeInv'
<1> SUFFICES ASSUME TypeInv, [Next]_vars
             PROVE  TypeInv'
  OBVIOUS
<1>1. CASE UNCHANGED vars
  BY <1>1 DEF vars, handlers, TypeInv, TypeOK, FamilyRefs, RefreshRefs,
      EditorRefs
<1> QED BY <1>1, SignInType, RefreshType, SignOutType, EditorType DEF Next

\* Documents, tokens and handlers keep their types, whatever the handlers of
\* sign-in, refresh, sign-out and account changes interleave.
THEOREM TypeCorrect == Spec => []TypeOK
<1>1. TypeInv => TypeOK
  BY DEF TypeInv
<1> QED BY <1>1, InitTypeInv, NextTypeInv, PTL DEF Spec

-----------------------------------------------------------------------------
(* Versions and invalidations *)

\* A version issued before the latest invalidation is below the account's,
\* unless the account has lost an increment.
Superseded(a, authVersion, born) ==
    a \notin overtaken =>
        /\ born <= cutoff[a]
        /\ authVersion <= account[a].authVersion
        /\ born < cutoff[a] => authVersion < account[a].authVersion

TokenVersions ==
    \A t \in token :
        /\ Superseded(t.account, t.authVersion, t.born)
        /\ /\ t.account \notin overtaken
           /\ t.authVersion = account[t.account].authVersion
           => t.roles = account[t.account].roles

FamilyVersions ==
    \A f \in Family : family[f].status = "active" =>
        Superseded(family[f].account, family[f].authVersion, family[f].born)

SignInVersions ==
    \A p \in SignIn : signIn[p].account # None =>
        Superseded(signIn[p].account, signIn[p].authVersion, signIn[p].born)

\* A handler that is about to write roles raises the version.
EditorVersions ==
    \A e \in Editor :
        editor[e].pc = "save" /\ editor[e].roles # None => editor[e].bump # 0

VersionInv ==
    TypeInv /\ TokenVersions /\ FamilyVersions /\ SignInVersions
    /\ EditorVersions

\* What is read from an account now is not superseded.
LEMMA CurrentVersion ==
    ASSUME TypeInv, NEW a \in Account
    PROVE  Superseded(a, account[a].authVersion, cutoff[a])
BY DEF Superseded, TypeInv, TypeOK, AccountDoc

\* The account and its invalidations stand still: nothing issued changes state.
Still == UNCHANGED <<account, cutoff, overtaken>>

\* A step counts one more invalidation of an account, and gives it a higher
\* version or loses an increment.
Raised(a, n) ==
    /\ cutoff' = [cutoff EXCEPT ![a] = @ + 1]
    /\ account'[a].authVersion = n
    /\ \A b \in Account \ {a} : account'[b] = account[b]
    /\ overtaken \subseteq overtaken' /\ overtaken' \subseteq overtaken \cup {a}
    /\ a \in overtaken' \/ n > account[a].authVersion

\* It supersedes everything issued so far, for this account; the others are as
\* they were.
LEMMA RaiseSuperseded ==
    ASSUME TypeInv, NEW a \in Account, NEW n \in Nat, Raised(a, n),
           NEW c \in Account, NEW v \in Nat, NEW born \in Nat,
           Superseded(c, v, born)
    PROVE  /\ Superseded(c, v, born)'
           /\ c = a /\ a \notin overtaken' => v < n
<1>1. account[c].authVersion \in Nat /\ cutoff[c] \in Nat
  BY DEF TypeInv, TypeOK, AccountDoc
<1>2. CASE c = a
  <2>1. cutoff'[c] = cutoff[c] + 1 /\ account'[c].authVersion = n
    BY <1>2 DEF TypeInv, TypeOK, Raised
  <2>2. CASE a \in overtaken'
    BY <1>2, <2>2 DEF Superseded
  <2>3. CASE a \notin overtaken'
    <3>1. a \notin overtaken /\ n > account[a].authVersion
      BY <2>3 DEF Raised
    <3> QED BY <1>1, <1>2, <2>1, <3>1 DEF Superseded
  <2> QED BY <2>2, <2>3
<1>3. CASE c # a
  <2>1. /\ cutoff'[c] = cutoff[c] /\ account'[c] = account[c]
        /\ c \in overtaken' <=> c \in overtaken
    BY <1>3 DEF TypeInv, TypeOK, Raised
  <2> QED BY <1>3, <2>1 DEF Superseded
<1> QED BY <1>2, <1>3

\* Nothing is issued in the initial state.
LEMMA InitVersionInv == Init => VersionInv
<1> SUFFICES ASSUME Init
             PROVE  VersionInv
  OBVIOUS
<1>1. TypeInv
  BY InitTypeInv
<1>2. TokenVersions /\ FamilyVersions /\ SignInVersions /\ EditorVersions
  BY DEF Init, TokenVersions, FamilyVersions, SignInVersions, EditorVersions,
      NoFamily, IdleSignIn, IdleEditor
<1> QED BY <1>1, <1>2 DEF VersionInv

\* A token signed from an account as it stands.
LEMMA SignedSuperseded ==
    ASSUME TypeInv, NEW a \in Account, NEW t, t = Signed(a)
    PROVE  /\ Superseded(t.account, t.authVersion, t.born)
           /\ t.roles = account[t.account].roles
BY CurrentVersion DEF Signed

\* While no account changes, tokens may be signed and families revoked.
LEMMA QuietTokens ==
    ASSUME VersionInv, Still,
           \/ UNCHANGED token
           \/ \E a \in Account : token' = token \cup {Signed(a)}
    PROVE  TokenVersions'
<1> SUFFICES ASSUME NEW t \in token'
             PROVE  /\ Superseded(t.account, t.authVersion, t.born)
                    /\ /\ t.account \notin overtaken
                       /\ t.authVersion = account[t.account].authVersion
                       => t.roles = account[t.account].roles
  BY DEF TokenVersions, Superseded, Still
<1>1. CASE t \in token
  BY <1>1 DEF VersionInv, TokenVersions
<1>2. CASE t \notin token
  <2>1. PICK a \in Account : t = Signed(a)
    BY <1>2
  <2> QED BY <2>1, SignedSuperseded DEF VersionInv
<1> QED BY <1>1, <1>2

\* Revoking families makes nothing current again.
LEMMA QuietFamilies ==
    ASSUME VersionInv, Still, NEW F, Revoke(F)
    PROVE  FamilyVersions'
<1> SUFFICES ASSUME NEW f \in Family, family'[f].status = "active"
             PROVE  Superseded(family'[f].account, family'[f].authVersion,
                               family'[f].born)
  BY DEF FamilyVersions, Superseded, Still
<1> QED BY RevokeType DEF VersionInv, FamilyVersions

\* Nothing but a handler's own save uses what it read.
LEMMA QuietEditors ==
    ASSUME VersionInv, Still,
           \A e \in Editor : editor'[e] = editor[e] \/ editor'[e].pc # "save"
    PROVE  EditorVersions'
BY DEF VersionInv, EditorVersions, Still

\* Sign-in issues what the account holds now, and a family what was read.
LEMMA SignInVersion ==
    ASSUME VersionInv, NEW p \in SignIn, SignInStep(p)
    PROVE  VersionInv'
<1>1. TypeInv'
  BY SignInType DEF VersionInv
<1>2. Still /\ EditorVersions'
  BY QuietEditors DEF SignInStep, Authenticate, CreateSession, EndSignIn, Still
<1>3. ASSUME NEW a \in Account, Authenticate(p, a)
      PROVE  TokenVersions' /\ FamilyVersions' /\ SignInVersions'
  <2>1. TokenVersions'
    BY <1>2, <1>3, QuietTokens DEF Authenticate
  <2>2. FamilyVersions'
    BY <1>2, <1>3 DEF Authenticate, VersionInv, FamilyVersions, Superseded, Still
  <2>3. ASSUME NEW r \in SignIn, signIn'[r].account # None
        PROVE  Superseded(signIn'[r].account, signIn'[r].authVersion,
                          signIn'[r].born)
    <3>1. CASE r = p
      <4>1. /\ signIn'[r].account = a
            /\ signIn'[r].authVersion = account[a].authVersion
            /\ signIn'[r].born = cutoff[a]
        BY <1>3, <3>1 DEF Authenticate, VersionInv, TypeInv, TypeOK
      <4> QED BY <4>1, CurrentVersion DEF VersionInv
    <3>2. CASE r # p
      <4>1. signIn'[r] = signIn[r]
        BY <1>3, <3>2 DEF Authenticate, VersionInv, TypeInv, TypeOK
      <4> QED BY <2>3, <4>1 DEF VersionInv, SignInVersions
    <3> QED BY <3>1, <3>2
  <2>4. SignInVersions'
    BY <1>2, <2>3 DEF SignInVersions, Superseded, Still
  <2> QED BY <2>1, <2>2, <2>4
<1>4. ASSUME NEW f \in Family, CreateSession(p, f)
      PROVE  TokenVersions' /\ FamilyVersions' /\ SignInVersions'
  <2>1. TokenVersions'
    BY <1>2, <1>4, QuietTokens DEF CreateSession
  <2>2. ASSUME NEW g \in Family, family'[g].status = "active"
        PROVE  Superseded(family'[g].account, family'[g].authVersion,
                          family'[g].born)
    <3>1. CASE g = f
      <4>1. /\ family'[g].account = signIn[p].account
            /\ family'[g].authVersion = signIn[p].authVersion
            /\ family'[g].born = signIn[p].born
            /\ signIn[p].account # None
        BY <1>4, <3>1 DEF CreateSession, VersionInv, TypeInv, TypeOK
      <4> QED BY <4>1 DEF VersionInv, SignInVersions
    <3>2. CASE g # f
      <4>1. family'[g] = family[g]
        BY <1>4, <3>2 DEF CreateSession, VersionInv, TypeInv, TypeOK
      <4> QED BY <2>2, <4>1 DEF VersionInv, FamilyVersions
    <3> QED BY <3>1, <3>2
  <2>3. FamilyVersions'
    BY <1>2, <2>2 DEF FamilyVersions, Superseded, Still
  <2>4. SignInVersions'
    BY <1>2, <1>4 DEF CreateSession, VersionInv, TypeInv, TypeOK, SignInVersions,
        Superseded, Still, IdleSignIn
  <2> QED BY <2>1, <2>3, <2>4
<1>5. ASSUME EndSignIn(p)
      PROVE  TokenVersions' /\ FamilyVersions' /\ SignInVersions'
  <2>1. TokenVersions'
    BY <1>2, <1>5, QuietTokens DEF EndSignIn
  <2>2. FamilyVersions'
    BY <1>2, <1>5 DEF EndSignIn, VersionInv, FamilyVersions, Superseded, Still
  <2>3. SignInVersions'
    BY <1>2, <1>5 DEF EndSignIn, VersionInv, TypeInv, TypeOK, SignInVersions,
        Superseded, Still, IdleSignIn
  <2> QED BY <2>1, <2>2, <2>3
<1> QED BY <1>1, <1>2, <1>3, <1>4, <1>5 DEF SignInStep, VersionInv

\* Steps that leave accounts and sign-ins alone, sign tokens for accounts as
\* they stand, and at most revoke families.
LEMMA QuietVersion ==
    ASSUME VersionInv, TypeInv', Still, UNCHANGED signIn,
           \/ UNCHANGED token
           \/ \E a \in Account : token' = token \cup {Signed(a)},
           UNCHANGED family \/ \E F \in SUBSET Family : Revoke(F),
           \A e \in Editor : editor'[e] = editor[e] \/ editor'[e].pc # "save"
    PROVE  VersionInv'
<1>1. TokenVersions'
  BY QuietTokens
<1>2. FamilyVersions'
  <2>1. CASE UNCHANGED family
    BY <2>1 DEF VersionInv, FamilyVersions, Superseded, Still
  <2>2. CASE \E F \in SUBSET Family : Revoke(F)
    BY <2>2, QuietFamilies
  <2> QED BY <2>1, <2>2
<1>3. SignInVersions'
  BY DEF VersionInv, SignInVersions, Superseded, Still
<1>4. EditorVersions'
  BY QuietEditors
<1> QED BY <1>1, <1>2, <1>3, <1>4 DEF VersionInv

\* refresh() signs only for the account of a family that exists.
LEMMA RefreshVersion ==
    ASSUME VersionInv, NEW p \in Refresh, RefreshStep(p)
    PROVE  VersionInv'
<1>1. TypeInv'
  BY RefreshType DEF VersionInv
<1>2. ASSUME NEW f \in Family, Rotate(p, f)
      PROVE  VersionInv'
  BY <1>1, <1>2, QuietVersion DEF Rotate, Still
<1>3. ASSUME CheckSubject(p)
      PROVE  VersionInv'
  <2>1. family[refresh[p].family].account \in Account
    BY <1>3 DEF CheckSubject, VersionInv, TypeInv, RefreshRefs, FamilyRefs
  <2> QED BY <1>1, <1>3, <2>1, QuietVersion DEF CheckSubject, Still
<1>4. ASSUME DenyRefreshAndRevoke(p)
      PROVE  VersionInv'
  <2>1. refresh[p].family \in Family
    BY <1>4 DEF DenyRefreshAndRevoke, VersionInv, TypeInv, RefreshRefs
  <2> QED BY <1>1, <1>4, <2>1, QuietVersion DEF DenyRefreshAndRevoke, Still
<1>5. ASSUME EndRefresh(p)
      PROVE  VersionInv'
  BY <1>1, <1>5, QuietVersion DEF EndRefresh, Still
<1> QED BY <1>2, <1>3, <1>4, <1>5 DEF RefreshStep

\* Raising the version of one account together with its cutoff.
LEMMA RaiseVersion ==
    ASSUME VersionInv, TypeInv', NEW a \in Account, NEW n \in Nat,
           Raised(a, n), UNCHANGED <<family, token, signIn>>, EditorVersions'
    PROVE  VersionInv'
<1>1. TokenVersions'
  <2> SUFFICES ASSUME NEW t \in token
               PROVE  /\ Superseded(t.account, t.authVersion, t.born)'
                      /\ /\ t.account \notin overtaken'
                         /\ t.authVersion = account'[t.account].authVersion
                         => t.roles = account'[t.account].roles
    BY DEF TokenVersions
  <2>1. t.account \in Account /\ t.authVersion \in Nat /\ t.born \in Nat
    BY DEF VersionInv, TypeInv, TypeOK, AccessToken
  <2>2. Superseded(t.account, t.authVersion, t.born)
    BY DEF VersionInv, TokenVersions
  <2>3. /\ Superseded(t.account, t.authVersion, t.born)'
        /\ t.account = a /\ a \notin overtaken' => t.authVersion < n
    BY <2>1, <2>2, RaiseSuperseded DEF VersionInv
  <2>4. t.account \notin overtaken' /\ t.authVersion = account'[t.account].authVersion
           => t.roles = account'[t.account].roles
    <3>1. CASE t.account = a
      BY <2>1, <2>3, <3>1 DEF Raised
    <3>2. CASE t.account # a
      BY <2>1, <3>2 DEF VersionInv, TokenVersions, Raised
    <3> QED BY <3>1, <3>2
  <2> QED BY <2>3, <2>4
<1>2. FamilyVersions'
  <2> SUFFICES ASSUME NEW f \in Family, family[f].status = "active"
               PROVE  Superseded(family[f].account, family[f].authVersion,
                                 family[f].born)'
    BY DEF FamilyVersions
  <2>1. /\ family[f].account \in Account
        /\ family[f].authVersion \in Nat /\ family[f].born \in Nat
    BY DEF VersionInv, TypeInv, TypeOK, FamilyDoc, FamilyRefs
  <2>2. Superseded(family[f].account, family[f].authVersion, family[f].born)
    BY DEF VersionInv, FamilyVersions
  <2> QED BY <2>1, <2>2, RaiseSuperseded DEF VersionInv
<1>3. SignInVersions'
  <2> SUFFICES ASSUME NEW p \in SignIn, signIn[p].account # None
               PROVE  Superseded(signIn[p].account, signIn[p].authVersion,
                                 signIn[p].born)'
    BY DEF SignInVersions
  <2>1. /\ signIn[p].account \in Account
        /\ signIn[p].authVersion \in Nat /\ signIn[p].born \in Nat
    BY DEF VersionInv, TypeInv, TypeOK
  <2>2. Superseded(signIn[p].account, signIn[p].authVersion, signIn[p].born)
    BY DEF VersionInv, SignInVersions
  <2> QED BY <2>1, <2>2, RaiseSuperseded DEF VersionInv
<1> QED BY <1>1, <1>2, <1>3 DEF VersionInv

\* Sign-out everywhere: its increment is one of the document as it is.
LEMMA SignOutVersion ==
    ASSUME VersionInv,
           \/ \E p \in SignOutAll : SignOutAllStep(p)
           \/ \E f \in Family : EndFamily(f)
    PROVE  VersionInv'
<1>1. TypeInv'
  BY SignOutType DEF VersionInv
<1>2. ASSUME NEW f \in Family, EndFamily(f)
      PROVE  VersionInv'
  BY <1>1, <1>2, QuietVersion DEF EndFamily, Still, handlers
<1>3. ASSUME NEW p \in SignOutAll, NEW a \in Account, RevokeSubject(p, a)
      PROVE  VersionInv'
  <2>1. FamiliesOf(a) \in SUBSET Family
    BY DEF FamiliesOf
  <2> QED BY <1>1, <1>3, <2>1, QuietVersion DEF RevokeSubject, Still
<1>4. ASSUME NEW p \in SignOutAll, BumpAuthVersion(p)
      PROVE  VersionInv'
  <2> DEFINE a == signOutAll[p]
             n == account[a].authVersion + 1
  <2>1. a \in Account /\ account[a] \in AccountDoc
    BY <1>4 DEF BumpAuthVersion, VersionInv, TypeInv, TypeOK
  <2>2. account[a].authVersion \in Nat
    BY <2>1 DEF AccountDoc
  <2>3. account' = [account EXCEPT ![a] =
           [account[a] EXCEPT !.authVersion = account[a].authVersion + 1]]
    BY <1>4 DEF BumpAuthVersion
  <2>4. [account[a] EXCEPT !.authVersion = account[a].authVersion + 1].authVersion
           = n
    BY <2>1 DEF AccountDoc
  <2>5. /\ account'[a].authVersion = n
        /\ \A b \in Account \ {a} : account'[b] = account[b]
    BY <2>1, <2>3, <2>4 DEF VersionInv, TypeInv, TypeOK
  <2>6. /\ cutoff' = [cutoff EXCEPT ![a] = @ + 1] /\ UNCHANGED overtaken
        /\ UNCHANGED <<family, token, signIn, editor>>
    BY <1>4 DEF BumpAuthVersion
  <2>7. EditorVersions'
    BY <2>6 DEF VersionInv, EditorVersions
  <2>8. n \in Nat /\ n > account[a].authVersion
    BY <2>2
  <2> HIDE DEF a, n
  <2>9. Raised(a, n)
    BY <2>5, <2>6, <2>8 DEF Raised
  <2> QED BY <1>1, <2>1, <2>6, <2>7, <2>8, <2>9, RaiseVersion
<1>5. ASSUME NEW p \in SignOutAll, EndSignOutAll(p)
      PROVE  VersionInv'
  BY <1>1, <1>5, QuietVersion DEF EndSignOutAll, Still
<1> QED BY <1>2, <1>3, <1>4, <1>5 DEF SignOutAllStep

\* A handler reads the account.
LEMMA EditVersion ==
    ASSUME VersionInv, TypeInv', NEW e \in Editor, NEW a \in Account,
           NEW s, NEW r, NEW bump \in Nat, Edit(e, a, s, r, bump),
           r # None => bump # 0
    PROVE  VersionInv'
<1>1. TokenVersions' /\ FamilyVersions' /\ SignInVersions'
  BY DEF VersionInv, TokenVersions, FamilyVersions, SignInVersions, Superseded,
      Edit
<1>2. EditorVersions'
  BY DEF VersionInv, TypeInv, TypeOK, EditorVersions, Edit
<1> QED BY <1>1, <1>2 DEF VersionInv

\* The account handlers: a save that changes anything that matters raises the
\* version, or the account has lost an increment because somebody else has
\* raised it since it was read.
LEMMA EditorVersion ==
    ASSUME VersionInv, NEW e \in Editor, EditorStep(e)
    PROVE  VersionInv'
<1>1. TypeInv'
  BY EditorType DEF VersionInv
<1>2. ASSUME NEW a \in Staff, NEW s \in AccountStatus \cup {None},
             NEW r \in Roles \cup {None}, NEW m \in BOOLEAN,
             UpdateStaff(e, a, s, r, m)
      PROVE  VersionInv'
  <2> DEFINE sw == Changed(s, account[a].status)
             rw == Changed(r, account[a].roles)
  <2>1. StaffBump(sw, rw, m) \in Nat /\ (rw # None => StaffBump(sw, rw, m) # 0)
    BY DEF StaffBump
  <2>2. Edit(e, a, sw, rw, StaffBump(sw, rw, m)) /\ a \in Account
    BY <1>2 DEF UpdateStaff, Account
  <2> HIDE DEF sw, rw
  <2> QED BY <1>1, <2>1, <2>2, EditVersion
<1>3. ASSUME NEW a \in Member, NEW s \in AccountStatus \cup {None},
             NEW m \in BOOLEAN, UpdateMember(e, a, s, m)
      PROVE  VersionInv'
  <2> DEFINE sw == Changed(s, account[a].status)
  <2>1. MemberBump(sw, m) \in Nat
    BY DEF MemberBump
  <2>2. Edit(e, a, sw, None, MemberBump(sw, m)) /\ a \in Account
    BY <1>3 DEF UpdateMember, Account
  <2> HIDE DEF sw
  <2> QED BY <1>1, <2>1, <2>2, EditVersion
<1>4. ASSUME NEW a \in Member, SetMemberCredentials(e, a)
      PROVE  VersionInv'
  BY <1>1, <1>4, EditVersion DEF SetMemberCredentials, Account
<1>5. ASSUME Save(e)
      PROVE  VersionInv'
  <2> DEFINE q == editor[e]
             old == account[q.account]
             new == [ status |-> IF q.status = None THEN old.status ELSE q.status,
                      roles |-> IF q.roles = None THEN old.roles ELSE q.roles,
                      authVersion |-> IF q.bump = 0 THEN old.authVersion
                                      ELSE q.authVersion + q.bump,
                      revision |-> IF q.roles = None THEN old.revision
                                                     ELSE old.revision + 1 ]
  <2>1. q.account \in Account /\ q.pc = "save"
    BY <1>5 DEF Save, VersionInv, TypeInv, EditorRefs
  <2>2. /\ account' = [account EXCEPT ![q.account] = new]
        /\ UNCHANGED <<family, token, signIn>>
    BY <1>5 DEF Save
  <2>3. /\ account'[q.account] = new
        /\ \A b \in Account \ {q.account} : account'[b] = account[b]
    <3> HIDE DEF q, new
    <3> QED BY <2>1, <2>2 DEF VersionInv, TypeInv, TypeOK
  <2>4. \A d \in Editor : editor'[d] = editor[d] \/ editor'[d].pc # "save"
    <3>1. CASE q.bump = 0
      BY <1>5, <3>1 DEF Save, VersionInv, TypeInv, TypeOK, IdleEditor
    <3>2. CASE q.bump # 0
      <4>1. editor' = [editor EXCEPT ![e] =
               [IdleEditor EXCEPT !.pc = "revoke", !.account = q.account]]
        BY <1>5, <3>2 DEF Save
      <4>2. [IdleEditor EXCEPT !.pc = "revoke", !.account = q.account].pc = "revoke"
        BY DEF IdleEditor
      <4> QED BY <4>1, <4>2 DEF VersionInv, TypeInv, TypeOK
    <3> QED BY <3>1, <3>2
  <2>5. EditorVersions'
    BY <2>4 DEF VersionInv, EditorVersions
  <2>6. /\ q.authVersion \in Nat /\ q.bump \in Nat
        /\ old.authVersion \in Nat
    BY <2>1 DEF VersionInv, TypeInv, TypeOK, EditorState, AccountDoc
  <2>7. CASE q.bump = 0
    <3>1. q.roles = None
      BY <2>1, <2>7 DEF VersionInv, EditorVersions
    <3>2. /\ new.authVersion = old.authVersion /\ new.roles = old.roles
          /\ UNCHANGED <<cutoff, overtaken>>
      BY <1>5, <2>7, <3>1 DEF Save
    <3>3. \A b \in Account : /\ account'[b].authVersion = account[b].authVersion
                             /\ account'[b].roles = account[b].roles
      <4> HIDE DEF q, new
      <4> QED BY <2>3, <3>2
    <3>4. TokenVersions'
      BY <2>2, <3>2, <3>3 DEF VersionInv, TypeInv, TypeOK, AccessToken,
          TokenVersions, Superseded
    <3>5. FamilyVersions'
      BY <2>2, <3>2, <3>3 DEF VersionInv, TypeInv, FamilyRefs, FamilyVersions,
          Superseded
    <3>6. SignInVersions'
      BY <2>2, <3>2, <3>3 DEF VersionInv, TypeInv, TypeOK, SignInVersions,
          Superseded
    <3> QED BY <1>1, <2>5, <3>4, <3>5, <3>6 DEF VersionInv
  <2>8. CASE q.bump # 0
    <3> DEFINE n == q.authVersion + q.bump
    <3>1. /\ cutoff' = [cutoff EXCEPT ![q.account] = @ + 1]
          /\ overtaken' = overtaken \cup
                {a \in {q.account} : old.authVersion # q.authVersion}
          /\ new.authVersion = n
      BY <1>5, <2>8 DEF Save
    <3>2. n \in Nat /\ (old.authVersion = q.authVersion => n > old.authVersion)
      BY <2>6, <2>8
    <3> HIDE DEF q, new, n
    <3>3. Raised(q.account, n)
      BY <2>3, <3>1, <3>2 DEF Raised
    <3> QED BY <1>1, <2>1, <2>2, <2>5, <3>2, <3>3, RaiseVersion
  <2> QED BY <2>7, <2>8
<1>6. ASSUME RevokeSessions(e)
      PROVE  VersionInv'
  <2>1. FamiliesOf(editor[e].account) \in SUBSET Family
    BY DEF FamiliesOf
  <2>2. \A d \in Editor : editor'[d] = editor[d] \/ editor'[d].pc # "save"
    BY <1>6 DEF RevokeSessions, VersionInv, TypeInv, TypeOK, IdleEditor
  <2> QED BY <1>1, <1>6, <2>1, <2>2, QuietVersion DEF RevokeSessions, Still
<1>7. ASSUME EndEdit(e)
      PROVE  VersionInv'
  <2>1. \A d \in Editor : editor'[d] = editor[d] \/ editor'[d].pc # "save"
    BY <1>7 DEF EndEdit, VersionInv, TypeInv, TypeOK, IdleEditor
  <2> QED BY <1>1, <1>7, <2>1, QuietVersion DEF EndEdit, Still
<1> QED BY <1>2, <1>3, <1>4, <1>5, <1>6, <1>7 DEF EditorStep

\* Every step keeps the version invariant.
LEMMA NextVersionInv == VersionInv /\ [Next]_vars => VersionInv'
<1> SUFFICES ASSUME VersionInv, [Next]_vars
             PROVE  VersionInv'
  OBVIOUS
<1>1. CASE UNCHANGED vars
  <2>1. TypeInv'
    BY NextTypeInv DEF VersionInv
  <2> QED BY <1>1, <2>1, QuietVersion DEF vars, handlers, Still
<1> QED BY <1>1, SignInVersion, RefreshVersion, SignOutVersion, EditorVersion
    DEF Next

\* However sign-ins, refreshes, sign-outs everywhere and account handlers
\* overlap or fail, nothing issued before a change of an account is honoured
\* after it, not a token signed by a sign-in or refresh in flight and not a
\* family its revocation missed, unless the save of a version that another
\* handler had raised lost an increment of that account.
THEOREM CredentialsInvalidated == Spec => []StaleCredentialsRejected
<1>1. VersionInv => StaleCredentialsRejected
  <2> SUFFICES ASSUME VersionInv
               PROVE  StaleCredentialsRejected
    OBVIOUS
  <2>1. ASSUME NEW t \in token, t.account \notin overtaken,
               t.born < cutoff[t.account]
        PROVE  ~Valid(t.account, t.authVersion)
    <3>1. t.authVersion < account[t.account].authVersion
      BY <2>1 DEF VersionInv, TokenVersions, Superseded
    <3>2. t.authVersion \in Nat
      BY DEF VersionInv, TypeInv, TypeOK, AccessToken
    <3>3. t.authVersion # account[t.account].authVersion
      BY <3>1, <3>2
    <3> QED BY <3>3 DEF Valid
  <2>2. ASSUME NEW f \in Family, family[f].status = "active",
               family[f].account \notin overtaken,
               family[f].born < cutoff[family[f].account]
        PROVE  ~Valid(family[f].account, family[f].authVersion)
    <3>1. family[f].authVersion < account[family[f].account].authVersion
      BY <2>2 DEF VersionInv, FamilyVersions, Superseded
    <3>2. family[f].authVersion \in Nat
      BY DEF VersionInv, TypeInv, TypeOK, FamilyDoc
    <3>3. family[f].authVersion # account[family[f].account].authVersion
      BY <3>1, <3>2
    <3> QED BY <3>3 DEF Valid
  <2> QED BY <2>1, <2>2 DEF StaleCredentialsRejected
<1> QED BY <1>1, InitVersionInv, NextVersionInv, PTL DEF Spec

\* An accepted staff token carries the permissions of the roles the account has
\* at that moment, unless the account lost an increment.
THEOREM PermissionsCurrent == Spec => []PermissionsFollowRoles
<1>1. VersionInv => PermissionsFollowRoles
  BY DEF VersionInv, TokenVersions, PermissionsFollowRoles, Valid
<1> QED BY <1>1, InitVersionInv, NextVersionInv, PTL DEF Spec

-----------------------------------------------------------------------------
(* Protected requests *)

\* A request is handled for an account, in every step of the sessions beside it.
LEMMA NextRequestTypeInv ==
    TypeInv /\ RequestTypeOK /\ [RequestNext]_requestVars
        => TypeInv' /\ RequestTypeOK'
<1> SUFFICES ASSUME TypeInv, RequestTypeOK, [RequestNext]_requestVars
             PROVE  TypeInv' /\ RequestTypeOK'
  OBVIOUS
<1>1. TypeInv' /\ TypeOK'
  <2>1. [Next]_vars
    BY DEF RequestNext, requestVars, Admit, Answer
  <2> QED BY <2>1, NextTypeInv DEF TypeInv
<1>2. ASSUME NEW q \in Request, NEW t \in token, NEW route \in Route,
             Admit(q, t, route)
      PROVE  RequestTypeOK'
  <2>1. t.account \in Account /\ Entitled(t.account, route) \in BOOLEAN
    BY DEF TypeInv, TypeOK, AccessToken, Entitled
  <2> DEFINE r == [ account |-> t.account, entitled |-> Entitled(t.account, route) ]
  <2>2. r \in RequestState /\ request' = [request EXCEPT ![q] = r]
    BY <1>2, <2>1 DEF Admit, RequestState
  <2> HIDE DEF r
  <2> QED BY <1>1, <2>2 DEF RequestTypeOK
<1>3. ASSUME NEW q \in Request, Answer(q)
      PROVE  RequestTypeOK'
  BY <1>1, <1>3 DEF Answer, RequestTypeOK, RequestState, IdleRequest
<1>4. CASE UNCHANGED request
  BY <1>1, <1>4 DEF RequestTypeOK
<1> QED BY <1>1, <1>2, <1>3, <1>4 DEF RequestNext, requestVars

\* The requests and the sessions beside them keep their types, whatever the
\* account handlers do.
THEOREM RequestTypes == RequestSpec => []RequestTypeOK
<1>1. RequestInit => TypeInv /\ RequestTypeOK
  BY InitTypeInv DEF RequestInit, RequestTypeOK, RequestState, IdleRequest, TypeInv
<1> QED BY <1>1, NextRequestTypeInv, PTL DEF RequestSpec

\* The guards decide from the context, but what they demand of it covers all
\* that the route needs.
LEMMA GuardCoversNeeds ==
    ASSUME NEW context, NEW route \in Route, Allowed(context, route)
    PROVE  route.needs \subseteq context.permissions
<1>1. CASE route.guard = "permissions"
  BY <1>1 DEF Allowed, HasEveryPermission
<1>2. CASE route.guard = "member"
  <2>1. route.needs = {SelfRead}
    BY <1>2 DEF Route
  <2>2. SelfRead \in context.permissions
    BY <1>2 DEF Allowed
  <2> QED BY <2>1, <2>2
<1>3. CASE route.guard = "none"
  BY <1>3 DEF Route
<1> QED BY <1>1, <1>2, <1>3 DEF Route

\* A token that validates carries what the account's roles give it now.
LEMMA ValidPermissions ==
    ASSUME PermissionsFollowRoles, NEW t \in token, t.account \notin overtaken,
           Valid(t.account, t.authVersion)
    PROVE  TokenPermissions(t) = PermissionsOf(t.account, account[t.account].roles)
BY DEF PermissionsFollowRoles, TokenPermissions, PermissionsOf

\* Whoever is admitted is entitled.
LEMMA AdmitEntitled ==
    ASSUME PermissionsFollowRoles,
           NEW q \in Request, NEW t \in token, NEW route \in Route,
           Admit(q, t, route), t.account \notin overtaken
    PROVE  Entitled(t.account, route)
<1>1. Valid(t.account, t.authVersion) /\ Allowed(Context(t), route)
  BY DEF Admit
<1>2. route.needs \subseteq TokenPermissions(t)
  BY <1>1, GuardCoversNeeds DEF Context
<1> QED BY <1>1, <1>2, ValidPermissions DEF Entitled, Valid

\* The inductive invariant: the accounts' own, and the property.
RequestInv ==
    /\ VersionInv
    /\ request \in [Request -> RequestState]
    /\ HandledWithAuthority

\* Nothing is handled before the first request.
LEMMA InitRequestInv == RequestInit => RequestInv
BY InitVersionInv DEF RequestInit, RequestInv, RequestState, HandledWithAuthority,
    IdleRequest

\* An increment that was lost stays lost.
LEMMA OvertakenGrows == [Next]_vars => overtaken \subseteq overtaken'
BY DEF Next, vars, handlers, SignInStep, RefreshStep, SignOutAllStep,
    EditorStep, Authenticate, CreateSession, EndSignIn, Rotate, CheckSubject,
    DenyRefreshAndRevoke, EndRefresh, EndFamily, RevokeSubject, BumpAuthVersion,
    EndSignOutAll, UpdateStaff, UpdateMember, SetMemberCredentials, Edit, Save,
    RevokeSessions, EndEdit

\* Account handlers leave admitted requests alone, and what they do to the
\* account keeps valid tokens in step with its roles.
LEMMA NextRequestInv ==
    RequestInv /\ [RequestNext]_requestVars => RequestInv'
<1> SUFFICES ASSUME RequestInv, [RequestNext]_requestVars
             PROVE  RequestInv'
  OBVIOUS
<1>1. TypeInv /\ PermissionsFollowRoles
  BY DEF RequestInv, VersionInv, TokenVersions, PermissionsFollowRoles, Valid
<1>2. [Next]_vars
  BY DEF RequestNext, requestVars, Admit, Answer
<1>3. VersionInv'
  BY <1>2, NextVersionInv DEF RequestInv
<1>4. ASSUME NEW q \in Request, NEW t \in token, NEW route \in Route,
             Admit(q, t, route)
      PROVE  RequestInv'
  <2> DEFINE r == [ account |-> t.account, entitled |-> Entitled(t.account, route) ]
  <2>1. t.account \notin overtaken => r.entitled
    BY <1>1, <1>4, AdmitEntitled
  <2>2. t.account \in Account /\ Entitled(t.account, route) \in BOOLEAN
    BY <1>1 DEF TypeInv, TypeOK, AccessToken, Entitled
  <2>3. r \in RequestState /\ r.account = t.account
    BY <2>2 DEF RequestState
  <2>4. request' = [request EXCEPT ![q] = r] /\ UNCHANGED overtaken
    BY <1>4 DEF Admit, vars
  <2> HIDE DEF r
  <2> QED BY <1>3, <2>1, <2>3, <2>4 DEF RequestInv, HandledWithAuthority
<1>5. ASSUME NEW q \in Request, Answer(q)
      PROVE  RequestInv'
  BY <1>3, <1>5 DEF Answer, RequestInv, RequestState, HandledWithAuthority,
      IdleRequest, vars
<1>6. CASE UNCHANGED request
  <2>1. overtaken \subseteq overtaken'
    BY <1>2, OvertakenGrows
  <2> QED BY <1>3, <1>6, <2>1 DEF RequestInv, HandledWithAuthority
<1> QED BY <1>4, <1>5, <1>6 DEF RequestNext, requestVars

\* A handler runs only for an account that was active and had every permission
\* of the route when the guard decided, although the guard looks at the token,
\* or for an account that lost an increment.
THEOREM AuthorityCurrent == RequestSpec => []HandledWithAuthority
<1>1. RequestInv => HandledWithAuthority
  BY DEF RequestInv
<1> QED BY <1>1, InitRequestInv, NextRequestInv, PTL DEF RequestSpec

=============================================================================
