---------------------------- MODULE SharedSignIn ----------------------------
(***************************************************************************)
(* The shared sign-in (src/src/auth/auth.service.ts, createSharedSession,  *)
(* behind POST /auth/login and its two compatibility routes) beside an     *)
(* offline repair that is giving accounts new identifiers (OfflineRepair). *)
(*                                                                         *)
(* Clients sign in with the replacement identifier of a batch and the      *)
(* right password.  The handler reads the reservation, then the operation  *)
(* that gates it, then the account, and creates the session at last: the   *)
(* three documents are read at three moments.                              *)
(***************************************************************************)
EXTENDS OfflineRepair

CONSTANT Client         \* concurrent executions of createSharedSession

VARIABLES
    signIn,             \* the handlers
    session             \* history: batches some account of which has a session

signInVars == <<vars, signIn, session>>

SignInState == [ pc : {"idle", "gate", "account", "session", "event"}, at : Batch ]

IdleSignIn == [ pc |-> "idle", at |-> 1 ]

SignInTypeOK ==
    /\ TypeOK
    /\ signIn \in [Client -> SignInState]
    /\ session \subseteq Batch

SignInInit ==
    /\ Init
    /\ signIn = [c \in Client |-> IdleSignIn]
    /\ session = {}

-----------------------------------------------------------------------------

\* recordFailedSignIn: an event that no decision reads, then 401.
Deny(c) == signIn' = [signIn EXCEPT ![c] = IdleSignIn]

\* The handler goes on if the check passes; otherwise the request is denied.
Check(c, passes, next) ==
    /\ IF passes THEN signIn' = [signIn EXCEPT ![c].pc = next] ELSE Deny(c)
    /\ UNCHANGED <<vars, session>>

\* resolveSharedIdentifier: an active reservation and its subject.
ResolveIdentifier(c, b) ==
    /\ signIn[c].pc = "idle"
    /\ target[b].status = "active"
    /\ signIn' = [signIn EXCEPT ![c] =
          [ pc |-> IF target[b].gated THEN "gate" ELSE "account", at |-> b ]]
    /\ UNCHANGED <<vars, session>>

\* Mutant: any repair that is over opens its gate.
GateSettled == op.status \in Terminal

GateCompleted == op.status = "completed"

\* An operation that has expired may be gone already.
AssertActivationGateCompleted(c) ==
    /\ signIn[c].pc = "gate"
    /\ \/ Check(c, GateCompleted, "account")
       \/ op.expires /\ Check(c, FALSE, "account")

\* authenticateReservedStaff, authenticateReservedMember: the account found by
\* the identifier must be the one of the reservation; touchLastLogin.
AuthenticateReserved(c) ==
    /\ signIn[c].pc = "account"
    /\ Check(c, account[signIn[c].at] = "replacement", "session")

\* createFamily
CreateFamily(c) ==
    /\ signIn[c].pc = "session"
    /\ session' = session \cup {signIn[c].at}
    /\ signIn' = [signIn EXCEPT ![c].pc = "event"]
    /\ UNCHANGED vars

\* The success is recorded and answered.
RecordSuccess(c) ==
    /\ signIn[c].pc = "event"
    /\ signIn' = [signIn EXCEPT ![c] = IdleSignIn]
    /\ UNCHANGED <<vars, session>>

\* The password is wrong, a call fails or the instance dies.
FailSignIn(c) ==
    /\ signIn[c].pc # "idle"
    /\ signIn' = [signIn EXCEPT ![c] = IdleSignIn]
    /\ UNCHANGED <<vars, session>>

SignInStep(c) ==
    \/ \E b \in Batch : ResolveIdentifier(c, b)
    \/ AssertActivationGateCompleted(c) \/ AuthenticateReserved(c)
    \/ CreateFamily(c) \/ RecordSuccess(c) \/ FailSignIn(c)

SignInNext ==
    \/ Next /\ UNCHANGED <<signIn, session>>
    \/ \E c \in Client : SignInStep(c)

SignInSpec == SignInInit /\ [][SignInNext]_signInVars

-----------------------------------------------------------------------------
(* Correctness *)

\* No session is ever created with an identifier of a repair that is not, or
\* never will be, completed: not while batches are activated one by one, not
\* after a cancellation or after the reconciliation job gave the repair up with
\* batches active, and not by a sign-in that read the reservation before and the
\* account after (plan.md:25: replacements "cannot authenticate until one bounded
\* parent-completion transaction unlocks the repair").
NoEarlySession == session # {} => op.status = "completed"

=============================================================================
