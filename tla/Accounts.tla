------------------------------ MODULE Accounts ------------------------------
(***************************************************************************)
(* The users, sessions and sign-ins of the ai-server (app/storage.py and   *)
(* the login handlers of app/main.py).                                     *)
(*                                                                         *)
(* A storage function that writes holds the module's lock and one SQLite   *)
(* transaction, so it is one step.  A sign-in is five such steps (limit    *)
(* check, user row, status read, session row, login record), and any other *)
(* step may come between two of them.  A request is authenticated in a     *)
(* step of its own and acts in a later one.                                *)
(*                                                                         *)
(* The sign-ins modelled come from one network address: the limit looks at *)
(* the login records of one address only.  A user is an e-mail address and *)
(* a provider subject that never part.                                     *)
(***************************************************************************)
EXTENDS Integers, FiniteSets

CONSTANTS
    Users,        \* accounts that may sign in
    SignIns,      \* sign-in attempts; the session of one carries its name
    Requests,     \* slots for requests past require_user
    Nobody,       \* no user
    AccountLimit, \* AUTH_DISTINCT_ACCOUNT_LIMIT_PER_IP
    Window,       \* AUTH_DISTINCT_ACCOUNT_WINDOW_HOURS
    SessionTTL,   \* ttl_days of create_session
    CleanupAge,   \* days of cleanup_old_records
    MaxClock      \* bound on the clock

ASSUME AccountsAssumption ==
    /\ Nobody \notin Users
    /\ AccountLimit \in Nat \ {0} /\ MaxClock \in Nat
    /\ Window \in Nat /\ SessionTTL \in Nat \ {0} /\ CleanupAge \in Nat

VARIABLES
    clock,     \* datetime.now
    users,     \* users.status, "none" where there is no row
    sessions,  \* rows of the sessions table
    signIns,   \* where each sign-in is, and for whom
    logins,    \* rows of auth_login_events
    requests,  \* the user require_user returned to each request in flight
    overtaken, \* history: sign-ins whose status read a revocation followed
    raced      \* history: the overtaken ones that had no session row yet

accountVars ==
    <<clock, users, sessions, signIns, logins, requests, overtaken, raced>>

Statuses == {"none", "active", "disabled", "deleted"}
Stages == {"idle", "checked", "blocked", "upserted", "cleared", "signedIn", "done"}

AccountsTypeOK ==
    /\ clock \in 0..MaxClock
    /\ users \in [Users -> Statuses]
    /\ sessions \subseteq [token: SignIns, user: Users, expires: Nat]
    /\ signIns \in [SignIns -> [stage: Stages, user: Users \cup {Nobody}]]
    /\ logins \subseteq [user: Users, at: 0..MaxClock]
    /\ requests \in [Requests -> Users \cup {Nobody}]
    /\ overtaken \subseteq SignIns
    /\ raced \subseteq overtaken

AccountsInit ==
    /\ clock = 0
    /\ users = [u \in Users |-> "none"]
    /\ sessions = {}
    /\ signIns = [s \in SignIns |-> [stage |-> "idle", user |-> Nobody]]
    /\ logins = {}
    /\ requests = [r \in Requests |-> Nobody]
    /\ overtaken = {}
    /\ raced = {}

Tick ==
    /\ clock < MaxClock
    /\ clock' = clock + 1
    /\ UNCHANGED <<users, sessions, signIns, logins, requests, overtaken, raced>>

-----------------------------------------------------------------------------
(* Signing in: google_callback and dev_login. *)

MoveTo(s, stage) == signIns' = [signIns EXCEPT ![s].stage = stage]

\* The accounts the address has used lately, whatever came of the attempts.
SeenAccounts == {l.user : l \in {m \in logins : m.at >= clock - Window}}

CheckAccountLimit(s, u) ==
    /\ signIns[s].stage = "idle"
    /\ signIns' = [signIns EXCEPT ![s] =
           [stage |-> IF u \in SeenAccounts \/ Cardinality(SeenAccounts) < AccountLimit
                      THEN "checked" ELSE "blocked",
            user  |-> u]]
    /\ UNCHANGED <<clock, users, sessions, logins, requests, overtaken, raced>>

UpsertUser(s) ==
    LET u == signIns[s].user
    IN  /\ signIns[s].stage = "checked"
        /\ IF users[u] \in {"deleted", "disabled"}
           THEN MoveTo(s, "done") /\ UNCHANGED users
           ELSE MoveTo(s, "upserted") /\ users' = [users EXCEPT ![u] = "active"]
        /\ UNCHANGED <<clock, sessions, logins, requests, overtaken, raced>>

\* create_session reads the status before it takes the lock ...
ReadStatus(s) ==
    /\ signIns[s].stage = "upserted"
    /\ MoveTo(s, IF users[signIns[s].user] = "active" THEN "cleared" ELSE "done")
    /\ UNCHANGED <<clock, users, sessions, logins, requests, overtaken, raced>>

\* ... and inserts the row under it.
CreateSession(s) ==
    /\ signIns[s].stage = "cleared"
    /\ sessions' = sessions \cup
           {[token |-> s, user |-> signIns[s].user, expires |-> clock + SessionTTL]}
    /\ MoveTo(s, "signedIn")
    /\ UNCHANGED <<clock, users, logins, requests, overtaken, raced>>

\* The attempt is recorded last, let in or turned away.
RecordLogin(s) ==
    /\ signIns[s].stage \in {"blocked", "signedIn"}
    /\ logins' = logins \cup {[user |-> signIns[s].user, at |-> clock]}
    /\ MoveTo(s, "done")
    /\ UNCHANGED <<clock, users, sessions, requests, overtaken, raced>>

-----------------------------------------------------------------------------
(* Sessions and requests. *)

\* get_user_by_session: the join on the user's status and the expiry.
Admits(t) == users[t.user] = "active" /\ t.expires > clock

Authenticate(r, t) ==
    /\ requests[r] = Nobody
    /\ t \in sessions /\ Admits(t)
    /\ requests' = [requests EXCEPT ![r] = t.user]
    /\ UNCHANGED <<clock, users, sessions, signIns, logins, overtaken, raced>>

\* The request is answered: a conjunct of every action a request takes.
Answer(r) ==
    /\ requests[r] # Nobody
    /\ requests' = [requests EXCEPT ![r] = Nobody]

\* A request that only reads, or is turned down by a later check.
AnswerOnly(r) ==
    /\ Answer(r)
    /\ UNCHANGED <<clock, users, sessions, signIns, logins, overtaken, raced>>

Logout(t) ==
    /\ t \in sessions
    /\ sessions' = sessions \ {t}
    /\ UNCHANGED <<clock, users, signIns, logins, requests, overtaken, raced>>

CleanupOldRecords ==
    /\ sessions' = {t \in sessions : t.expires >= clock - CleanupAge}
    /\ logins' = {l \in logins : l.at >= clock - CleanupAge}
    /\ UNCHANGED <<clock, users, signIns, requests, overtaken, raced>>

-----------------------------------------------------------------------------
(* Ending and reviving accounts. *)

\* Fault: disabling an account leaves its sessions.
RevokeKeepingSessions(u, status) ==
    /\ users' = [users EXCEPT ![u] = status]
    /\ overtaken' = overtaken \cup {s \in SignIns : signIns[s].user = u}
    /\ UNCHANGED <<clock, sessions, signIns, logins, raced>>

\* The account's sessions are deleted with the change of its status.
Revoke(u, status) ==
    LET read == {s \in SignIns : /\ signIns[s].user = u
                                 /\ signIns[s].stage \in {"cleared", "signedIn", "done"}}
    IN  /\ users' = [users EXCEPT ![u] = status]
        /\ sessions' = {t \in sessions : t.user # u}
        /\ overtaken' = overtaken \cup read
        /\ raced' = raced \cup {s \in read : signIns[s].stage = "cleared"}
        /\ UNCHANGED <<clock, signIns, logins>>

DisableUser(u) ==
    /\ users[u] \in {"active", "disabled"}
    /\ Revoke(u, "disabled")
    /\ UNCHANGED requests

EnableUser(u) ==
    /\ users[u] = "disabled"
    /\ users' = [users EXCEPT ![u] = "active"]
    /\ UNCHANGED <<clock, sessions, signIns, logins, requests, overtaken, raced>>

RestoreUser(u) ==
    /\ users[u] = "deleted"
    /\ users' = [users EXCEPT ![u] = "active"]
    /\ UNCHANGED <<clock, sessions, signIns, logins, requests, overtaken, raced>>

\* The account's own part of delete_user_account.
DeleteAccount(r) ==
    /\ Answer(r)
    /\ Revoke(requests[r], "deleted")

\* What does not touch the clusters.
AccountStep ==
    \/ \E s \in SignIns, u \in Users : CheckAccountLimit(s, u)
    \/ \E s \in SignIns :
          \/ UpsertUser(s) \/ ReadStatus(s) \/ CreateSession(s) \/ RecordLogin(s)
    \/ \E r \in Requests : AnswerOnly(r) \/ \E t \in sessions : Authenticate(r, t)
    \/ \E t \in sessions : Logout(t)
    \/ \E u \in Users : DisableUser(u) \/ EnableUser(u) \/ RestoreUser(u)
    \/ CleanupOldRecords
    \/ Tick

AccountsNext == AccountStep \/ \E r \in Requests : DeleteAccount(r)
AccountsSpec == AccountsInit /\ [][AccountsNext]_accountVars

-----------------------------------------------------------------------------
\* Disabling or deleting an account ends its sessions for good: after the
\* account is enabled or restored, a session of before admits no request,
\* except that of a sign-in caught between its status read and its insert,
\* which create_session (storage.py:605) does not rule out.
RevocationEndsSessions ==
    \A t \in sessions : Admits(t) /\ t.token \in overtaken => t.token \in raced
=============================================================================
