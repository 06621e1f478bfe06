---------------------------- MODULE ClusterProofs ----------------------------
(***************************************************************************)
(* Proofs about Accounts and Clusters, for any number of users, sign-ins,  *)
(* requests, clusters and handlers, any retention and any bounds.          *)
(***************************************************************************)
EXTENDS Clusters, TLAPS

-----------------------------------------------------------------------------
(* Accounts: types. *)

SignIn == [stage: Stages, user: Users \cup {Nobody}]

\* A sign-in under way is somebody's.
SignInsAreForUsers == \A s \in SignIns : signIns[s].stage # "idle" => signIns[s].user \in Users

AccountTypes == AccountsTypeOK /\ SignInsAreForUsers

LEMMA Names ==
  /\ "idle" \in Stages /\ "checked" \in Stages /\ "blocked" \in Stages /\ "upserted" \in Stages
  /\ "cleared" \in Stages /\ "signedIn" \in Stages /\ "done" \in Stages
  /\ "none" \in Statuses /\ "active" \in Statuses /\ "disabled" \in Statuses
  /\ "deleted" \in Statuses
  BY DEF Stages, Statuses

LEMMA AccountsInitTypes == AccountsInit => AccountTypes
<1> SUFFICES ASSUME AccountsInit PROVE AccountTypes
  OBVIOUS
<1>1. AccountsTypeOK
  BY Names, AccountsAssumption DEF AccountsAssumption, AccountsInit, AccountsTypeOK
<1>2. SignInsAreForUsers
  BY DEF AccountsInit, SignInsAreForUsers
<1> QED
  BY <1>1, <1>2 DEF AccountTypes

\* A sign-in that goes on stays the same user's.
LEMMA MoveToTypes ==
  ASSUME AccountTypes, NEW s \in SignIns, signIns[s].stage # "idle",
         NEW stage \in Stages, MoveTo(s, stage)
  PROVE  signIns' \in [SignIns -> SignIn] /\ SignInsAreForUsers'
<1>1. signIns \in [SignIns -> SignIn]
  BY DEF AccountTypes, AccountsTypeOK, SignIn
<1>2. signIns' \in [SignIns -> SignIn]
  BY <1>1 DEF MoveTo, SignIn
<1>3. \A x \in SignIns : /\ signIns'[x].user = signIns[x].user
                         /\ x # s => signIns'[x].stage = signIns[x].stage
  BY <1>1 DEF MoveTo, SignIn
<1>4. SignInsAreForUsers'
  BY <1>3 DEF AccountTypes, SignInsAreForUsers
<1> QED
  BY <1>2, <1>4

LEMMA CheckAccountLimitTypes ==
  ASSUME AccountTypes, NEW s \in SignIns, NEW u \in Users, CheckAccountLimit(s, u)
  PROVE  AccountTypes'
<1>1. PICK stage \in {"checked", "blocked"} :
        signIns' = [signIns EXCEPT ![s] = [stage |-> stage, user |-> u]]
  BY DEF CheckAccountLimit
<1>2. signIns' \in [SignIns -> SignIn]
  BY <1>1, Names DEF AccountTypes, AccountsTypeOK, SignIn
<1>3. SignInsAreForUsers'
  BY <1>1 DEF AccountTypes, AccountsTypeOK, SignInsAreForUsers
<1> QED
  BY <1>2, <1>3 DEF CheckAccountLimit, AccountTypes, AccountsTypeOK, SignIn

LEMMA UpsertUserTypes ==
  ASSUME AccountTypes, NEW s \in SignIns, UpsertUser(s)
  PROVE  AccountTypes'
<1>1. signIns[s].stage # "idle" /\ (MoveTo(s, "done") \/ MoveTo(s, "upserted"))
  BY DEF UpsertUser
<1>2. signIns' \in [SignIns -> SignIn] /\ SignInsAreForUsers'
  BY <1>1, Names, MoveToTypes
<1>3. users' \in [Users -> Statuses]
  BY Names DEF UpsertUser, AccountTypes, AccountsTypeOK
<1> QED
  BY <1>2, <1>3 DEF UpsertUser, AccountTypes, AccountsTypeOK, SignIn

LEMMA ReadStatusTypes ==
  ASSUME AccountTypes, NEW s \in SignIns, ReadStatus(s)
  PROVE  AccountTypes'
<1>1. signIns[s].stage # "idle" /\ (MoveTo(s, "done") \/ MoveTo(s, "cleared"))
  BY DEF ReadStatus
<1>2. signIns' \in [SignIns -> SignIn] /\ SignInsAreForUsers'
  BY <1>1, Names, MoveToTypes
<1> QED
  BY <1>2 DEF ReadStatus, AccountTypes, AccountsTypeOK, SignIn

LEMMA CreateSessionTypes ==
  ASSUME AccountTypes, NEW s \in SignIns, CreateSession(s)
  PROVE  AccountTypes'
<1>1. signIns[s].stage # "idle" /\ MoveTo(s, "signedIn")
  BY DEF CreateSession
<1>2. signIns' \in [SignIns -> SignIn] /\ SignInsAreForUsers'
  BY <1>1, Names, MoveToTypes
<1>3. [token |-> s, user |-> signIns[s].user, expires |-> clock + SessionTTL]
         \in [token: SignIns, user: Users, expires: Nat]
  BY <1>1, AccountsAssumption
  DEF AccountsAssumption, AccountTypes, AccountsTypeOK, SignInsAreForUsers
<1> QED
  BY <1>2, <1>3 DEF CreateSession, AccountTypes, AccountsTypeOK, SignIn

LEMMA RecordLoginTypes ==
  ASSUME AccountTypes, NEW s \in SignIns, RecordLogin(s)
  PROVE  AccountTypes'
<1>1. signIns[s].stage # "idle" /\ MoveTo(s, "done")
  BY DEF RecordLogin
<1>2. signIns' \in [SignIns -> SignIn] /\ SignInsAreForUsers'
  BY <1>1, Names, MoveToTypes
<1>3. [user |-> signIns[s].user, at |-> clock] \in [user: Users, at: 0..MaxClock]
  BY <1>1 DEF AccountTypes, AccountsTypeOK, SignInsAreForUsers
<1> QED
  BY <1>2, <1>3 DEF RecordLogin, AccountTypes, AccountsTypeOK, SignIn

LEMMA RevokeTypes ==
  ASSUME AccountTypes, NEW u, NEW status \in Statuses, Revoke(u, status),
         requests' \in [Requests -> Users \cup {Nobody}]
  PROVE  AccountTypes'
<1>1. users' \in [Users -> Statuses] /\ sessions' \subseteq sessions
  BY DEF Revoke, AccountTypes, AccountsTypeOK
<1>2. overtaken' \subseteq SignIns /\ raced' \subseteq overtaken'
  BY DEF Revoke, AccountTypes, AccountsTypeOK
<1> QED
  BY <1>1, <1>2 DEF Revoke, AccountTypes, AccountsTypeOK, SignInsAreForUsers

LEMMA AnswerTypes ==
  ASSUME AccountTypes, NEW r \in Requests, Answer(r)
  PROVE  requests' \in [Requests -> Users \cup {Nobody}] /\ requests[r] \in Users
  BY DEF Answer, AccountTypes, AccountsTypeOK

LEMMA AccountStepTypes == AccountTypes /\ AccountStep => AccountTypes'
<1> SUFFICES ASSUME AccountTypes, AccountStep PROVE AccountTypes'
  OBVIOUS
<1>1. ASSUME NEW s \in SignIns, NEW u \in Users, CheckAccountLimit(s, u) PROVE AccountTypes'
  BY <1>1, CheckAccountLimitTypes
<1>2. ASSUME NEW s \in SignIns,
             UpsertUser(s) \/ ReadStatus(s) \/ CreateSession(s) \/ RecordLogin(s)
      PROVE  AccountTypes'
  BY <1>2, UpsertUserTypes, ReadStatusTypes, CreateSessionTypes, RecordLoginTypes
<1>3. ASSUME NEW r \in Requests, AnswerOnly(r) PROVE AccountTypes'
  BY <1>3, AnswerTypes DEF AnswerOnly, AccountTypes, AccountsTypeOK, SignInsAreForUsers
<1>4. ASSUME NEW r \in Requests, NEW t \in sessions, Authenticate(r, t) PROVE AccountTypes'
  BY <1>4 DEF Authenticate, AccountTypes, AccountsTypeOK, SignInsAreForUsers
<1>5. ASSUME NEW t \in sessions, Logout(t) PROVE AccountTypes'
  BY <1>5 DEF Logout, AccountTypes, AccountsTypeOK, SignInsAreForUsers
<1>6. ASSUME NEW u \in Users, DisableUser(u) PROVE AccountTypes'
  BY <1>6, Names, RevokeTypes DEF DisableUser, AccountTypes, AccountsTypeOK
<1>7. ASSUME NEW u \in Users, EnableUser(u) \/ RestoreUser(u) PROVE AccountTypes'
  BY <1>7, Names DEF EnableUser, RestoreUser, AccountTypes, AccountsTypeOK, SignInsAreForUsers
<1>8. CASE CleanupOldRecords
  BY <1>8 DEF CleanupOldRecords, AccountTypes, AccountsTypeOK, SignInsAreForUsers
<1>9. CASE Tick
  BY <1>9, AccountsAssumption
  DEF AccountsAssumption, Tick, AccountTypes, AccountsTypeOK, SignInsAreForUsers
<1> QED
  BY <1>1, <1>2, <1>3, <1>4, <1>5, <1>6, <1>7, <1>8, <1>9 DEF AccountStep

-----------------------------------------------------------------------------
(* Accounts: revoked sessions. *)

\* A session belongs to the sign-in it is named after.
SessionsHaveSignIns ==
    \A t \in sessions : /\ signIns[t.token].user = t.user
                        /\ signIns[t.token].stage \in {"signedIn", "done"}

\* A sign-in was overtaken after its status read, and what is overtaken
\* before its insert is known to have been.
OvertakenHaveRead ==
    \A s \in overtaken : /\ signIns[s].stage \in {"cleared", "signedIn", "done"}
                         /\ signIns[s].stage = "cleared" => s \in raced

\* The sessions that outlive a revocation, also while the account is off.
OnlyRacedOutlive == \A t \in sessions : t.token \in overtaken => t.token \in raced

RevocationInv ==
    AccountTypes /\ SessionsHaveSignIns /\ OvertakenHaveRead /\ OnlyRacedOutlive

LEMMA RevocationInitInv == AccountsInit => RevocationInv
<1> SUFFICES ASSUME AccountsInit PROVE RevocationInv
  OBVIOUS
<1>1. SessionsHaveSignIns /\ OvertakenHaveRead /\ OnlyRacedOutlive
  BY DEF AccountsInit, SessionsHaveSignIns, OvertakenHaveRead, OnlyRacedOutlive
<1> QED
  BY <1>1, AccountsInitTypes DEF RevocationInv

\* A step of the sign-in s that leaves the sessions alone: one that has read
\* the status goes on to "signedIn" or "done" only.
LEMMA SignInStepInv ==
  ASSUME RevocationInv, UNCHANGED <<sessions, overtaken, raced>>, NEW s \in SignIns,
         \A x \in SignIns \ {s} : signIns'[x] = signIns[x],
         signIns[s].stage \in {"cleared", "signedIn", "done"} =>
             /\ signIns[s].stage # "cleared"
             /\ signIns'[s].stage \in {"signedIn", "done"}
             /\ signIns'[s].user = signIns[s].user
  PROVE  SessionsHaveSignIns' /\ OvertakenHaveRead' /\ OnlyRacedOutlive'
<1>1. /\ \A t \in sessions : t.token \in SignIns
      /\ overtaken \subseteq SignIns
  BY DEF RevocationInv, AccountTypes, AccountsTypeOK
<1>2. SessionsHaveSignIns'
  BY <1>1 DEF RevocationInv, SessionsHaveSignIns
<1>3. OvertakenHaveRead'
  BY <1>1 DEF RevocationInv, OvertakenHaveRead
<1>4. OnlyRacedOutlive'
  BY DEF RevocationInv, OnlyRacedOutlive
<1> QED
  BY <1>2, <1>3, <1>4

LEMMA MoveToOne ==
  ASSUME AccountTypes, NEW s \in SignIns, NEW stage, MoveTo(s, stage)
  PROVE  /\ signIns'[s] = [stage |-> stage, user |-> signIns[s].user]
         /\ \A x \in SignIns \ {s} : signIns'[x] = signIns[x]
  BY DEF AccountTypes, AccountsTypeOK, MoveTo

LEMMA CreateSessionInv ==
  ASSUME RevocationInv, NEW s \in SignIns, CreateSession(s)
  PROVE  SessionsHaveSignIns' /\ OvertakenHaveRead' /\ OnlyRacedOutlive'
<1> DEFINE new == [token |-> s, user |-> signIns[s].user, expires |-> clock + SessionTTL]
<1>1. /\ signIns[s].stage = "cleared" /\ sessions' = sessions \cup {new}
      /\ MoveTo(s, "signedIn") /\ overtaken' = overtaken /\ raced' = raced
  BY DEF CreateSession
<1>2. /\ signIns'[s] = [stage |-> "signedIn", user |-> signIns[s].user]
      /\ \A x \in SignIns \ {s} : signIns'[x] = signIns[x]
  BY <1>1, MoveToOne DEF RevocationInv
<1>3. /\ \A t \in sessions : t.token \in SignIns
      /\ overtaken \subseteq SignIns
  BY DEF RevocationInv, AccountTypes, AccountsTypeOK
<1>4. SessionsHaveSignIns'
  BY <1>1, <1>2, <1>3 DEF RevocationInv, SessionsHaveSignIns
<1>5. OvertakenHaveRead'
  BY <1>1, <1>2, <1>3 DEF RevocationInv, OvertakenHaveRead
<1>6. s \in overtaken => s \in raced
  BY <1>1 DEF RevocationInv, OvertakenHaveRead
<1>7. OnlyRacedOutlive'
  BY <1>1, <1>6 DEF RevocationInv, OnlyRacedOutlive
<1> QED
  BY <1>4, <1>5, <1>7

\* The sessions of the account are gone, and its sign-ins that have read the
\* status are overtaken, the ones without a session row as raced.
LEMMA RevokeInv ==
  ASSUME RevocationInv, NEW u, NEW status, Revoke(u, status)
  PROVE  SessionsHaveSignIns' /\ OvertakenHaveRead' /\ OnlyRacedOutlive'
<1> DEFINE read == {s \in SignIns : /\ signIns[s].user = u
                                    /\ signIns[s].stage \in {"cleared", "signedIn", "done"}}
<1>1. /\ sessions' = {t \in sessions : t.user # u} /\ signIns' = signIns
      /\ overtaken' = overtaken \cup read
      /\ raced' = raced \cup {s \in read : signIns[s].stage = "cleared"}
  BY DEF Revoke
<1>2. SessionsHaveSignIns'
  BY <1>1 DEF RevocationInv, SessionsHaveSignIns
<1>3. OvertakenHaveRead'
  BY <1>1 DEF RevocationInv, OvertakenHaveRead
<1>4. \A t \in sessions' : t.token \notin read
  BY <1>1 DEF RevocationInv, SessionsHaveSignIns
<1>5. OnlyRacedOutlive'
  BY <1>1, <1>4 DEF RevocationInv, OnlyRacedOutlive
<1> QED
  BY <1>2, <1>3, <1>5

LEMMA AccountStepInv == RevocationInv /\ AccountStep => RevocationInv'
<1> SUFFICES ASSUME RevocationInv, AccountStep
             PROVE  SessionsHaveSignIns' /\ OvertakenHaveRead' /\ OnlyRacedOutlive'
  BY AccountStepTypes DEF RevocationInv
<1> DEFINE Goal == SessionsHaveSignIns' /\ OvertakenHaveRead' /\ OnlyRacedOutlive'
<1>1. ASSUME NEW s \in SignIns, NEW u \in Users, CheckAccountLimit(s, u) PROVE Goal
  <2>1. \A x \in SignIns \ {s} : signIns'[x] = signIns[x]
    BY <1>1 DEF CheckAccountLimit, RevocationInv, AccountTypes, AccountsTypeOK
  <2> QED
    BY <1>1, <2>1, SignInStepInv DEF CheckAccountLimit
<1>2. ASSUME NEW s \in SignIns, UpsertUser(s) \/ ReadStatus(s) PROVE Goal
  <2>1. PICK stage \in Stages : MoveTo(s, stage)
    BY <1>2, Names DEF UpsertUser, ReadStatus
  <2> QED
    BY <1>2, <2>1, MoveToOne, SignInStepInv DEF UpsertUser, ReadStatus, RevocationInv
<1>3. ASSUME NEW s \in SignIns, CreateSession(s) PROVE Goal
  BY <1>3, CreateSessionInv
<1>4. ASSUME NEW s \in SignIns, RecordLogin(s) PROVE Goal
  <2>1. MoveTo(s, "done")
    BY <1>4 DEF RecordLogin
  <2>2. /\ signIns'[s] = [stage |-> "done", user |-> signIns[s].user]
        /\ \A x \in SignIns \ {s} : signIns'[x] = signIns[x]
    BY <2>1, MoveToOne DEF RevocationInv
  <2> QED
    BY <1>4, <2>2, SignInStepInv DEF RecordLogin
<1>5. CASE UNCHANGED <<sessions, signIns, overtaken, raced>>
  BY <1>5 DEF RevocationInv, SessionsHaveSignIns, OvertakenHaveRead, OnlyRacedOutlive
<1>6. CASE sessions' \subseteq sessions /\ UNCHANGED <<signIns, overtaken, raced>>
  BY <1>6 DEF RevocationInv, SessionsHaveSignIns, OvertakenHaveRead, OnlyRacedOutlive
<1>7. ASSUME NEW u \in Users, DisableUser(u) PROVE Goal
  BY <1>7, RevokeInv DEF DisableUser
<1>8. ASSUME NEW r \in Requests, AnswerOnly(r) \/ \E t \in sessions : Authenticate(r, t)
      PROVE  Goal
  BY <1>5, <1>8 DEF AnswerOnly, Authenticate
<1>9. ASSUME NEW u \in Users, EnableUser(u) \/ RestoreUser(u) PROVE Goal
  BY <1>5, <1>9 DEF EnableUser, RestoreUser
<1>10. ASSUME NEW t \in sessions, Logout(t) PROVE Goal
  BY <1>6, <1>10 DEF Logout
<1>11. CASE CleanupOldRecords
  BY <1>6, <1>11 DEF CleanupOldRecords
<1>12. CASE Tick
  BY <1>5, <1>12 DEF Tick
<1> QED
  BY <1>1, <1>2, <1>3, <1>4, <1>7, <1>8, <1>9, <1>10, <1>11, <1>12 DEF AccountStep

LEMMA DeleteAccountInv ==
  ASSUME RevocationInv, NEW r \in Requests, DeleteAccount(r)
  PROVE  RevocationInv'
<1>1. AccountTypes'
  BY Names, AnswerTypes, RevokeTypes DEF RevocationInv, DeleteAccount
<1>2. SessionsHaveSignIns' /\ OvertakenHaveRead' /\ OnlyRacedOutlive'
  BY RevokeInv DEF DeleteAccount
<1> QED
  BY <1>1, <1>2 DEF RevocationInv

LEMMA RevocationAlways == AccountsSpec => []RevocationInv
<1>1. RevocationInv /\ [AccountsNext]_accountVars => RevocationInv'
  <2>1. RevocationInv /\ UNCHANGED accountVars => RevocationInv'
    BY DEF RevocationInv, AccountTypes, AccountsTypeOK, SignInsAreForUsers,
           SessionsHaveSignIns, OvertakenHaveRead, OnlyRacedOutlive, accountVars
  <2> QED
    BY <2>1, AccountStepInv, DeleteAccountInv DEF AccountsNext
<1> QED
  BY <1>1, RevocationInitInv, PTL DEF AccountsSpec

\* A disabled or deleted account's sessions are ended for good, but for those
\* of sign-ins caught between create_session's status read and its insert
\* (app/storage.py, create_session, disable_user, delete_user_account), for
\* any number of users and of sign-ins under way.
THEOREM RevocationsEndSessions == AccountsSpec => []RevocationEndsSessions
<1>1. RevocationInv => RevocationEndsSessions
  BY DEF RevocationInv, OnlyRacedOutlive, RevocationEndsSessions
<1> QED
  BY <1>1, RevocationAlways, PTL

-----------------------------------------------------------------------------
(* Clusters: types. *)

\* A mapping, saved or to be, is a user's.
IsOfUser(x) == x.table = "mappings" => x.user \in Users

WriterStates ==
    {x \in [stage: {"idle", "found", "saved"}, table: Tables, cluster: ClusterIds,
            user: Users \cup {Nobody}] : IsOfUser(x)}
Records ==
    {x \in [table: Tables, cluster: ClusterIds, user: Users \cup {Nobody}, late: BOOLEAN] :
        IsOfUser(x)}

ClusterTypes ==
    /\ clusters \in [ClusterIds -> Rows]
    /\ issued \in [ClusterIds -> 0..MaxTokens]
    /\ revoked \in [ClusterIds -> 0..MaxTokens]
    /\ trashedAt \in [ClusterIds -> 0..MaxClock]
    /\ writers \in [Writers -> WriterStates]
    /\ stored \subseteq Records

\* What is true of the clock and of the user of a request in every state.
Now == clock \in 0..MaxClock

\* The operations on the cluster c, and what they need to know.
Operation(c) ==
    \/ \E owner \in Users \cup {Nobody} : Create(c, owner)
    \/ RotateToken(c) \/ Disable(c) \/ Enable(c) \/ Trash(c) \/ Restore(c)
    \/ PermanentlyDelete(c)

RowStatuses == Present \cup {"none", "purged", "erased"}

LEMMA RowType ==
  ASSUME NEW status \in RowStatuses, NEW owner \in Users \cup {Nobody},
         NEW token \in 0..MaxTokens, NEW at \in -1..MaxClock, NEW seen \in Stamps \cup {NotSeen}
  PROVE  [status |-> status, owner |-> owner, token |-> token,
          deletedAt |-> at, lastSeen |-> seen] \in Rows
  BY DEF Rows, RowStatuses

LEMMA ReopenedType ==
  ASSUME NEW row \in Rows, NEW status \in RowStatuses, NEW at \in -1..MaxClock
  PROVE  /\ [row EXCEPT !.status = status] \in Rows
         /\ [row EXCEPT !.status = status, !.deletedAt = at] \in Rows
  BY DEF Rows, RowStatuses

LEMMA Defaults ==
  /\ NoToken \in 0..MaxTokens /\ Never \in -1..MaxClock /\ NotSeen \in Stamps \cup {NotSeen}
  /\ \A at \in 0..MaxClock : at \in -1..MaxClock /\ at # Never
  /\ {"active", "disabled", "deleted", "none", "purged", "erased"} \subseteq RowStatuses
  BY AccountsAssumption, ClustersAssumption
  DEF AccountsAssumption, ClustersAssumption, NoToken, Never, NotSeen, RowStatuses, Present

LEMMA TheRow ==
  /\ NoRow \in Rows
  /\ \A how \in {"purged", "erased"} : [NoRow EXCEPT !.status = how] \in Rows
<1>1. NoRow \in Rows
  BY RowType, Defaults DEF NoRow
<1>2. ASSUME NEW how \in {"purged", "erased"} PROVE [NoRow EXCEPT !.status = how] \in Rows
  <2>1. [NoRow EXCEPT !.status = how] =
           [status |-> how, owner |-> Nobody, token |-> NoToken,
            deletedAt |-> Never, lastSeen |-> NotSeen]
    BY DEF NoRow
  <2> QED
    BY <2>1, RowType, Defaults
<1> QED
  BY <1>1, <1>2

LEMMA RestingType == Resting \in WriterStates
<1>1. (CHOOSE c \in ClusterIds : TRUE) \in ClusterIds
  BY ClustersAssumption DEF ClustersAssumption
<1> QED
  BY <1>1 DEF Resting, WriterStates, Tables, IsOfUser

LEMMA TrashedRowType ==
  ASSUME NEW row \in Rows, NEW at \in -1..MaxClock
  PROVE  TrashedRow(row, at) \in Rows
<1>1. "deleted" \in RowStatuses /\ NoToken \in 0..MaxTokens
  BY Defaults
<1> QED
  BY <1>1 DEF TrashedRow, Rows, RowStatuses

LEMMA NoteTrashedTypes ==
  ASSUME ClusterTypes, Now, NEW cs, NoteTrashed(cs)
  PROVE  /\ revoked' \in [ClusterIds -> 0..MaxTokens]
         /\ trashedAt' \in [ClusterIds -> 0..MaxClock]
  BY DEF ClusterTypes, Now, NoteTrashed

LEMMA FreshTokenTypes ==
  ASSUME ClusterTypes, NEW c \in ClusterIds, FreshToken(c)
  PROVE  /\ issued' \in [ClusterIds -> 0..MaxTokens]
         /\ issued[c] + 1 \in 1..MaxTokens
  BY ClustersAssumption DEF ClustersAssumption, ClusterTypes, FreshToken

LEMMA RemoveTypes ==
  ASSUME ClusterTypes, NEW cs, NEW how \in {"purged", "erased"}, RemoveRows(cs, how)
  PROVE  ClusterTypes'
<1>1. clusters' \in [ClusterIds -> Rows]
  BY TheRow DEF RemoveRows, ClusterTypes
<1> QED
  BY <1>1 DEF RemoveRows, ClusterTypes

LEMMA OperationTypes ==
  ASSUME ClusterTypes, Now, NEW c \in ClusterIds, Operation(c)
  PROVE  ClusterTypes'
<1> USE DEF ClusterTypes
<1>1. ASSUME NEW owner \in Users \cup {Nobody}, Create(c, owner) PROVE ClusterTypes'
  <2>1. issued[c] + 1 \in 0..MaxTokens
    BY <1>1, FreshTokenTypes DEF Create
  <2>2. [status |-> "active", owner |-> owner, token |-> issued[c] + 1,
         deletedAt |-> Never, lastSeen |-> NotSeen] \in Rows
    BY <2>1, RowType, Defaults
  <2>3. clusters' \in [ClusterIds -> Rows]
    BY <1>1, <2>2 DEF Create
  <2> QED
    BY <1>1, <2>3, FreshTokenTypes DEF Create
<1>2. CASE RotateToken(c)
  <2>1. issued[c] + 1 \in 0..MaxTokens /\ issued[c] \in 0..MaxTokens
    BY <1>2, FreshTokenTypes DEF RotateToken
  <2>2. clusters[c].owner \in Users \cup {Nobody} /\ clusters[c].lastSeen \in Stamps \cup {NotSeen}
    BY DEF Rows
  <2>3. [status |-> "active", owner |-> clusters[c].owner, token |-> issued[c] + 1,
         deletedAt |-> Never, lastSeen |-> clusters[c].lastSeen] \in Rows
    BY <2>1, <2>2, RowType, Defaults
  <2>4. clusters' \in [ClusterIds -> Rows]
    BY <1>2, <2>3 DEF RotateToken
  <2> QED
    BY <1>2, <2>1, <2>4, FreshTokenTypes DEF RotateToken
<1>3. CASE Disable(c) \/ Enable(c) \/ Restore(c)
  <2>1. clusters' \in [ClusterIds -> Rows]
    <3>1. PICK row \in Rows : clusters' = [clusters EXCEPT ![c] = row]
      <4>1. {"active", "disabled"} \subseteq RowStatuses /\ Never \in -1..MaxClock
        BY Defaults
      <4> DEFINE ready == [clusters[c] EXCEPT !.status = "active", !.deletedAt = Never]
                 idle  == [clusters[c] EXCEPT !.status = "disabled"]
                 back  == [clusters[c] EXCEPT !.status = "disabled", !.deletedAt = Never]
      <4>2. ready \in Rows /\ idle \in Rows /\ back \in Rows
        BY <4>1, ReopenedType
      <4>3. \/ clusters' = [clusters EXCEPT ![c] = ready]
            \/ clusters' = [clusters EXCEPT ![c] = idle]
            \/ clusters' = [clusters EXCEPT ![c] = back]
        BY <1>3 DEF Disable, Enable, Restore
      <4> HIDE DEF ready, idle, back
      <4> QED
        BY <4>2, <4>3
    <3> QED
      BY <3>1
  <2> QED
    BY <1>3, <2>1 DEF Disable, Enable, Restore
<1>4. CASE Trash(c)
  <2>1. clusters' \in [ClusterIds -> Rows]
    BY <1>4, TrashedRowType, Defaults DEF Trash, Now
  <2> QED
    BY <1>4, <2>1, NoteTrashedTypes DEF Trash
<1>5. CASE PermanentlyDelete(c)
  BY <1>5, RemoveTypes DEF PermanentlyDelete
<1> QED
  BY <1>1, <1>2, <1>3, <1>4, <1>5 DEF Operation

LEMMA DeleteUserAccountTypes ==
  ASSUME ClusterTypes, Now, NEW r \in Requests, DeleteUserAccount(r)
  PROVE  ClusterTypes'
<1> DEFINE own == {c \in ClusterIds : /\ clusters[c].status \in Present
                                      /\ clusters[c].owner = requests[r]}
           at(c) == IF clusters[c].deletedAt = Never THEN clock ELSE clusters[c].deletedAt
<1>1. /\ clusters' = [c \in ClusterIds |->
             IF c \notin own THEN clusters[c] ELSE TrashedRow(clusters[c], at(c))]
      /\ NoteTrashed(own)
      /\ UNCHANGED <<issued, writers>> /\ stored' \subseteq stored
  BY DEF DeleteUserAccount
<1>2. ASSUME NEW c \in ClusterIds PROVE TrashedRow(clusters[c], at(c)) \in Rows
  <2>1. clusters[c] \in Rows /\ at(c) \in -1..MaxClock
    BY Defaults DEF ClusterTypes, Now, Rows
  <2> QED
    BY <2>1, TrashedRowType
<1>3. clusters' \in [ClusterIds -> Rows]
  BY <1>1, <1>2 DEF ClusterTypes
<1> QED
  BY <1>1, <1>3, NoteTrashedTypes DEF ClusterTypes

\* The steps of a handler that writes records of a cluster.
WriterStep(w) ==
    \/ \E c \in ClusterIds, k \in 1..MaxTokens : FindCluster(w, c, k)
    \/ \E c \in ClusterIds, r \in Requests : BeginApply(w, r, c) \/ BeginProvision(w, r, c)
    \/ SaveRecord(w)
    \/ \E stamp \in Stamps : MarkClusterSeen(w, stamp)

LEMMA SetWriterTypes ==
  ASSUME ClusterTypes, NEW w \in Writers, NEW table \in Tables, NEW c \in ClusterIds,
         NEW user \in Users \cup {Nobody}, table = "mappings" => user \in Users,
         SetWriter(w, table, c, user)
  PROVE  ClusterTypes'
<1>1. [stage |-> "found", table |-> table, cluster |-> c, user |-> user] \in WriterStates
  BY DEF WriterStates, IsOfUser
<1> QED
  BY <1>1 DEF SetWriter, ClusterTypes

\* The record the handler at w saves.
RecordOf(w) ==
    [table |-> writers[w].table, cluster |-> writers[w].cluster, user |-> writers[w].user,
     late  |-> IF writers[w].table = "mappings" THEN users[writers[w].user] = "deleted"
               ELSE clusters[writers[w].cluster].status \notin Present]

LEMMA SavedType ==
  ASSUME ClusterTypes, NEW w \in Writers
  PROVE  RecordOf(w) \in Records
<1>1. writers[w] \in WriterStates
  BY DEF ClusterTypes
<1>2. /\ writers[w].table \in Tables /\ writers[w].cluster \in ClusterIds
      /\ writers[w].user \in Users \cup {Nobody}
      /\ writers[w].table = "mappings" => writers[w].user \in Users
  BY <1>1 DEF WriterStates, IsOfUser
<1>3. (users[writers[w].user] = "deleted") \in BOOLEAN
  OBVIOUS
<1>4. (clusters[writers[w].cluster].status \notin Present) \in BOOLEAN
  OBVIOUS
<1>5. RecordOf(w).late \in BOOLEAN
  BY <1>3, <1>4, Zenon DEF RecordOf
<1>6. PICK late \in BOOLEAN :
        RecordOf(w) = [table |-> writers[w].table, cluster |-> writers[w].cluster,
                       user |-> writers[w].user, late |-> late]
  BY <1>5, Zenon DEF RecordOf
<1>7. RecordOf(w) \in [table: Tables, cluster: ClusterIds, user: Users \cup {Nobody},
                       late: BOOLEAN]
  BY <1>2, <1>6
<1>8. IsOfUser(RecordOf(w))
  BY <1>2 DEF RecordOf, IsOfUser
<1> QED
  BY <1>7, <1>8 DEF Records

LEMMA WriterStepTypes ==
  ASSUME AccountTypes, ClusterTypes, NEW w \in Writers, WriterStep(w)
  PROVE  ClusterTypes'
<1>0. Tables = {"events", "applies", "mappings"}
  BY DEF Tables
<1>1. ASSUME NEW c \in ClusterIds, NEW k \in 1..MaxTokens, FindCluster(w, c, k)
      PROVE  ClusterTypes'
  BY <1>0, <1>1, SetWriterTypes DEF FindCluster
<1>2. ASSUME NEW c \in ClusterIds, NEW r \in Requests,
             BeginApply(w, r, c) \/ BeginProvision(w, r, c)
      PROVE  ClusterTypes'
  <2>1. requests[r] \in Users
    BY <1>2, AnswerTypes DEF BeginApply, BeginProvision
  <2> QED
    BY <1>0, <1>2, <2>1, SetWriterTypes DEF BeginApply, BeginProvision
<1>3. CASE SaveRecord(w)
  <2>1. writers[w] \in WriterStates
    BY DEF ClusterTypes
  <2>2. [writers[w] EXCEPT !.stage = "saved"] \in WriterStates
    BY <2>1 DEF WriterStates, IsOfUser
  <2>3. writers' \in [Writers -> WriterStates]
    BY <1>3, <2>2, RestingType DEF SaveRecord, ClusterTypes
  <2>4. stored' \subseteq stored \cup {RecordOf(w)}
    BY <1>3 DEF SaveRecord, RecordOf
  <2>5. stored' \subseteq Records
    BY <2>4, SavedType DEF ClusterTypes
  <2> QED
    BY <1>3, <2>3, <2>5 DEF SaveRecord, ClusterTypes
<1>4. ASSUME NEW stamp \in Stamps, MarkClusterSeen(w, stamp) PROVE ClusterTypes'
  <2> DEFINE c == writers[w].cluster
  <2>1. c \in ClusterIds
    BY DEF ClusterTypes, WriterStates
  <2>2. clusters[c] \in Rows
    BY <2>1 DEF ClusterTypes
  <2>3. Later(clusters[c].lastSeen, stamp) \in Stamps \cup {NotSeen}
    BY <2>2 DEF Later, Rows
  <2> DEFINE row == [clusters[c] EXCEPT !.lastSeen = Later(clusters[c].lastSeen, stamp)]
  <2>6. row \in Rows
    BY <2>2, <2>3 DEF Rows
  <2>7. clusters' = clusters \/ clusters' = [clusters EXCEPT ![c] = row]
    BY <1>4 DEF MarkClusterSeen
  <2>4. clusters' \in [ClusterIds -> Rows]
    BY <2>6, <2>7 DEF ClusterTypes
  <2>5. writers' \in [Writers -> WriterStates]
    BY <1>4, RestingType DEF MarkClusterSeen, ClusterTypes
  <2> QED
    BY <1>4, <2>4, <2>5 DEF MarkClusterSeen, ClusterTypes
<1> QED
  BY <1>1, <1>2, <1>3, <1>4 DEF WriterStep

\* Every step, by what it does to the clusters.
LEMMA StepCases ==
  ASSUME AccountTypes, [Next]_vars
  PROVE  \/ UNCHANGED clusterVars /\ (UNCHANGED clock \/ Tick)
         \/ UNCHANGED clock /\ \E c \in ClusterIds : Operation(c)
         \/ PurgeExpired
         \/ \E r \in Requests : DeleteUserAccount(r)
         \/ \E w \in Writers : WriterStep(w)
<1>1. ASSUME AccountStep, UNCHANGED clusterVars PROVE UNCHANGED clock \/ Tick
  BY <1>1 DEF AccountStep, CheckAccountLimit, UpsertUser, ReadStatus, CreateSession, RecordLogin,
     AnswerOnly, Authenticate, Logout, DisableUser, EnableUser, RestoreUser, Revoke,
     CleanupOldRecords
<1>2. CASE ByAdmin
  BY <1>2 DEF ByAdmin, Operation, accountVars
<1>3. ASSUME NEW r \in Requests, ByOwner(r)
      PROVE  UNCHANGED clock /\ \E c \in ClusterIds : Operation(c)
  BY <1>3, AnswerTypes DEF ByOwner, Operation
<1>4. CASE UNCHANGED vars
  BY <1>4 DEF vars, clusterVars
<1> QED
  BY <1>1, <1>2, <1>3, <1>4 DEF Next, WriterStep

LEMMA ClusterInitTypes == Init => ClusterTypes
<1> SUFFICES ASSUME Init PROVE ClusterTypes
  OBVIOUS
<1>1. 0 \in 0..MaxTokens /\ 0 \in 0..MaxClock
  BY AccountsAssumption, ClustersAssumption DEF AccountsAssumption, ClustersAssumption
<1> QED
  BY <1>1, TheRow, RestingType DEF Init, ClusterTypes

LEMMA ClusterStepTypes ==
  ASSUME AccountTypes, ClusterTypes, [Next]_vars
  PROVE  ClusterTypes'
<1>1. Now
  BY DEF AccountTypes, AccountsTypeOK, Now
<1>2. CASE UNCHANGED clusterVars
  BY <1>2 DEF clusterVars, ClusterTypes
<1>3. CASE \E c \in ClusterIds : Operation(c)
  BY <1>1, <1>3, OperationTypes
<1>4. CASE PurgeExpired
  BY <1>4, RemoveTypes DEF PurgeExpired
<1>5. CASE \E r \in Requests : DeleteUserAccount(r)
  BY <1>1, <1>5, DeleteUserAccountTypes
<1>6. CASE \E w \in Writers : WriterStep(w)
  BY <1>6, WriterStepTypes
<1> QED
  BY <1>2, <1>3, <1>4, <1>5, <1>6, StepCases

-----------------------------------------------------------------------------
(* The accounts do not notice the clusters. *)

LEMMA AccountsSteps ==
  ASSUME [Next]_vars
  PROVE  [AccountsNext]_accountVars
<1>1. ASSUME NEW r \in Requests, ByOwner(r) PROVE AnswerOnly(r)
  BY <1>1 DEF ByOwner, AnswerOnly
<1>2. ASSUME NEW r \in Requests, DeleteUserAccount(r) PROVE DeleteAccount(r)
  BY <1>2 DEF DeleteUserAccount
<1>3. ASSUME NEW w \in Writers, WriterStep(w)
      PROVE  UNCHANGED accountVars \/ \E r \in Requests : AnswerOnly(r)
  BY <1>3 DEF WriterStep, FindCluster, BeginApply, BeginProvision, SetWriter, SaveRecord, MarkClusterSeen, AnswerOnly
<1>4. CASE ByAdmin \/ PurgeExpired
  BY <1>4 DEF ByAdmin, PurgeExpired
<1>5. CASE UNCHANGED vars
  BY <1>5 DEF vars, accountVars
<1> QED
  BY <1>1, <1>2, <1>3, <1>4, <1>5 DEF Next, WriterStep, AccountsNext, AccountStep

\* Whatever happens to clusters, tokens and records, the accounts behave as
\* they do alone: the cluster handlers of app/main.py touch users and sessions
\* only through delete_user_account.
THEOREM ClustersKeepAccounts == Spec => AccountsSpec
<1>1. Init => AccountsInit
  BY DEF Init
<1> QED
  BY <1>1, AccountsSteps, PTL DEF Spec, AccountsSpec

\* The types of all tables and of the handlers between their transactions.
LEMMA AllTypes == Spec => [](AccountTypes /\ ClusterTypes)
<1>1. AccountTypes /\ [AccountsNext]_accountVars => AccountTypes'
  <2>1. AccountTypes /\ UNCHANGED accountVars => AccountTypes'
    BY DEF AccountTypes, AccountsTypeOK, SignInsAreForUsers, accountVars
  <2>2. ASSUME AccountTypes, NEW r \in Requests, DeleteAccount(r) PROVE AccountTypes'
    BY <2>2, Names, AnswerTypes, RevokeTypes DEF DeleteAccount
  <2> QED
    BY <2>1, <2>2, AccountStepTypes DEF AccountsNext
<1>2. Init => AccountTypes /\ ClusterTypes
  BY AccountsInitTypes, ClusterInitTypes DEF Init
<1>3. (AccountTypes /\ ClusterTypes) /\ [Next]_vars => (AccountTypes /\ ClusterTypes)'
  BY <1>1, AccountsSteps, ClusterStepTypes
<1> QED
  BY <1>2, <1>3, PTL DEF Spec

\* Every table, counter and handler of the cluster model keeps its type
\* (app/storage.py: clusters, events, policy_apply_history, grafana_provisioning,
\* sessions).
THEOREM ClusterTypesCorrect == Spec => []TypeOK
<1>1. AccountTypes /\ ClusterTypes => TypeOK
  BY DEF AccountTypes, ClusterTypes, TypeOK, WriterStates, Records
<1> QED
  BY <1>1, AllTypes, PTL

-----------------------------------------------------------------------------
(* Tokens. *)

\* A cluster's token is one of those drawn for it and none of those revoked.
TokenOK(c) ==
    /\ revoked[c] <= issued[c] /\ clusters[c].token <= issued[c]
    /\ clusters[c].token = NoToken \/ clusters[c].token > revoked[c]

TokensOK == \A c \in ClusterIds : TokenOK(c)

\* The token of c and what was drawn and revoked before it stay; or the token
\* goes, whatever is revoked; or a new one is drawn and the others revoked.
TokenStep(c) ==
    \/ /\ clusters'[c].token = clusters[c].token
       /\ issued'[c] = issued[c] /\ revoked'[c] = revoked[c]
    \/ /\ clusters'[c].token = NoToken
       /\ issued'[c] = issued[c] /\ revoked'[c] \in {revoked[c], issued[c]}
    \/ /\ clusters'[c].token = issued[c] + 1
       /\ issued'[c] = issued[c] + 1 /\ revoked'[c] \in {revoked[c], issued[c]}

LEMMA TokenStepOK ==
  ASSUME ClusterTypes, NEW c \in ClusterIds, TokenOK(c), TokenStep(c)
  PROVE  TokenOK(c)'
<1>1. issued[c] \in Nat /\ revoked[c] \in Nat
  BY ClustersAssumption DEF ClustersAssumption, ClusterTypes
<1> QED
  BY <1>1 DEF TokenOK, TokenStep, NoToken

LEMMA OperationTokens ==
  ASSUME ClusterTypes, NEW c \in ClusterIds, Operation(c), NEW d \in ClusterIds
  PROVE  TokenStep(d)
<1> USE DEF ClusterTypes
<1>1. ASSUME NEW owner, Create(c, owner) PROVE TokenStep(d)
  BY <1>1 DEF Create, FreshToken, TokenStep
<1>2. CASE RotateToken(c)
  BY <1>2 DEF RotateToken, FreshToken, TokenStep
<1>3. CASE Disable(c) \/ Enable(c) \/ Restore(c)
  <2>1. CASE Disable(c)
    BY <2>1 DEF Disable, Rows, TokenStep
  <2>2. CASE Enable(c)
    BY <2>2 DEF Enable, Rows, TokenStep
  <2>3. CASE Restore(c)
    BY <2>3 DEF Restore, Rows, TokenStep
  <2> QED
    BY <1>3, <2>1, <2>2, <2>3
<1>4. CASE Trash(c)
  <2>1. clusters'[d].token = IF d = c THEN NoToken ELSE clusters[d].token
    BY <1>4 DEF Trash, TrashedRow, Rows
  <2> QED
    BY <1>4, <2>1 DEF Trash, NoteTrashed, TokenStep
<1>5. CASE PermanentlyDelete(c)
  BY <1>5 DEF PermanentlyDelete, RemoveRows, NoRow, TokenStep
<1> QED
  BY <1>1, <1>2, <1>3, <1>4, <1>5 DEF Operation

LEMMA DeleteUserAccountTokens ==
  ASSUME ClusterTypes, NEW r \in Requests, DeleteUserAccount(r), NEW d \in ClusterIds
  PROVE  TokenStep(d)
<1> DEFINE own == {c \in ClusterIds : /\ clusters[c].status \in Present
                                      /\ clusters[c].owner = requests[r]}
<1>1. NoteTrashed(own) /\ issued' = issued
  BY DEF DeleteUserAccount
<1>2. clusters'[d].token = IF d \in own THEN NoToken ELSE clusters[d].token
  BY DEF DeleteUserAccount, TrashedRow, ClusterTypes, Rows
<1> QED
  BY <1>1, <1>2 DEF NoteTrashed, TokenStep

LEMMA WriterTokens ==
  ASSUME ClusterTypes, NEW w \in Writers, WriterStep(w), NEW d \in ClusterIds
  PROVE  TokenStep(d)
<1>1. issued' = issued /\ revoked' = revoked
  BY DEF WriterStep, FindCluster, BeginApply, BeginProvision, SetWriter, SaveRecord, MarkClusterSeen
<1>2. CASE clusters' = clusters
  BY <1>1, <1>2 DEF TokenStep
<1>3. ASSUME NEW stamp \in Stamps, MarkClusterSeen(w, stamp) PROVE TokenStep(d)
  <2>1. clusters'[d].token = clusters[d].token
    BY <1>3 DEF MarkClusterSeen, ClusterTypes, Rows
  <2> QED
    BY <1>1, <2>1 DEF TokenStep
<1> QED
  BY <1>2, <1>3 DEF WriterStep, FindCluster, BeginApply, BeginProvision, SetWriter, SaveRecord

\* No token that was replaced, or whose cluster went to the trash, identifies
\* an active cluster again (app/storage.py, rotate_cluster_token, trash_cluster,
\* restore_cluster, delete_user_account), for any clusters and handlers.
THEOREM RevokedTokensAreDead == Spec => []RevokedTokensStayRevoked
<1>1. Init => TokensOK
  BY DEF Init, TokensOK, TokenOK, NoRow, NoToken
<1>2. ASSUME AccountTypes, ClusterTypes, TokensOK, [Next]_vars PROVE TokensOK'
  <2>1. ASSUME NEW d \in ClusterIds PROVE TokenStep(d)
    <3>1. CASE UNCHANGED clusterVars
      BY <3>1 DEF clusterVars, TokenStep
    <3>2. CASE PurgeExpired
      BY <3>2 DEF PurgeExpired, RemoveRows, NoRow, TokenStep
    <3> QED
      BY <1>2, <3>1, <3>2, StepCases, OperationTokens, DeleteUserAccountTokens, WriterTokens
  <2> QED
    BY <1>2, <2>1, TokenStepOK DEF TokensOK
<1>3. TokensOK => RevokedTokensStayRevoked
  BY DEF TokensOK, TokenOK, RevokedTokensStayRevoked
<1> QED
  BY <1>1, <1>2, <1>3, AllTypes, PTL DEF Spec

-----------------------------------------------------------------------------
(* The trash. *)

\* Only a cluster in the trash has a time it went there, and not one before
\* it last went.
TrashOK ==
    \A c \in ClusterIds :
        /\ trashedAt[c] <= clock
        /\ clusters[c].deletedAt # Never => /\ clusters[c].status = "deleted"
                                            /\ clusters[c].deletedAt >= trashedAt[c]

\* What a step may do to one row as the trash sees it.
TrashStep(d) ==
    \/ /\ clusters'[d].deletedAt = clusters[d].deletedAt
       /\ clusters'[d].status = clusters[d].status /\ trashedAt'[d] = trashedAt[d]
    \/ /\ clusters'[d].deletedAt = Never /\ trashedAt'[d] = trashedAt[d]
       /\ clusters'[d].status = "purged" => d \in Expired
    \/ /\ clusters'[d].deletedAt = clusters[d].deletedAt /\ trashedAt'[d] = trashedAt[d]
       /\ clusters[d].status # "deleted" /\ clusters'[d].status # "purged"
    \/ /\ clusters'[d].deletedAt = clock /\ clusters'[d].status = "deleted"
       /\ trashedAt'[d] \in {trashedAt[d], clock}
    \/ /\ clusters'[d].deletedAt = clusters[d].deletedAt /\ clusters'[d].status = "deleted"
       /\ clusters[d].deletedAt # Never
       /\ trashedAt'[d] = IF clusters[d].status # "deleted" THEN clock ELSE trashedAt[d]

LEMMA TrashStepOK ==
  ASSUME AccountTypes, ClusterTypes, TrashOK, clock' >= clock, clock' \in Nat,
         \A d \in ClusterIds : TrashStep(d)
  PROVE  TrashOK'
<1> SUFFICES ASSUME NEW c \in ClusterIds
             PROVE  /\ trashedAt'[c] <= clock'
                    /\ clusters'[c].deletedAt # Never =>
                          /\ clusters'[c].status = "deleted"
                          /\ clusters'[c].deletedAt >= trashedAt'[c]
  BY DEF TrashOK
<1>1. clock \in Nat /\ trashedAt[c] \in Nat
  BY AccountsAssumption DEF AccountsAssumption, AccountTypes, AccountsTypeOK, ClusterTypes
<1>2. TrashStep(c)
  OBVIOUS
<1> QED
  BY <1>1, <1>2 DEF TrashStep, TrashOK

LEMMA OperationTrash ==
  ASSUME AccountTypes, ClusterTypes, TrashOK, NEW c \in ClusterIds, Operation(c),
         NEW d \in ClusterIds
  PROVE  TrashStep(d)
<1> USE DEF ClusterTypes
<1>1. ASSUME NEW owner, Create(c, owner) PROVE TrashStep(d)
  BY <1>1 DEF Create, TrashStep
<1>2. CASE RotateToken(c)
  BY <1>2 DEF RotateToken, TrashStep
<1>3. CASE Disable(c)
  <2>1. /\ clusters'[d].deletedAt = clusters[d].deletedAt
        /\ d # c => clusters'[d] = clusters[d]
        /\ d = c => clusters'[d].status = "disabled" /\ clusters[d].status # "deleted"
    BY <1>3 DEF Disable, Rows
  <2> QED
    BY <1>3, <2>1 DEF Disable, TrashStep
<1>4. CASE Enable(c) \/ Restore(c)
  <2>1. /\ d # c => clusters'[d] = clusters[d]
        /\ d = c => clusters'[d].status # "purged" /\ clusters'[d].deletedAt = Never
    BY <1>4 DEF Enable, Restore, Rows
  <2> QED
    BY <1>4, <2>1 DEF Enable, Restore, TrashStep
<1>5. CASE Trash(c)
  <2>1. /\ d # c => clusters'[d] = clusters[d]
        /\ d = c => clusters'[d].status = "deleted" /\ clusters'[d].deletedAt = clock
    BY <1>5 DEF Trash, TrashedRow, Rows
  <2> QED
    BY <1>5, <2>1 DEF Trash, NoteTrashed, TrashStep
<1>6. CASE PermanentlyDelete(c)
  BY <1>6 DEF PermanentlyDelete, RemoveRows, NoRow, TrashStep
<1> QED
  BY <1>1, <1>2, <1>3, <1>4, <1>5, <1>6 DEF Operation

LEMMA DeleteUserAccountTrash ==
  ASSUME ClusterTypes, NEW r \in Requests, DeleteUserAccount(r), NEW d \in ClusterIds
  PROVE  TrashStep(d)
<1> DEFINE own == {c \in ClusterIds : /\ clusters[c].status \in Present
                                      /\ clusters[c].owner = requests[r]}
           at == IF clusters[d].deletedAt = Never THEN clock ELSE clusters[d].deletedAt
<1>1. /\ d \in own => clusters'[d] = TrashedRow(clusters[d], at)
      /\ d \notin own => clusters'[d] = clusters[d]
      /\ NoteTrashed(own)
  BY DEF DeleteUserAccount
<1>2. d \in own => clusters'[d].status = "deleted" /\ clusters'[d].deletedAt = at
  BY <1>1 DEF TrashedRow, ClusterTypes, Rows
<1>3. trashedAt'[d] = IF d \in own /\ clusters[d].status # "deleted" THEN clock ELSE trashedAt[d]
  BY <1>1 DEF NoteTrashed
<1> QED
  BY <1>1, <1>2, <1>3 DEF TrashStep

LEMMA WriterTrash ==
  ASSUME ClusterTypes, NEW w \in Writers, WriterStep(w), NEW d \in ClusterIds
  PROVE  TrashStep(d)
<1>1. trashedAt' = trashedAt
  BY DEF WriterStep, FindCluster, BeginApply, BeginProvision, SetWriter, SaveRecord, MarkClusterSeen
<1>2. CASE clusters' = clusters
  BY <1>1, <1>2 DEF TrashStep
<1>3. ASSUME NEW stamp \in Stamps, MarkClusterSeen(w, stamp) PROVE TrashStep(d)
  <2>1. /\ clusters'[d].status = clusters[d].status
        /\ clusters'[d].deletedAt = clusters[d].deletedAt
    BY <1>3 DEF MarkClusterSeen, ClusterTypes, Rows
  <2> QED
    BY <1>1, <2>1 DEF TrashStep
<1> QED
  BY <1>2, <1>3 DEF WriterStep, FindCluster, BeginApply, BeginProvision, SetWriter, SaveRecord

LEMMA NextTrash ==
  ASSUME AccountTypes, ClusterTypes, TrashOK, [Next]_vars
  PROVE  \A d \in ClusterIds : TrashStep(d)
<1> SUFFICES ASSUME NEW d \in ClusterIds PROVE TrashStep(d)
  OBVIOUS
<1>1. CASE UNCHANGED clusterVars
  BY <1>1 DEF clusterVars, TrashStep
<1>2. CASE PurgeExpired
  BY <1>2 DEF PurgeExpired, RemoveRows, NoRow, TrashStep
<1> QED
  BY <1>1, <1>2, StepCases, OperationTrash, DeleteUserAccountTrash, WriterTrash

LEMMA ClockAdvances ==
  ASSUME AccountTypes, [Next]_vars
  PROVE  clock' >= clock /\ clock' \in Nat
<1>1. clock \in Nat
  BY AccountsAssumption DEF AccountsAssumption, AccountTypes, AccountsTypeOK
<1>2. UNCHANGED clock \/ Tick
  BY StepCases DEF PurgeExpired, accountVars, DeleteUserAccount, DeleteAccount, Revoke,
     WriterStep, FindCluster, BeginApply, BeginProvision, SetWriter, SaveRecord, MarkClusterSeen
<1> QED
  BY <1>1, <1>2 DEF Tick

\* A purge takes only clusters that have been in the trash for the retention
\* (app/storage.py, purge_expired_deleted_clusters), whatever restores, renewed
\* trashings and account deletions came before.
THEOREM PurgesWait == Spec => PurgedOnlyAfterRetention
<1>1. Init => TrashOK
  BY AccountsAssumption DEF AccountsAssumption, Init, AccountsInit, TrashOK, NoRow
<1>2. ASSUME AccountTypes, ClusterTypes, TrashOK, [Next]_vars PROVE TrashOK'
  BY <1>2, TrashStepOK, NextTrash, ClockAdvances
<1>3. ASSUME AccountTypes, ClusterTypes, TrashOK, [Next]_vars, NEW c \in ClusterIds,
             clusters[c].status = "deleted", clusters'[c].status = "purged"
      PROVE  clock >= trashedAt[c] + Retention
  <2>1. c \in Expired
    BY <1>3, NextTrash DEF TrashStep
  <2>2. clusters[c].deletedAt >= trashedAt[c] /\ clusters[c].deletedAt <= clock - Retention
    BY <1>3, <2>1 DEF TrashOK, Expired
  <2>3. clusters[c].deletedAt \in Int /\ trashedAt[c] \in Int /\ clock \in Int /\ Retention \in Int
    BY <1>3, AccountsAssumption, ClustersAssumption
    DEF AccountsAssumption, ClustersAssumption, AccountTypes, AccountsTypeOK, ClusterTypes, Rows
  <2> QED
    BY <2>2, <2>3
<1>4. ASSUME AccountTypes, ClusterTypes, TrashOK, [Next]_vars
      PROVE  [\A c \in ClusterIds :
                 clusters[c].status = "deleted" /\ clusters'[c].status = "purged"
                     => clock >= trashedAt[c] + Retention]_vars
  BY <1>3, <1>4
<1> QED
  BY <1>1, <1>2, <1>4, AllTypes, PTL DEF Spec, PurgedOnlyAfterRetention

-----------------------------------------------------------------------------
(* Records and the time a cluster was last seen. *)

\* What stays stored stays explained, unless a cluster goes without its records
\* or an account without its mappings.
LEMMA StoredStay ==
  ASSUME ClusterTypes, OrphansAreLateWrites, stored' \subseteq stored,
         \A x \in stored' :
             IF x.table = "mappings" THEN users'[x.user] = "deleted" => users[x.user] = "deleted"
             ELSE clusters[x.cluster].status \in Present => clusters'[x.cluster].status \in Present
  PROVE  OrphansAreLateWrites'
  BY DEF OrphansAreLateWrites

\* Only delete_user_account deletes an account.
LEMMA AccountsStay ==
  ASSUME AccountTypes, [Next]_vars
  PROVE  \/ \A u \in Users : users'[u] = "deleted" => users[u] = "deleted"
         \/ \E r \in Requests : DeleteUserAccount(r)
<1>1. CASE AccountStep
  <2>1. ASSUME NEW s \in SignIns, UpsertUser(s)
        PROVE  \A u \in Users : users'[u] = "deleted" => users[u] = "deleted"
    BY <2>1 DEF UpsertUser, AccountTypes, AccountsTypeOK
  <2>2. ASSUME NEW v \in Users, DisableUser(v) \/ EnableUser(v) \/ RestoreUser(v)
        PROVE  \A u \in Users : users'[u] = "deleted" => users[u] = "deleted"
    BY <2>2 DEF DisableUser, EnableUser, RestoreUser, Revoke, AccountTypes, AccountsTypeOK
  <2>3. \/ users' = users
        \/ \E s \in SignIns : UpsertUser(s)
        \/ \E u \in Users : DisableUser(u) \/ EnableUser(u) \/ RestoreUser(u)
    BY <1>1 DEF AccountStep, CheckAccountLimit, ReadStatus, CreateSession, RecordLogin,
       AnswerOnly, Authenticate, Logout, CleanupOldRecords, Tick
  <2> QED
    BY <2>1, <2>2, <2>3
<1>2. CASE ByAdmin \/ PurgeExpired \/ \E r \in Requests : ByOwner(r)
  BY <1>2 DEF ByAdmin, PurgeExpired, ByOwner, accountVars
<1>3. CASE \E w \in Writers : WriterStep(w)
  BY <1>3 DEF WriterStep, FindCluster, BeginApply, BeginProvision, SaveRecord, MarkClusterSeen,
     accountVars
<1>4. CASE UNCHANGED vars
  BY <1>4 DEF vars
<1> QED
  BY <1>1, <1>2, <1>3, <1>4 DEF Next, WriterStep

\* A step that erases a cluster takes its records along.
LEMMA OperationRecords ==
  ASSUME ClusterTypes, NEW c \in ClusterIds, Operation(c)
  PROVE  /\ stored' \subseteq stored
         /\ \A x \in stored' : x.table = "mappings" \/
                (clusters[x.cluster].status \in Present => clusters'[x.cluster].status \in Present)
<1> USE DEF ClusterTypes
<1>1. CASE PermanentlyDelete(c)
  BY <1>1 DEF PermanentlyDelete, RemoveRows, Records
<1>2. CASE ~PermanentlyDelete(c)
  <2>1. stored' = stored
    BY <1>2 DEF Operation, Create, RotateToken, Disable, Enable, Trash, Restore
  <2>2. clusters'[c].status \in {"active", "disabled", "deleted"}
    <3>1. CASE \E owner \in Users \cup {Nobody} : Create(c, owner)
      BY <3>1 DEF Create
    <3>2. CASE RotateToken(c)
      BY <3>2 DEF RotateToken
    <3>3. CASE Disable(c)
      BY <3>3 DEF Disable, Rows
    <3>4. CASE Enable(c)
      BY <3>4 DEF Enable, Rows
    <3>5. CASE Restore(c)
      BY <3>5 DEF Restore, Rows
    <3>6. CASE Trash(c)
      BY <3>6 DEF Trash, TrashedRow, Rows
    <3> QED
      BY <1>2, <3>1, <3>2, <3>3, <3>4, <3>5, <3>6 DEF Operation
  <2>3. \A d \in ClusterIds \ {c} : clusters'[d] = clusters[d]
    BY <1>2 DEF Operation, Create, RotateToken, Disable, Enable, Trash, Restore
  <2>4. \A x \in stored : x.cluster \in ClusterIds
    BY DEF Records
  <2> QED
    BY <2>1, <2>2, <2>3, <2>4 DEF Present
<1> QED
  BY <1>1, <1>2

\* An event or apply record of a cluster whose row is gone was written after it
\* went, by a handler that had found the cluster before, and so was a mapping of
\* a user whose account is deleted (app/main.py, the ingest handler,
\* apply_generated_policy_to_cluster and provision_cluster_grafana;
\* app/storage.py, delete_user_account), for any number of handlers.  The other
\* mappings of clusters that are gone are there still.
THEOREM OnlyLateWritesAreOrphans == Spec => []OrphansAreLateWrites
<1>1. Init => OrphansAreLateWrites
  BY DEF Init, OrphansAreLateWrites
<1>2. ASSUME AccountTypes, ClusterTypes, OrphansAreLateWrites, [Next]_vars
      PROVE  OrphansAreLateWrites'
  <2> DEFINE NoneDeleted == \A u \in Users : users'[u] = "deleted" => users[u] = "deleted"
  <2>0. \A x \in stored : x.cluster \in ClusterIds /\ (x.table = "mappings" => x.user \in Users)
    BY <1>2 DEF ClusterTypes, Records, IsOfUser
  <2>1. ASSUME UNCHANGED clusterVars, NoneDeleted PROVE OrphansAreLateWrites'
    BY <1>2, <2>0, <2>1, StoredStay DEF clusterVars
  <2>2. ASSUME PurgeExpired, NoneDeleted PROVE OrphansAreLateWrites'
    <3>1. /\ stored' = {x \in stored : x.cluster \in Expired => x.table = "mappings"}
          /\ \A c \in ClusterIds \ Expired : clusters'[c] = clusters[c]
      BY <2>2 DEF PurgeExpired, RemoveRows
    <3> QED
      BY <1>2, <2>0, <2>2, <3>1, StoredStay
  <2>3. ASSUME NEW r \in Requests, DeleteUserAccount(r) PROVE OrphansAreLateWrites'
    <3>1. \A d \in ClusterIds : \/ clusters'[d] = clusters[d]
                                \/ clusters'[d].status = "deleted"
      BY <1>2, <2>3 DEF DeleteUserAccount, TrashedRow, ClusterTypes, Rows
    <3>2. stored' = {x \in stored : x.table = "mappings" => x.user # requests[r]}
      BY <2>3 DEF DeleteUserAccount
    <3>3. \A u \in Users \ {requests[r]} : users'[u] = users[u]
      BY <1>2, <2>3 DEF DeleteUserAccount, DeleteAccount, Revoke, AccountTypes, AccountsTypeOK
    <3> QED
      BY <1>2, <2>0, <3>1, <3>2, <3>3, StoredStay DEF Present
  <2>4. ASSUME NEW c \in ClusterIds, Operation(c), NoneDeleted PROVE OrphansAreLateWrites'
    BY <1>2, <2>0, <2>4, OperationRecords, StoredStay
  <2>5. ASSUME NEW w \in Writers, SaveRecord(w) PROVE OrphansAreLateWrites'
    <3>1. stored' \subseteq stored \cup {RecordOf(w)} /\ clusters' = clusters /\ users' = users
      BY <2>5 DEF SaveRecord, RecordOf, accountVars
    <3>2. IF RecordOf(w).table = "mappings"
          THEN users[RecordOf(w).user] = "deleted" => RecordOf(w).late
          ELSE clusters[RecordOf(w).cluster].status \notin Present => RecordOf(w).late
      BY Zenon DEF RecordOf
    <3> QED
      BY <1>2, <3>1, <3>2 DEF OrphansAreLateWrites
  <2>6. ASSUME NEW w \in Writers, NEW stamp \in Stamps, MarkClusterSeen(w, stamp)
        PROVE  OrphansAreLateWrites'
    <3>1. \A d \in ClusterIds : clusters'[d].status = clusters[d].status
      BY <1>2, <2>6 DEF MarkClusterSeen, ClusterTypes, Rows
    <3>2. stored' = stored /\ users' = users
      BY <2>6 DEF MarkClusterSeen, accountVars
    <3> QED
      BY <1>2, <2>0, <3>1, <3>2, StoredStay
  <2>7. ASSUME NEW w \in Writers, WriterStep(w) PROVE OrphansAreLateWrites'
    <3>1. CASE UNCHANGED <<clusters, stored, users>>
      BY <1>2, <3>1 DEF OrphansAreLateWrites
    <3> QED
      BY <2>5, <2>6, <2>7, <3>1
      DEF WriterStep, FindCluster, BeginApply, BeginProvision, SetWriter, accountVars
  <2> QED
    BY <1>2, <2>1, <2>2, <2>3, <2>4, <2>7, StepCases, AccountsStay
<1> QED
  BY <1>1, <1>2, AllTypes, PTL DEF Spec

\* What a step does to the timestamp d was last seen at, while its row is there.
Follows(new, old) == old.text <= new.text /\ (old.format = new.format => old.time <= new.time)

SeenStep(d) ==
    clusters[d].status \in Present /\ clusters'[d].status \in Present
        => Follows(clusters'[d].lastSeen, clusters[d].lastSeen)

LEMMA SeenStamps ==
  /\ \A s \in Stamps \cup {NotSeen} : s.text \in Nat /\ s.time \in Nat
  /\ \A s \in Stamps, t \in Stamps :
        s.format = t.format /\ s.text <= t.text => s.time <= t.time
<1>1. \A s \in Stamps : s.text \in Nat /\ s.time \in Nat
  BY StampsAssumption DEF StampsAssumption
<1>2. NotSeen.text = 0 /\ NotSeen.time = 0
  BY DEF NotSeen
<1> QED
  BY <1>1, <1>2, StampsAssumption DEF StampsAssumption

LEMMA SameSeen ==
  ASSUME ClusterTypes, NEW d \in ClusterIds, clusters'[d].lastSeen = clusters[d].lastSeen
  PROVE  SeenStep(d)
<1>1. clusters[d].lastSeen \in Stamps \cup {NotSeen}
  BY DEF ClusterTypes, Rows
<1>2. clusters[d].lastSeen.text \in Nat /\ clusters[d].lastSeen.time \in Nat
  BY <1>1, SeenStamps
<1> QED
  BY <1>2 DEF SeenStep, Follows

\* The later of two timestamps follows the one a row holds.
LEMMA LaterFollows ==
  ASSUME NEW seen \in Stamps \cup {NotSeen}, NEW stamp \in Stamps
  PROVE  Follows(Later(seen, stamp), seen)
<1>1. seen.text \in Nat /\ seen.time \in Nat /\ stamp.text \in Nat /\ stamp.time \in Nat
  BY SeenStamps
<1>2. CASE ~(seen.text <= stamp.text)
  BY <1>1, <1>2 DEF Later, Follows
<1>3. CASE seen.text <= stamp.text /\ seen = NotSeen
  <2>1. seen.time = 0
    BY <1>3 DEF NotSeen
  <2> QED
    BY <1>1, <1>3, <2>1 DEF Later, Follows
<1>4. CASE seen.text <= stamp.text /\ seen \in Stamps
  BY <1>1, <1>4, SeenStamps DEF Later, Follows
<1> QED
  BY <1>2, <1>3, <1>4

LEMMA OperationSeen ==
  ASSUME ClusterTypes, NEW c \in ClusterIds, Operation(c), NEW d \in ClusterIds
  PROVE  SeenStep(d)
<1> USE DEF ClusterTypes
<1>1. ASSUME NEW owner, Create(c, owner) PROVE SeenStep(d)
  BY <1>1, SameSeen DEF Create, SeenStep, Present
<1>2. CASE RotateToken(c)
  BY <1>2, SameSeen DEF RotateToken
<1>3. CASE Disable(c)
  BY <1>3, SameSeen DEF Disable, Rows
<1>4. CASE Enable(c)
  BY <1>4, SameSeen DEF Enable, Rows
<1>5. CASE Restore(c)
  BY <1>5, SameSeen DEF Restore, Rows
<1>6. CASE Trash(c)
  BY <1>6, SameSeen DEF Trash, TrashedRow, Rows
<1>7. CASE PermanentlyDelete(c)
  <2>1. CASE d = c
    BY <1>7, <2>1 DEF PermanentlyDelete, RemoveRows, NoRow, SeenStep, Present
  <2>2. CASE d # c
    BY <1>7, <2>2, SameSeen DEF PermanentlyDelete, RemoveRows
  <2> QED
    BY <2>1, <2>2
<1> QED
  BY <1>1, <1>2, <1>3, <1>4, <1>5, <1>6, <1>7 DEF Operation

LEMMA MarkedLater ==
  ASSUME ClusterTypes, NEW w \in Writers, NEW stamp \in Stamps, MarkClusterSeen(w, stamp),
         NEW d \in ClusterIds
  PROVE  SeenStep(d)
<1>1. clusters[d].lastSeen \in Stamps \cup {NotSeen}
  BY DEF ClusterTypes, Rows
<1>2. \/ clusters'[d].lastSeen = clusters[d].lastSeen
      \/ clusters'[d].lastSeen = Later(clusters[d].lastSeen, stamp)
  BY DEF MarkClusterSeen, ClusterTypes, Rows
<1> QED
  BY <1>1, <1>2, SameSeen, LaterFollows DEF SeenStep

\* Whatever order events arrive in, and whatever timestamps they carry,
\* mark_cluster_seen (app/storage.py) moves last_seen_at only forward in the
\* order of text, and so never to an earlier instant written the same way.
THEOREM LastSeenAdvances == Spec => LastSeenNeverGoesBack
<1>1. ASSUME AccountTypes, ClusterTypes, [Next]_vars
      PROVE  [\A c \in ClusterIds :
                 LET old == clusters[c].lastSeen
                     new == clusters'[c].lastSeen
                 IN  clusters[c].status \in Present /\ clusters'[c].status \in Present
                         => /\ old.text <= new.text
                            /\ old.format = new.format => old.time <= new.time]_vars
  <2> SUFFICES ASSUME NEW d \in ClusterIds PROVE SeenStep(d)
    BY DEF SeenStep, Follows
  <2>1. CASE clusters' = clusters
    BY <1>1, <2>1, SameSeen
  <2>2. CASE PurgeExpired
    <3>1. CASE d \in Expired
      BY <2>2, <3>1 DEF PurgeExpired, RemoveRows, NoRow, SeenStep, Present
    <3>2. CASE d \notin Expired
      BY <1>1, <2>2, <3>2, SameSeen DEF PurgeExpired, RemoveRows
    <3> QED
      BY <3>1, <3>2
  <2>3. ASSUME NEW r \in Requests, DeleteUserAccount(r) PROVE SeenStep(d)
    <3>1. clusters'[d].lastSeen = clusters[d].lastSeen
      BY <1>1, <2>3 DEF DeleteUserAccount, TrashedRow, ClusterTypes, Rows
    <3> QED
      BY <1>1, <3>1, SameSeen
  <2>4. ASSUME NEW w \in Writers, WriterStep(w) PROVE SeenStep(d)
    BY <1>1, <2>1, <2>4, MarkedLater DEF WriterStep, FindCluster, BeginApply, BeginProvision, SetWriter, SaveRecord
  <2> QED
    BY <1>1, <2>1, <2>2, <2>3, <2>4, StepCases, OperationSeen DEF clusterVars
<1> QED
  BY <1>1, AllTypes, PTL DEF Spec, LastSeenNeverGoesBack
=============================================================================
