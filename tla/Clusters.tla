------------------------------ MODULE Clusters ------------------------------
(***************************************************************************)
(* The clusters of the ai-server: their ingest tokens, the trash with its  *)
(* retention, and the records other handlers write for a cluster they have *)
(* looked up before (app/storage.py, the cluster and ingest handlers of    *)
(* app/main.py), together with the accounts that own them.                 *)
(*                                                                         *)
(* An ingest looks its cluster up by token, saves the event and marks the  *)
(* cluster seen; a policy apply looks the cluster up, talks to its API     *)
(* server and saves the outcome; provisioning Grafana looks it up, talks   *)
(* to Grafana and saves the mapping (GrafanaProvisioning has the calls).   *)
(* The steps are transactions of their own.                                *)
(* Names and kinds of clusters, and the audit log, are left out: creating  *)
(* under a taken name is answered 409 and changes nothing.                 *)
(***************************************************************************)
EXTENDS Accounts

CONSTANTS
    ClusterIds,  \* ids create_cluster can draw
    Writers,     \* slots for handlers that write records of a cluster
    Retention,   \* retention_days of purge_expired_deleted_clusters
    MaxTokens,   \* bound on the tokens issued per cluster
    Stamps       \* timestamps events carry, as they were sent

ASSUME ClustersAssumption ==
    /\ ClusterIds # {}
    /\ Retention \in Nat /\ MaxTokens \in Nat

\* A timestamp is text, compared as text: its place among strings, the instant
\* it stands for, and how it is written (offset, fractions).  The two orders
\* agree between timestamps written alike, and only there.
ASSUME StampsAssumption ==
    /\ Stamps \subseteq [text: Nat \ {0}, time: Nat, format: STRING]
    /\ \A s, t \in Stamps :
          s.format = t.format /\ s.text <= t.text => s.time <= t.time

VARIABLES
    clusters,  \* rows of the clusters table, by id
    issued,    \* tokens drawn so far for each cluster
    revoked,   \* history: tokens up to this one were replaced or trashed
    trashedAt, \* history: when each cluster last went to the trash
    writers,   \* handlers between looking a cluster up and their last write
    stored     \* rows of events, policy_apply_history and grafana_provisioning

clusterVars == <<clusters, issued, revoked, trashedAt, writers, stored>>
vars == <<clock, users, sessions, signIns, logins, requests, overtaken, raced,
          clusters, issued, revoked, trashedAt, writers, stored>>

NoToken == 0        \* the token_hash ''
Never == -1         \* deleted_at NULL
NotSeen == [text |-> 0, time |-> 0, format |-> ""] \* last_seen_at NULL

\* "none" is an id not drawn yet; a row that is gone was purged or erased.
Present == {"active", "disabled", "deleted"}
NoRow == [status |-> "none", owner |-> Nobody, token |-> NoToken,
          deletedAt |-> Never, lastSeen |-> NotSeen]

\* A record belongs to its cluster; a mapping has its user in the row as well.
Tables == {"events", "applies", "mappings"}
Resting == [stage |-> "idle", table |-> "events",
            cluster |-> CHOOSE c \in ClusterIds : TRUE, user |-> Nobody]

Rows == [status: Present \cup {"none", "purged", "erased"}, owner: Users \cup {Nobody},
         token: 0..MaxTokens, deletedAt: -1..MaxClock, lastSeen: Stamps \cup {NotSeen}]

TypeOK ==
    /\ AccountsTypeOK
    /\ clusters \in [ClusterIds -> Rows]
    /\ issued \in [ClusterIds -> 0..MaxTokens]
    /\ revoked \in [ClusterIds -> 0..MaxTokens]
    /\ trashedAt \in [ClusterIds -> 0..MaxClock]
    /\ writers \in [Writers -> [stage: {"idle", "found", "saved"},
                                table: Tables, cluster: ClusterIds,
                                user: Users \cup {Nobody}]]
    /\ stored \subseteq [table: Tables, cluster: ClusterIds,
                         user: Users \cup {Nobody}, late: BOOLEAN]

Init ==
    /\ AccountsInit
    /\ clusters = [c \in ClusterIds |-> NoRow]
    /\ issued = [c \in ClusterIds |-> 0]
    /\ revoked = [c \in ClusterIds |-> 0]
    /\ trashedAt = [c \in ClusterIds |-> 0]
    /\ writers = [w \in Writers |-> Resting]
    /\ stored = {}

-----------------------------------------------------------------------------
(* Operations on one cluster. *)

FreshToken(c) ==
    /\ issued[c] < MaxTokens
    /\ issued' = [issued EXCEPT ![c] = issued[c] + 1]

Create(c, owner) ==
    /\ clusters[c].status = "none"
    /\ FreshToken(c)
    /\ clusters' = [clusters EXCEPT ![c] =
           [status |-> "active", owner |-> owner, token |-> issued[c] + 1,
            deletedAt |-> Never, lastSeen |-> NotSeen]]
    /\ UNCHANGED <<revoked, trashedAt, writers, stored>>

RotateToken(c) ==
    /\ clusters[c].status \in {"active", "disabled"}
    /\ FreshToken(c)
    /\ clusters' = [clusters EXCEPT ![c] =
           [status |-> "active", owner |-> @.owner, token |-> issued[c] + 1,
            deletedAt |-> Never, lastSeen |-> @.lastSeen]]
    /\ revoked' = [revoked EXCEPT ![c] = issued[c]]
    /\ UNCHANGED <<trashedAt, writers, stored>>

Disable(c) ==
    /\ clusters[c].status \in {"active", "disabled"}
    /\ clusters' = [clusters EXCEPT ![c].status = "disabled"]
    /\ UNCHANGED <<issued, revoked, trashedAt, writers, stored>>

Enable(c) ==
    /\ clusters[c].status = "disabled"
    /\ clusters' = [clusters EXCEPT ![c].status = "active", ![c].deletedAt = Never]
    /\ UNCHANGED <<issued, revoked, trashedAt, writers, stored>>

\* Fault: the row holds when the purge is due.
TrashedRowDueDate(row, at) ==
    [row EXCEPT !.status = "deleted", !.deletedAt = at + Retention, !.token = NoToken]

\* Fault: the token of a trashed cluster is kept for its return.
TrashedRowKeepsToken(row, at) ==
    [row EXCEPT !.status = "deleted", !.deletedAt = at]

\* What moving the clusters cs to the trash sets in their rows.
TrashedRow(row, at) ==
    [row EXCEPT !.status = "deleted", !.deletedAt = at, !.token = NoToken]

\* The history the trash leaves: its tokens are void, its retention begins.
NoteTrashed(cs) ==
    /\ revoked' = [c \in ClusterIds |-> IF c \in cs THEN issued[c] ELSE revoked[c]]
    /\ trashedAt' = [c \in ClusterIds |->
           IF c \in cs /\ clusters[c].status # "deleted" THEN clock ELSE trashedAt[c]]

Trash(c) ==
    /\ clusters' = [clusters EXCEPT ![c] = TrashedRow(clusters[c], clock)]
    /\ NoteTrashed({c})
    /\ UNCHANGED <<issued, writers, stored>>

\* Fault: restoring leaves the time of the trashing in the row.
RestoreKeepsTime(c) ==
    /\ clusters[c].status = "deleted"
    /\ clusters' = [clusters EXCEPT ![c].status = "disabled"]
    /\ UNCHANGED <<issued, revoked, trashedAt, writers, stored>>

Restore(c) ==
    /\ clusters[c].status = "deleted"
    /\ clusters' = [clusters EXCEPT ![c].status = "disabled", ![c].deletedAt = Never]
    /\ UNCHANGED <<issued, revoked, trashedAt, writers, stored>>

\* Fault: the rows go, the records stay.
RemoveRowsOnly(cs, how) ==
    /\ clusters' = [c \in ClusterIds |->
           IF c \in cs THEN [NoRow EXCEPT !.status = how] ELSE clusters[c]]
    /\ UNCHANGED <<issued, revoked, trashedAt, writers, stored>>

\* Rows of the clusters cs go with their events and apply records; a mapping
\* stays.
RemoveRows(cs, how) ==
    /\ clusters' = [c \in ClusterIds |->
           IF c \in cs THEN [NoRow EXCEPT !.status = how] ELSE clusters[c]]
    /\ stored' = {x \in stored : x.cluster \in cs => x.table = "mappings"}
    /\ UNCHANGED <<issued, revoked, trashedAt, writers>>

PermanentlyDelete(c) ==
    /\ clusters[c].status = "deleted"
    /\ RemoveRows({c}, "erased")

\* Every list_clusters call purges first.
Expired == {c \in ClusterIds : /\ clusters[c].status = "deleted"
                               /\ clusters[c].deletedAt # Never
                               /\ clusters[c].deletedAt <= clock - Retention}

PurgeExpired ==
    /\ Expired # {}
    /\ RemoveRows(Expired, "purged")
    /\ UNCHANGED accountVars

-----------------------------------------------------------------------------
(* Who asks: an administrator at any time, the owner through a request.    *)
(* trash_cluster has no guard on the status where admin_trash_cluster does.*)

ByAdmin ==
    /\ \E c \in ClusterIds :
          \/ Create(c, Nobody) \/ RotateToken(c) \/ Disable(c) \/ Enable(c)
          \/ clusters[c].status \in {"active", "disabled"} /\ Trash(c)
          \/ Restore(c) \/ PermanentlyDelete(c)
    /\ UNCHANGED accountVars

ByOwner(r) ==
    /\ \/ \E c \in ClusterIds : Create(c, requests[r])
       \/ \E c \in ClusterIds :
             /\ clusters[c].status \in Present /\ clusters[c].owner = requests[r]
             /\ RotateToken(c) \/ Trash(c) \/ Restore(c) \/ PermanentlyDelete(c)
    /\ Answer(r)
    /\ UNCHANGED <<clock, users, sessions, signIns, logins, overtaken, raced>>

\* delete_user_account: the clusters of the user go to the trash with the
\* account, one that is there already keeps its time (COALESCE), and the
\* mappings of the user are removed.
DeleteUserAccount(r) ==
    LET own == {c \in ClusterIds : /\ clusters[c].status \in Present
                                   /\ clusters[c].owner = requests[r]}
    IN  /\ DeleteAccount(r)
        /\ clusters' = [c \in ClusterIds |->
               IF c \notin own THEN clusters[c]
               ELSE TrashedRow(clusters[c], IF clusters[c].deletedAt = Never
                                            THEN clock ELSE clusters[c].deletedAt)]
        /\ NoteTrashed(own)
        /\ stored' = {x \in stored : x.table = "mappings" => x.user # requests[r]}
        /\ UNCHANGED <<issued, writers>>

-----------------------------------------------------------------------------
(* Handlers that write records of a cluster. *)

\* The handler at w has found the cluster c.
SetWriter(w, table, c, user) ==
    /\ writers[w].stage = "idle"
    /\ writers' = [writers EXCEPT ![w] =
           [stage |-> "found", table |-> table, cluster |-> c, user |-> user]]
    /\ UNCHANGED <<clusters, issued, revoked, trashedAt, stored>>

\* find_cluster_by_token: the token k of an active cluster.
FindCluster(w, c, k) ==
    /\ clusters[c].status = "active" /\ k # NoToken /\ clusters[c].token = k
    /\ SetWriter(w, "events", c, Nobody)
    /\ UNCHANGED accountVars

\* apply_generated_policy_to_cluster: the owner's active cluster.
BeginApply(w, r, c) ==
    /\ clusters[c].status = "active" /\ clusters[c].owner = requests[r]
    /\ SetWriter(w, "applies", c, Nobody)
    /\ Answer(r)
    /\ UNCHANGED <<clock, users, sessions, signIns, logins, overtaken, raced>>

\* provision_cluster_grafana: the owner's cluster, unless it is in the trash.
BeginProvision(w, r, c) ==
    /\ clusters[c].status \in {"active", "disabled"} /\ clusters[c].owner = requests[r]
    /\ SetWriter(w, "mappings", c, requests[r])
    /\ Answer(r)
    /\ UNCHANGED <<clock, users, sessions, signIns, logins, overtaken, raced>>

\* save_event, save_policy_apply_history or save_grafana_provisioning: nothing
\* asks whether the cluster, or the user, is still there.  late tells (for the
\* properties) that the cluster was not, or for a mapping that the user was not.
\* A cluster has one mapping, the last one saved.
SaveRecord(w) ==
    LET c == writers[w].cluster
        x == [table |-> writers[w].table, cluster |-> c, user |-> writers[w].user,
              late  |-> IF writers[w].table = "mappings"
                        THEN users[writers[w].user] = "deleted"
                        ELSE clusters[c].status \notin Present]
    IN  /\ writers[w].stage = "found"
        /\ stored' = {x} \cup
               {y \in stored : y.table = "mappings" /\ x.table = "mappings" => y.cluster # c}
        /\ writers' = [writers EXCEPT ![w] =
               IF writers[w].table = "events"
               THEN [writers[w] EXCEPT !.stage = "saved"] ELSE Resting]
        /\ UNCHANGED <<clusters, issued, revoked, trashedAt>>
        /\ UNCHANGED accountVars

\* Fault: the last event to arrive is taken for the latest.
LaterIsLast(seen, stamp) == stamp

\* The later, as text, of the timestamp a row holds and a new one.
Later(seen, stamp) == IF seen.text <= stamp.text THEN stamp ELSE seen

\* mark_cluster_seen with the timestamp the event carries.
MarkClusterSeen(w, stamp) ==
    LET c == writers[w].cluster
    IN  /\ writers[w].stage = "saved"
        /\ clusters' = IF clusters[c].status \in Present
                       THEN [clusters EXCEPT ![c].lastSeen = Later(@, stamp)]
                       ELSE clusters
        /\ writers' = [writers EXCEPT ![w] = Resting]
        /\ UNCHANGED <<issued, revoked, trashedAt, stored>>
        /\ UNCHANGED accountVars

-----------------------------------------------------------------------------
Next ==
    \/ AccountStep /\ UNCHANGED clusterVars
    \/ ByAdmin
    \/ PurgeExpired
    \/ \E r \in Requests : ByOwner(r) \/ DeleteUserAccount(r)
    \/ \E w \in Writers :
          \/ \E c \in ClusterIds, k \in 1..MaxTokens : FindCluster(w, c, k)
          \/ \E c \in ClusterIds, r \in Requests : BeginApply(w, r, c) \/ BeginProvision(w, r, c)
          \/ SaveRecord(w)
          \/ \E stamp \in Stamps : MarkClusterSeen(w, stamp)

Spec == Init /\ [][Next]_vars

-----------------------------------------------------------------------------
\* A token that was replaced, or whose cluster went to the trash, lets no
\* event in again, whatever restores and enables follow.
RevokedTokensStayRevoked ==
    \A c \in ClusterIds :
        clusters[c].status = "active" /\ clusters[c].token # NoToken
            => clusters[c].token > revoked[c]

\* A cluster is purged no sooner than the retention after it last went to the
\* trash, also when it was restored, or its owner's account deleted, between.
PurgedOnlyAfterRetention ==
    [][\A c \in ClusterIds :
          clusters[c].status = "deleted" /\ clusters'[c].status = "purged"
              => clock >= trashedAt[c] + Retention]_vars

\* An event or apply record of a cluster that is gone was written by a handler
\* that had found the cluster before it went; no older one is left behind.  The
\* mapping of a cluster that is gone stays (storage.py:1488-1490) until the
\* account of its user is deleted, and then only a late one is left.
OrphansAreLateWrites ==
    \A x \in stored :
        IF x.table = "mappings" THEN users[x.user] = "deleted" => x.late
        ELSE clusters[x.cluster].status \notin Present => x.late

\* Events may arrive in any order; while a cluster's row exists the timestamp it
\* was last seen at never goes back as text, so that no instant written the same
\* way as an earlier one is before it.  Between timestamps written in different
\* ways time may go back, or stand still until the text is overtaken.
LastSeenNeverGoesBack ==
    [][\A c \in ClusterIds :
          LET old == clusters[c].lastSeen
              new == clusters'[c].lastSeen
          IN  clusters[c].status \in Present /\ clusters'[c].status \in Present
                  => /\ old.text <= new.text
                     /\ old.format = new.format => old.time <= new.time]_vars
=============================================================================
