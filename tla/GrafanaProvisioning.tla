------------------------- MODULE GrafanaProvisioning -------------------------
(***************************************************************************)
(* Giving a cluster its Grafana organisation, data source, dashboards and  *)
(* viewer, and saving where they are (app/grafana/provisioning.py,         *)
(* provision_user; app/storage.py, save_grafana_provisioning).             *)
(*                                                                         *)
(* Any number of calls run at once, for one user's clusters or for those   *)
(* of several.  Grafana is external: each request is a step, which works,  *)
(* is refused, or works while its answer is lost.  A call that fails       *)
(* deletes the organisation if it created it; that may fail as well, and   *)
(* is not looked at.  Organisations are found by a name made of the user's *)
(* id.  All calls sign in as one administrator, whose current organisation *)
(* every call switches.  Deleting the account of a user removes the rows   *)
(* saved for it (app/storage.py, delete_user_account), at any time.        *)
(***************************************************************************)
EXTENDS Integers

CONSTANTS
    Calls,       \* calls of provision_user, each runs once
    Owned,       \* clusters
    OwnerOf,     \* the user of each cluster
    NoOrg,       \* no organisation
    NoCluster    \* no cluster

\* An organisation is named by the call that created it.
ASSUME ProvisioningAssumption == NoOrg \notin Calls /\ NoCluster \notin Owned

VARIABLES
    orgs,        \* organisations in Grafana, with the user they are named after
    currentOrg,  \* where the administrator was switched to
    datasources, \* data sources, with the organisation they are in
    mappings,    \* rows of grafana_provisioning
    calls,       \* where each call is
    abandoned,   \* history: organisations nobody was told of, or not rolled back
    rolledBack,  \* history: organisations a call deleted
    forgotten,   \* history: organisations there when their user's account was deleted
    unread       \* history: calls that created one and could not read its mapping back

grafanaVars ==
    <<orgs, currentOrg, datasources, mappings, calls, abandoned, rolledBack, forgotten, unread>>

Owners == {OwnerOf[k] : k \in Owned}
Steps == {"idle", "lookUp", "create", "switch", "findSource", "postSource", "putSource",
          "dashboards", "member", "save", "readBack", "rollback", "done"}
Outcomes == {"ok", "refused", "lost"}

GrafanaTypeOK ==
    /\ orgs \subseteq [id: Calls, owner: Owners]
    /\ currentOrg \in Calls \cup {NoOrg}
    /\ datasources \subseteq [org: Calls, cluster: Owned]
    /\ mappings \in [Owned -> [org: Calls \cup {NoOrg}, by: Calls \cup {NoOrg}]]
    /\ calls \in [Calls -> [step: Steps, cluster: Owned \cup {NoCluster}, org: Calls \cup {NoOrg}]]
    /\ abandoned \subseteq Calls
    /\ rolledBack \subseteq [org: Calls, by: Calls]
    /\ forgotten \subseteq Calls /\ unread \subseteq Calls

NoMapping == [org |-> NoOrg, by |-> NoOrg]

GrafanaInit ==
    /\ orgs = {} /\ currentOrg = NoOrg /\ datasources = {}
    /\ mappings = [k \in Owned |-> NoMapping]
    /\ calls = [c \in Calls |-> [step |-> "idle", cluster |-> NoCluster, org |-> NoOrg]]
    /\ abandoned = {} /\ rolledBack = {} /\ forgotten = {} /\ unread = {}

-----------------------------------------------------------------------------
Owner(c) == OwnerOf[calls[c].cluster]
OrgsOf(u) == {o \in orgs : o.owner = u}
Exists(org) == \E o \in orgs : o.id = org
Created(c) == calls[c].org = c \* created_org

At(c, step) == calls[c].step = step
MoveOn(c, step, org) ==
    calls' = [calls EXCEPT ![c] = [step |-> step, cluster |-> @.cluster, org |-> org]]
Go(c, step) == MoveOn(c, step, calls[c].org)

\* Fault: the organisation is deleted whoever created it.
AfterFailureAlways(c) == IF calls[c].org # NoOrg THEN "rollback" ELSE "done"

\* After an exception: a call undoes what it created, and only that.
AfterFailure(c) == IF Created(c) THEN "rollback" ELSE "done"

\* A request that needs the call's organisation: it moves on to step when it
\* worked and was answered, and fails otherwise.
Request(c, outcome, step) ==
    /\ outcome # "refused" => Exists(calls[c].org)
    /\ Go(c, IF outcome = "ok" THEN step ELSE AfterFailure(c))

LookUpOrg(c, ok) ==
    /\ At(c, "lookUp")
    /\ \/ ok /\ OrgsOf(Owner(c)) = {} /\ Go(c, "create")
       \/ ok /\ \E o \in OrgsOf(Owner(c)) : MoveOn(c, "switch", o.id)
       \/ ~ok /\ Go(c, "done")
    /\ UNCHANGED <<orgs, currentOrg, datasources, mappings, abandoned, rolledBack, forgotten,
                   unread>>

\* The name may be taken by now.  The id comes with the answer only.
CreateOrg(c, outcome) ==
    /\ At(c, "create")
    /\ outcome # "refused" => OrgsOf(Owner(c)) = {}
    /\ orgs' = IF outcome = "refused" THEN orgs
               ELSE orgs \cup {[id |-> c, owner |-> Owner(c)]}
    /\ abandoned' = IF outcome = "lost" THEN abandoned \cup {c} ELSE abandoned
    /\ IF outcome = "ok" THEN MoveOn(c, "switch", c) ELSE Go(c, "done")
    /\ UNCHANGED <<currentOrg, datasources, mappings, rolledBack, forgotten, unread>>

SwitchOrg(c, outcome) ==
    /\ At(c, "switch")
    /\ Request(c, outcome, "findSource")
    /\ currentOrg' = IF outcome = "refused" THEN currentOrg ELSE calls[c].org
    /\ UNCHANGED <<orgs, datasources, mappings, abandoned, rolledBack, forgotten, unread>>

\* Fault: the header is left out, switching is relied on.
TargetOrgCurrent(c) == currentOrg

\* Requests for data sources and dashboards name their organisation in a
\* header; without it they would go to the administrator's current one.
TargetOrg(c) == calls[c].org

Source(c) == [org |-> TargetOrg(c), cluster |-> calls[c].cluster]

FindDatasource(c, ok) ==
    /\ At(c, "findSource")
    /\ Request(c, IF ok THEN "ok" ELSE "refused",
               IF Source(c) \in datasources THEN "putSource" ELSE "postSource")
    /\ UNCHANGED <<orgs, currentOrg, datasources, mappings, abandoned, rolledBack, forgotten,
                   unread>>

\* Posting a data source is refused when the name is there by now.
WriteDatasource(c, outcome) ==
    /\ calls[c].step \in {"postSource", "putSource"}
    /\ At(c, "postSource") /\ Source(c) \in datasources => outcome = "refused"
    /\ Request(c, outcome, "dashboards")
    /\ datasources' = IF outcome = "refused" THEN datasources
                      ELSE datasources \cup {Source(c)}
    /\ UNCHANGED <<orgs, currentOrg, mappings, abandoned, rolledBack, forgotten, unread>>

\* Dashboards overwrite their older selves; a viewer who is in already is
\* answered 409, which is accepted.  Neither decides anything later.
ImportDashboards(c, ok) ==
    /\ At(c, "dashboards")
    /\ Request(c, IF ok THEN "ok" ELSE "refused", "member")
    /\ UNCHANGED <<orgs, currentOrg, datasources, mappings, abandoned, rolledBack, forgotten,
                   unread>>

AddViewer(c, ok) ==
    /\ At(c, "member")
    /\ Request(c, IF ok THEN "ok" ELSE "refused", "save")
    /\ UNCHANGED <<orgs, currentOrg, datasources, mappings, abandoned, rolledBack, forgotten,
                   unread>>

\* save_grafana_provisioning, one row per cluster; the database may refuse.
SaveMapping(c, ok) ==
    /\ At(c, "save")
    /\ mappings' = IF ok THEN [mappings EXCEPT ![calls[c].cluster] =
                                   [org |-> calls[c].org, by |-> c]]
                   ELSE mappings
    /\ Go(c, IF ok THEN "readBack" ELSE AfterFailure(c))
    /\ UNCHANGED <<orgs, currentOrg, datasources, abandoned, rolledBack, forgotten, unread>>

\* The row is read again in a transaction of its own, which may fail as well;
\* a row that has been removed meanwhile is an exception like any other.
ReadBack(c, ok) ==
    LET found == ok /\ mappings[calls[c].cluster].org # NoOrg
    IN  /\ At(c, "readBack")
        /\ Go(c, IF found THEN "done" ELSE AfterFailure(c))
        /\ unread' = IF ~found /\ Created(c) THEN unread \cup {c} ELSE unread
        /\ UNCHANGED <<orgs, currentOrg, datasources, mappings, abandoned, rolledBack, forgotten>>

\* _rollback_org
RollBack(c, outcome) ==
    LET org == calls[c].org
    IN  /\ At(c, "rollback")
        /\ IF outcome = "refused"
           THEN /\ abandoned' = abandoned \cup {org}
                /\ UNCHANGED <<orgs, datasources, rolledBack>>
           ELSE /\ orgs' = {o \in orgs : o.id # org}
                /\ datasources' = {d \in datasources : d.org # org}
                /\ rolledBack' = rolledBack \cup {[org |-> org, by |-> c]}
                /\ UNCHANGED abandoned
        /\ Go(c, "done")
        /\ UNCHANGED <<currentOrg, mappings, forgotten, unread>>

\* provision_cluster_grafana, for a cluster of the user who asks.
StartCall(c, cluster) ==
    /\ At(c, "idle")
    /\ calls' = [calls EXCEPT ![c] = [step |-> "lookUp", cluster |-> cluster, org |-> NoOrg]]
    /\ UNCHANGED <<orgs, currentOrg, datasources, mappings, abandoned, rolledBack, forgotten,
                   unread>>

\* delete_user_account: the user's mappings go, Grafana is told nothing.
RemoveMappings(user) ==
    /\ mappings' = [k \in Owned |-> IF OwnerOf[k] = user THEN NoMapping ELSE mappings[k]]
    /\ forgotten' = forgotten \cup {o.id : o \in OrgsOf(user)}
    /\ UNCHANGED <<orgs, currentOrg, datasources, calls, abandoned, rolledBack, unread>>

GrafanaNext ==
    \/ \E user \in Owners : RemoveMappings(user)
    \/ \E c \in Calls :
          \/ \E cluster \in Owned : StartCall(c, cluster)
          \/ \E ok \in BOOLEAN :
                \/ LookUpOrg(c, ok) \/ FindDatasource(c, ok)
                \/ ImportDashboards(c, ok) \/ AddViewer(c, ok) \/ SaveMapping(c, ok)
                \/ ReadBack(c, ok)
          \/ \E outcome \in Outcomes :
                \/ CreateOrg(c, outcome) \/ SwitchOrg(c, outcome)
                \/ WriteDatasource(c, outcome) \/ RollBack(c, outcome)

GrafanaSpec == GrafanaInit /\ [][GrafanaNext]_grafanaVars

-----------------------------------------------------------------------------
\* Calls for several users share one administrator and its current
\* organisation; a data source, and a saved mapping, is always in an
\* organisation of the cluster's own user.
TenantsStayApart ==
    /\ \A d \in datasources : \E o \in orgs : o.id = d.org /\ o.owner = OwnerOf[d.cluster]
    /\ \A k \in Owned, o \in orgs : mappings[k].org = o.id => o.owner = OwnerOf[k]

\* The organisation a cluster is mapped to is gone.
Dangling(k) == mappings[k].org # NoOrg /\ ~Exists(mappings[k].org)

\* A mapping whose organisation is gone was saved by a call that had found the
\* organisation another call created and, after a failure, rolled back, or by
\* the creator itself, which failed to read what it had saved.  An
\* organisation without a mapping is in use by a call, or lost its mapping to
\* such a late save, or its creation was never answered, or its rollback failed,
\* or it was there when its user's account was deleted.
OrgsAreAccountedFor ==
    /\ \A k \in Owned :
          Dangling(k) => /\ mappings[k].by = mappings[k].org => mappings[k].by \in unread
                         /\ [org |-> mappings[k].org, by |-> mappings[k].org] \in rolledBack
    /\ \A o \in orgs :
          \/ \E k \in Owned : mappings[k].org = o.id
          \/ \E c \in Calls : calls[c].org = o.id /\ ~At(c, "done")
          \/ \E k \in Owned : OwnerOf[k] = o.owner /\ Dangling(k)
          \/ o.id \in abandoned \cup forgotten
=============================================================================
