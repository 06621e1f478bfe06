------------------------------ MODULE MCServices ------------------------------
(***************************************************************************)
(* Handlers of the ai-server, checked together: each behaviour exercises   *)
(* one of them.  What one of them shares with another is a step of each:   *)
(* deleting an account, of Accounts, is SaveSlackSettings(FALSE) and       *)
(* RemoveMappings as well.                                                 *)
(***************************************************************************)
EXTENDS Accounts, SlackNotifier, PolicyApply, GrafanaProvisioning, GatekeeperCollector,
        PromQLScope, TLC

CONSTANTS ann, ben, v1, v2, v3

VARIABLE component

servicesVars == <<component, accountVars, slackVars, policyVars, grafanaVars, collectorVars, promVars>>

\* ann owns two clusters, ben one.
MCOwned == 1..3
MCOwnerOf == <<ann, ann, ben>>

\* Two constraints of one kind ahead of one of another.
MCKinds == <<"K1", "K2">>
MCViolations == <<v1, v2, v3>>
MCKindOf == (v1 :> "K1") @@ (v2 :> "K1") @@ (v3 :> "K2")

\* Selectors with and without a name and matchers, one of them named like an
\* aggregation; matchers on another cluster, on the own one, and on labels
\* whose names and values look like syntax.
MCMatchers == {<<>>, <<Matcher("ns", "'a,b'")>>, <<Matcher("cluster_id", "other")>>,
               <<Matcher("cluster_id", "other"), Matcher("ns", "'}'")>>,
               <<Matcher("by", "x"), Matcher("cluster_id", "own")>>}
Foreign(ms) == SelectSeq(ms, LAMBDA m : m[1].value # "cluster_id")
MCVectors ==
    {Query(<<Ident("up")>>, <<Ident("up")>> \o Braced(<<Own>>))} \cup
    {Query(name \o Braced(ms), name \o Braced(Foreign(ms) \o <<Own>>)) :
        name \in {<<>>, <<Ident("sum")>>}, ms \in MCMatchers}

\* Durations are one number and one unit; others (1h30m, [1h:5m], 1e5) the
\* code takes for selectors.
Duration == <<Number("5"), Glue(Ident("m"))>>
Labels == <<Punct("("), Ident("pod"), Punct(",")>> \o <<Ident("m"), Punct(")")>>
Wrap(before, after) == [before |-> before, after |-> after]
MCModifiers ==
    {Wrap(<<>>, <<Ident("offset")>> \o Duration),
     Wrap(<<Ident("rate"), Punct("(")>>, <<Punct("[")>> \o Duration \o <<Punct("]"), Punct(")")>>)}
MCConstructs ==
    {Wrap(<<Ident("max"), Punct("(")>>, <<Punct(")")>>),
     Wrap(<<Ident("sum"), Ident("by")>> \o Labels \o <<Punct("(")>>, <<Punct(")")>>),
     Wrap(<<Ident("count"), Punct("(")>>, <<Punct(")"), Ident("without")>> \o Labels),
     Wrap(<<Number("100"), Punct("*")>>, <<>>)}
MCOperators ==
    {<<Punct("/")>>, <<Ident("unless")>>, <<Ident("and"), Ident("on")>> \o Labels,
     <<Punct("*"), Ident("ignoring")>> \o Labels
         \o <<Ident("group_left"), Punct("("), Punct(")")>>}

ServicesTypeOK ==
    /\ AccountsTypeOK /\ SlackTypeOK /\ PolicyTypeOK /\ GrafanaTypeOK /\ CollectorTypeOK
    /\ component \in {"slack", "policy", "grafana", "collector", "prometheus", "accounts"}

ServicesInit ==
    /\ AccountsInit /\ SlackInit /\ PolicyInit /\ GrafanaInit /\ CollectorInit /\ PromInit
    /\ component \in {"slack", "policy", "grafana", "collector", "prometheus", "accounts"}

ServicesNext ==
    /\ \/ /\ component = "slack" /\ SlackNext
          /\ UNCHANGED <<accountVars, policyVars, grafanaVars, collectorVars, promVars>>
       \/ /\ component = "policy" /\ PolicyNext
          /\ UNCHANGED <<accountVars, slackVars, grafanaVars, collectorVars, promVars>>
       \/ /\ component = "grafana" /\ GrafanaNext
          /\ UNCHANGED <<accountVars, slackVars, policyVars, collectorVars, promVars>>
       \/ /\ component = "collector" /\ CollectorNext
          /\ UNCHANGED <<accountVars, slackVars, policyVars, grafanaVars, promVars>>
       \/ /\ component = "prometheus" /\ PromNext
          /\ UNCHANGED <<accountVars, slackVars, policyVars, grafanaVars, collectorVars>>
       \/ /\ component = "accounts" /\ AccountsNext
          /\ UNCHANGED <<slackVars, policyVars, grafanaVars, collectorVars, promVars>>
    /\ UNCHANGED component

\* Calls of provision_user are alike: those with lower numbers are for
\* clusters with lower numbers.
CallsInOrder ==
    \A c \in Calls, d \in Calls :
        c < d /\ ~At(c, "idle") /\ ~At(d, "idle") => calls[c].cluster <= calls[d].cluster

\* Where an account with organisations is deleted, or a mapping cannot be read
\* back, there are two calls, not three.
TwoCallsThen == forgotten \cup unread # {} => \E c \in Calls : At(c, "idle")

\* Only the collector promises progress, so that the fairness asked of it may
\* rule out behaviours of the others; the invariants hold for those as well.
ServicesSpec == ServicesInit /\ [][ServicesNext]_servicesVars /\ CollectorFairness
=============================================================================
