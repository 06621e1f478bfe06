---------------------------- MODULE PolicyApply ----------------------------
(***************************************************************************)
(* Applying a generated policy to a cluster (app/runtime_client.py,        *)
(* apply_policy_manifest, and its route in app/main.py).                   *)
(*                                                                         *)
(* A manifest is a sequence of resources.  All are tried as a dry run      *)
(* before any is applied, with one exception: a constraint cannot be tried *)
(* before Gatekeeper has registered its kind, so when a manifest has       *)
(* templates and constraints its templates are applied first and the kinds *)
(* are waited for.  Each call of the API server is a step and may fail,    *)
(* the real apply also after it took effect (the answer is lost).          *)
(***************************************************************************)
EXTENDS Integers, Sequences, Functions

CONSTANT MaxResources \* bound on the length of a manifest

ASSUME PolicyApplyAssumption == MaxResources \in Nat

VARIABLES
    manifest,  \* the resources, in the order of their application
    call,      \* where the call is, and the positions its loop has left
    results,   \* dry_run_status and apply_status of each resource
    inCluster, \* positions this call has put into the cluster
    answer     \* the status answered, and whether its text denies any real apply

policyVars == <<manifest, call, results, inCluster, answer>>

\* "other": network policies and what is not Gatekeeper's.
Classes == {"template", "constraint", "mutation", "other"}
Gatekeeper == {"template", "constraint", "mutation"}
Manifests == UNION {[1..n -> Classes] : n \in 0..MaxResources}

\* Mutations and network policies share a priority and are sorted by the
\* names of their kinds: Assign... and ModifySet are ahead of NetworkPolicy.
Priority == [template |-> 0, constraint |-> 1, mutation |-> 2, other |-> 3]

\* _order_policy_resources; resources of a class are alike.
Orderings(m) ==
    {[i \in DOMAIN m |-> m[p[i]]] :
        p \in {q \in Bijection(DOMAIN m, DOMAIN m) :
                  \A i, j \in DOMAIN m : i < j => Priority[m[q[i]]] <= Priority[m[q[j]]]}}

Positions(classes) == {i \in DOMAIN manifest : manifest[i] \in classes}
Templates == Positions({"template"})
Constraints == Positions({"constraint"})
Untried == [dryRun |-> "skipped", apply |-> "skipped"]

\* Templates go ahead of the rest when there are constraints to try.
Ahead == IF Constraints # {} THEN Templates ELSE {}

Phases == {"idle", "received", "gatekeeper", "templateDryRun", "templateApply",
           "wait", "dryRun", "apply", "answered"}
Answers == [status: {"", "unconfirmed", "invalid_manifest", "not_configured",
                     "dry_run_failed", "apply_failed", "applied"},
            denies: BOOLEAN]

PolicyTypeOK ==
    /\ manifest \in Manifests
    /\ call \in [phase: Phases, todo: SUBSET DOMAIN manifest]
    /\ results \in [DOMAIN manifest ->
           [dryRun: {"skipped", "success", "failed"},
            apply: {"skipped", "pending", "success", "failed"}]]
    /\ inCluster \subseteq DOMAIN manifest
    /\ answer \in Answers

PolicyInit ==
    /\ manifest = <<>> /\ results = <<>>
    /\ call = [phase |-> "idle", todo |-> {}]
    /\ inCluster = {} /\ answer = [status |-> "", denies |-> FALSE]

-----------------------------------------------------------------------------
Enter(phase, todo) ==
    /\ call' = [phase |-> phase, todo |-> todo]
    /\ UNCHANGED answer

Respond(status, denies) ==
    /\ call' = [phase |-> "answered", todo |-> {}]
    /\ answer' = [status |-> status, denies |-> denies]

AnswerWith(status) == Respond(status, FALSE)

\* The text of a failed dry run: no real apply was executed.
DenyApplying == Respond("dry_run_failed", TRUE)

Receive(m) ==
    /\ call.phase = "idle"
    /\ manifest' \in Orderings(m)
    /\ results' = [i \in DOMAIN m |-> Untried]
    /\ Enter("received", {})
    /\ UNCHANGED inCluster

\* After the checks of the cluster's side: templates ahead, or all at once.
Begin ==
    IF Ahead # {} THEN Enter("templateDryRun", Ahead)
    ELSE Enter("dryRun", DOMAIN manifest)

\* What is answered before the API server is asked for anything.  A warning of
\* the blast radius may be about any constraint or network policy; applying may
\* be switched off or have no service account.
Screen ==
    /\ call.phase = "received"
    /\ \/ Positions({"constraint", "other"}) # {} /\ AnswerWith("unconfirmed")
       \/ manifest = <<>> /\ AnswerWith("invalid_manifest")
       \/ manifest # <<>> /\ AnswerWith("not_configured")
       \/ manifest # <<>> /\ IF Positions(Gatekeeper) # {}
                             THEN Enter("gatekeeper", {}) ELSE Begin
    /\ UNCHANGED <<manifest, results, inCluster>>

\* _gatekeeper_installation_error
CheckGatekeeper ==
    /\ call.phase = "gatekeeper"
    /\ AnswerWith("not_configured") \/ Begin
    /\ UNCHANGED <<manifest, results, inCluster>>

First(positions) == CHOOSE i \in positions : \A j \in positions : i <= j
Failed(rs) == \E i \in DOMAIN rs : "failed" \in {rs[i].dryRun, rs[i].apply}

\* Fault: they are left as they are.
DroppedNot(rs) == rs

\* What a failed dry run makes of the resources that had passed theirs.
Dropped(rs) ==
    [i \in DOMAIN rs |->
        IF rs[i].apply = "pending" THEN [rs[i] EXCEPT !.apply = "skipped"] ELSE rs[i]]

\* One dry run of the loop over templates, or of the loop over the rest.
\* When one of the templates failed, those that passed stay "pending".
DryRunNext(ok) ==
    LET i  == First(call.todo)
        rs == [results EXCEPT ![i] =
                  IF ok THEN [dryRun |-> "success", apply |-> "pending"]
                  ELSE [dryRun |-> "failed", apply |-> "skipped"]]
        forTemplates == call.phase = "templateDryRun"
        last == call.todo = {i}
    IN  /\ call.phase \in {"templateDryRun", "dryRun"}
        /\ results' = IF last /\ Failed(rs) /\ ~forTemplates THEN Dropped(rs) ELSE rs
        /\ \/ ~last /\ Enter(call.phase, call.todo \ {i})
           \/ last /\ Failed(rs) /\ DenyApplying
           \/ last /\ ~Failed(rs) /\
                 IF forTemplates THEN Enter("templateApply", Templates)
                 ELSE Enter("apply", DOMAIN manifest \ Ahead)
        /\ UNCHANGED <<manifest, inCluster>>

\* How _server_side_apply ends: an unknown kind of resource is refused as well.
PatchOutcomes == {"ok", "refused", "lost"}

\* One real apply.  "lost": it took effect and its answer did not come.
ApplyNext(outcome) ==
    LET i  == First(call.todo)
        rs == [results EXCEPT ![i].apply = IF outcome = "ok" THEN "success" ELSE "failed"]
        forTemplates == call.phase = "templateApply"
        last == call.todo = {i}
    IN  /\ call.phase \in {"templateApply", "apply"}
        /\ results' = rs
        /\ inCluster' = IF outcome = "refused" THEN inCluster ELSE inCluster \cup {i}
        /\ \/ ~last /\ Enter(call.phase, call.todo \ {i})
           \/ last /\ Failed(rs) /\ AnswerWith("apply_failed")
           \/ last /\ ~Failed(rs) /\
                 IF forTemplates THEN Enter("wait", Constraints) ELSE AnswerWith("applied")
        /\ UNCHANGED manifest

\* One round of _wait_for_gatekeeper_constraint_discovery: the kinds of the
\* constraints found are registered; after the timeout the call gives up.
AwaitKinds(found, timedOut) ==
    LET missing == call.todo \ found
    IN  /\ call.phase = "wait"
        /\ \/ missing = {} /\ Enter("dryRun", DOMAIN manifest \ Ahead) /\ UNCHANGED results
           \/ missing # {} /\ ~timedOut /\ Enter("wait", missing) /\ UNCHANGED results
           \/ /\ missing # {} /\ timedOut /\ AnswerWith("dry_run_failed")
              /\ results' = [i \in DOMAIN results |->
                     IF i \in Constraints THEN [dryRun |-> "failed", apply |-> "skipped"]
                     ELSE results[i]]
        /\ UNCHANGED <<manifest, inCluster>>

PolicyNext ==
    \/ \E m \in Manifests : Receive(m)
    \/ Screen
    \/ CheckGatekeeper
    \/ \E ok \in BOOLEAN : DryRunNext(ok)
    \/ \E outcome \in PatchOutcomes : ApplyNext(outcome)
    \/ \E found \in SUBSET call.todo, timedOut \in BOOLEAN : AwaitKinds(found, timedOut)

PolicySpec == PolicyInit /\ [][PolicyNext]_policyVars

-----------------------------------------------------------------------------
\* What the answer says of each resource is what happened to the cluster.
\* "success" is in it, "skipped" and "pending" are not; "applied" means all of
\* them; after a failed dry run or an earlier refusal, at most templates that
\* went ahead of their constraints are in it; no constraint is without every
\* template.  The text that no real apply was executed (runtime_client.py:215)
\* is wrong about just those templates; the results beside it list them.
AnswerMatchesCluster ==
    call.phase = "answered" =>
        /\ \A i \in DOMAIN results :
              /\ results[i].apply = "success" => i \in inCluster
              /\ results[i].apply \in {"skipped", "pending"} => i \notin inCluster
              /\ results[i].apply = "pending" => answer.denies /\ i \in Ahead
        /\ answer.status = "applied" <=>
              results # <<>> /\ \A i \in DOMAIN results : results[i].apply = "success"
        /\ answer.status = "dry_run_failed" => inCluster \subseteq Ahead
        /\ answer.denies => \A i \in inCluster : results[i].apply = "success"
        /\ answer.status \in {"unconfirmed", "invalid_manifest", "not_configured"} => inCluster = {}
        /\ Constraints \cap inCluster # {} => Templates \subseteq inCluster
=============================================================================
