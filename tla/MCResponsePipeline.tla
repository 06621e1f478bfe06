------------------------- MODULE MCResponsePipeline -------------------------
(* A small cluster for TLC: two web pods of one deployment, whose names    *)
(* agree in their first 45 characters, a pod without labels, and a pod in  *)
(* a system namespace; one event of each kind the pipeline tells apart.    *)
EXTENDS ResponsePipeline, TLC

CONSTANTS web1, web2, bare, dns

MCPods == {web1, web2, bare, dns}

MCPodNamespace == web1 :> "prod" @@ web2 :> "prod" @@ bare :> "dev" @@ dns :> "kube-system"

MCNamePrefix == web1 :> "web" @@ web2 :> "web" @@ bare :> "bare" @@ dns :> "dns"

MCLabels == web1 :> {<<"app", "web">>, <<"tier", "front">>}
         @@ web2 :> {<<"app", "web">>} @@ bare :> {} @@ dns :> {<<"k8s-app", "dns">>}

Plain == [parses |-> TRUE, canary |-> FALSE, meta |-> TRUE, cid |-> "container",
          pod |-> web1, marks |-> {}, infraImage |-> FALSE, benign |-> FALSE,
          base |-> "high", boosts |-> {}, signals |-> {}]

Host == [Plain EXCEPT !.meta = FALSE, !.cid = "host", !.pod = NoPod]

Critical   == Plain
Looked     == [Plain EXCEPT !.meta = FALSE, !.pod = web2]
OnBare     == [Plain EXCEPT !.pod = bare]
OnSystem   == [Plain EXCEPT !.pod = dns]
Canary     == [Host EXCEPT !.canary = TRUE]
Malformed  == [Plain EXCEPT !.parses = FALSE]
Package    == [Host EXCEPT !.marks = {"sysProc", "sysPname"}]
Daemon     == [Host EXCEPT !.marks = {"daemonUid", "sysPname"}]

MCEvents == {Critical, Looked, OnSystem, Canary, Malformed, Package, Daemon}

(* For the run that isolates and nothing else, and the one with restarts.  *)
MCIsolations == {Critical, OnBare}
MCRestarts == {Critical, Looked, Package}

Symmetry == Permutations(Threads)
=============================================================================
