---------------------------- MODULE MCKubernetes ----------------------------
(***************************************************************************)
(* Two manifests, of three kinds of changeset: claims and their storage    *)
(* classes, configuration and the workloads that name it, workloads and    *)
(* what else can change about them.                                        *)
(***************************************************************************)
EXTENDS Kubernetes

MCDigests == {"app@sha256:1", "app@sha256:2"}

Doc(api, kind, name, body) == [api |-> api, kind |-> kind, ns |-> "web", name |-> name, body |-> body]
Plain(kind) == Doc("v1", kind, "it", [rest |-> ""])

NoKind  == Plain("")
Broken  == Plain(Malformed)
Nothing == Plain(Blank)

\* Both sides of a file, and the statuses a provider gives such a pair.
FileOf(was, is, yaml) ==
    {[status |-> s, old |-> was, new |-> is, yaml |-> yaml] :
        s \in CASE was = << >> -> {"ADDED"}
                [] is = << >> /\ was # << >> -> {"REMOVED", "MODIFIED"}
                [] OTHER -> {"MODIFIED"}}

FilesOf(texts) == UNION {FileOf(was, is, TRUE) : was \in texts, is \in texts}

-----------------------------------------------------------------------------

Pvc(class, number, suffix) ==
    Doc("v1", Claim, "data", [class |-> class, storage |-> [number |-> number, suffix |-> suffix], rest |-> ""])
Class(api, reclaim) ==
    [Doc(api, "StorageClass", "fast", [reclaim |-> reclaim, rest |-> ""]) EXCEPT !.ns = ""]

\* 1M is less than 1Mi.
Claims ==
    {<< >>, <<Pvc("fast", 1, "Mi")>>, <<Pvc("fast", 1, "M")>>, <<Pvc("slow", 1, "Mi")>>,
     <<Pvc("fast", 1, "Mo")>>, <<Pvc("fast", 0, "(absent)")>>,
     <<Class("v1", "Retain"), Pvc("fast", 2, "M")>>, <<Pvc("fast", 1, "Mi"), NoKind>>, <<Broken>>}

Classes ==
    {<< >>, <<Class("v1", "Delete")>>, <<Class("v1", "Retain")>>, <<Class("v1", "")>>,
     <<Class("v1", "Retain"), Class("v1beta1", "Delete")>>}

-----------------------------------------------------------------------------

Api == [image |-> "app@sha256:1", probes |-> {"readinessProbe"}, resources |-> "", env |-> {}, envFrom |-> {},
        rest |-> ""]

Body == [selector |-> "a", claims |-> "", strategy |-> "", replicas |-> 1, labels |-> "",
         containers |-> [n \in {"api"} |-> Api], volumes |-> {}, rest |-> ""]

Workload(kind, body) == Doc("apps/v1", kind, "it", body)
With(container) == [Body EXCEPT !.containers = [n \in {"api"} |-> container]]

Mounting  == [Body EXCEPT !.volumes = {<<"Secret", "it">>}]
Injecting == With([Api EXCEPT !.env = {<<"ConfigMap", "it">>}])
Importing == With([Api EXCEPT !.envFrom = {<<"Secret", "it">>}])

\* The same Deployment beside configuration and the namespace it lives in.
Configs ==
    {<< >>, <<Plain("ConfigMap")>>, <<Plain("Secret")>>, <<Nothing, Plain("Secret"), Plain("ConfigMap")>>,
     <<Workload("Deployment", Body)>>, <<Workload("Deployment", Mounting)>>,
     <<Workload("Deployment", Injecting)>>, <<Workload("DaemonSet", Importing), Plain("Secret")>>,
     <<Plain("Namespace")>>, <<Plain("Ingress")>>, <<Broken>>}

-----------------------------------------------------------------------------

Bodies ==
    {Body, [Body EXCEPT !.selector = "b", !.replicas = 2], [Body EXCEPT !.strategy = "Recreate"],
     [Body EXCEPT !.labels = "b", !.rest = "b"], [Body EXCEPT !.claims = "b"],
     With([Api EXCEPT !.image = "app@sha256:2"]), With([Api EXCEPT !.image = "app:1", !.resources = "b"]),
     With([Api EXCEPT !.probes = {}]),
     [Body EXCEPT !.containers = [n \in {"api", "init"} |-> Api]]}

Service(type, ip) == Doc("v1", "Service", "it", [type |-> type, clusterIP |-> ip, rest |-> ""])

Deployed == {<< >>} \cup {<<Workload("Deployment", b)>> : b \in Bodies}
                    \cup {<<Service("ClusterIP", "")>>, <<Service("LoadBalancer", "1")>>}
Stateful == {<< >>} \cup {<<Workload("StatefulSet", b)>> : b \in {Body, [Body EXCEPT !.claims = "b"]}}

-----------------------------------------------------------------------------

\* What a second file may be to a change of workloads: gone, a copy, no YAML.
Asides ==
    FileOf(<<Workload("Deployment", Body)>>, << >>, TRUE) \cup FileOf(<<Plain("Secret")>>, <<Plain("Secret")>>, TRUE)
        \cup FileOf(<<Workload("Deployment", Body)>>, <<Workload("Deployment", Body)>>, TRUE)
        \cup FileOf(<<Plain("Secret")>>, << >>, FALSE)
        \cup {[status |-> "RENAMED", old |-> <<Plain("Secret")>>, new |-> <<Plain("Secret")>>, yaml |-> TRUE]}

MCChangesets ==
    (FilesOf(Claims) \X FilesOf(Claims)) \cup (FilesOf(Claims) \X FilesOf(Classes))
        \cup (FilesOf(Classes) \X FilesOf(Claims)) \cup (FilesOf(Configs) \X FilesOf(Configs))
        \cup (FilesOf(Deployed) \X Asides) \cup (Asides \X FilesOf(Deployed))
        \cup (FilesOf(Stateful) \X FilesOf(Stateful))
=============================================================================
