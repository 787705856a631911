--------------------------- MODULE MCPostRender ---------------------------
(* A chart with one document of each kind that a fixup is about. The toggles: Frank!Gateway's *)
(* outway, --full, which has ZaakBrug's role mapping and merges objecten, and images rebuilt  *)
(* under their tag.                                                                           *)
EXTENDS PostRender

Config(name, data) == [Doc EXCEPT !.name = name, !.base = name, !.data = data]
Plain(kind, name) == [Doc EXCEPT !.kind = kind, !.name = name, !.base = name]
With(kind, name, containers) == [Plain(kind, name) EXCEPT !.containers = containers]
Job(base, suffix, container) == [With("Job", base \o suffix, {container}) EXCEPT !.base = base]

MCRetried == {[kind |-> "Job", base |-> "import-realm", container |-> "kc-config-cli"],
              [kind |-> "Job", base |-> "openbao-config", container |-> "config"],
              [kind |-> "Deployment", base |-> "zac", container |-> "init-solr"]}
MCEntrypoints == [name \in {"kc-config-cli"} |-> <<"entrypoint", "config-cli">>]
MCCapacity == [MALLOC_ARENA_MAX |-> "2"]
MCMerged(t) == "full" \in t

MCRendered(t) ==
  LET digest == IF "rebuilt" \in t THEN "new" ELSE "old"
      c(name) == [Container EXCEPT !.name = name]
  IN { Config("apps", {"api-proxy", "name"}), Config("api-proxy", {"workers auto"}),
       Config("objecten-configuration", {"service_identifier"}),
       [With("Deployment", "objecten", {[c("objecten") EXCEPT !.from = {"objecten-configuration"}]})
          EXCEPT !.notes = {<<"checksum", "full" \in t>>}],
       Plain("Service", "zac"), Plain("Service", "zac-nginx"),
       [Plain("Ingress", "zac") EXCEPT !.backends = {"zac"}],
       Plain("CustomResourceDefinition", "keycloaks"),
       [Plain("Pod", "test") EXCEPT !.hook = "test"],
       [Config("dashboards", {"dashboard"}) EXCEPT !.large = TRUE],
       With("Deployment", "zac-opentelemetry-collector", {c("collector")}),
       With("Deployment", "openinwoner",
            {[c("worker") EXCEPT !.from = {"apps"}, !.memory = TRUE, !.digest = digest,
                !.env = <<<<"CONCURRENCY", "4">>, <<"MALLOC_ARENA_MAX", "8">>, <<"CONCURRENCY", "1">>>>]}),
       [With("Deployment", "api-proxy", {c("nginx")}) EXCEPT !.volumes = {"api-proxy"}, !.alone = TRUE],
       With("Deployment", "zac",
            {[c("init-solr") EXCEPT !.init = TRUE, !.command = <<"curl">>, !.args = <<"solr">>],
             [c("zac") EXCEPT !.from = {"apps"}]}),
       With("Deployment", "zaakbrug", {c("frank")}),
       With("Deployment", "postgres",
            {[c("postgres") EXCEPT !.first = TRUE, !.args = <<"-c", "max_connections">>], c("exporter")}),
       With("Deployment", "keycloak-operator", {c("operator")}),
       [With("Keycloak", "keycloak", {c("keycloak"), [c("keycloak-builder") EXCEPT !.init = TRUE]})
          EXCEPT !.resources = "limited"],
       [With("Keycloak", "spare", {[c("keycloak") EXCEPT !.memory = TRUE]}) EXCEPT !.resources = "unlimited"],
       [Plain("Prometheus", "prometheus") EXCEPT !.resources = "limited"],
       With("SolrCloud", "zac", {c("solr"), c("zookeeper")}),
       Job("import-realm", "-1a2b", [c("kc-config-cli") EXCEPT !.image = "config-cli", !.args = <<"--import">>]),
       Job("admin-user", "", [c("admin-user") EXCEPT !.image = "keycloak", !.command = <<"kcadm.sh">>]),
       Job("openbao-config", "",
           [c("config") EXCEPT !.from = {"apps"}, !.digest = digest, !.command = Loop \o <<"retry", "bao", "write">>]),
       Job("openbeheer-config", IF "rebuilt" \in t THEN "-2" ELSE "-1", [c("setup") EXCEPT !.from = {"apps"}, !.digest = digest]),
       Job("openzaak-config", "", [c("setup") EXCEPT !.command = IF "full" \in t THEN <<"b">> ELSE <<"a">>]) }
     \cup (IF "outway" \in t
           THEN {Plain("Service", "frankgateway-outway"),
                 With("Deployment", "frankgateway-outway", {c("frank")})}
           ELSE {})
     \cup (IF "full" \in t THEN {Config(RoleMapping, {"roles"})} ELSE {})

\* The theorems' hypotheses on charts hold of this one.
ASSUME MCChart == /\ WellFormed /\ JobsStay /\ ConfigsApart /\ ConfigsBelong /\ ConfigsStay
               /\ RuntimesApart /\ LoopsApart /\ PrometheusTold
=============================================================================
