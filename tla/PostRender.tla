---------------------------- MODULE PostRender ----------------------------
(***************************************************************************)
(* manifests.post_render: the fixups of a rendered chart, which deploy     *)
(* makes to plan an upgrade and Helm's post-renderer makes to install it,  *)
(* and what they are for: the pods that run after upgrades of release      *)
(* podiumd which turn parts of the chart on and off and may fail between   *)
(* two objects. Which upgrades a deploy skips is HelmDeploy's.             *)
(*                                                                         *)
(* A document is a record with the fields the fixups touch; documents and  *)
(* containers are sets, as no fixup depends on their order.                *)
(***************************************************************************)
EXTENDS Naturals, SequencesExt

CONSTANTS
  Rendered(_),    \* helm template: the documents for a set of the Toggles
  Toggles,        \* parts of the chart that a deploy turns on or off
  ObjectenMerged(_), \* options().objecten_merged, which --full turns on for some charts
  Retried,        \* RETRIED_CONTAINERS: [kind, base, container]
  Entrypoints,    \* IMAGE_ENTRYPOINTS: of containers that set no command
  ExternalsJobs,  \* EXTERNALS_DELETED_JOBS
  ZacJobs,        \* ZAC_JOBS
  Capacity,       \* CAPACITY_ENV
  MaxDeploys,     \* bound
  MaxFaults       \* bound: pods that restart by themselves, and deploys cut off

ASSUME PostRenderAssumption ==
  /\ MaxDeploys \in Nat /\ MaxFaults \in Nat /\ IsFiniteSet(DOMAIN Capacity)
  /\ \A name \in DOMAIN Entrypoints : Entrypoints[name] \in Seq(Range(Entrypoints[name]))

(******************************* Documents *********************************)

\* first: its document's first container, where a fixup tells it apart; memory: it has a limit.
Container == [name |-> "main", first |-> FALSE, init |-> FALSE, image |-> "app", digest |-> "none",
              env |-> <<>>, from |-> {}, command |-> <<>>, args |-> <<>>, memory |-> FALSE, cpu |-> 1,
              mounts |-> {}, probes |-> "chart"]

\* resources: of the resource that an operator reads: "none", "unlimited" or "limited" memory.
Doc == [kind |-> "ConfigMap", name |-> "", base |-> "", hook |-> "none", large |-> FALSE,
        backends |-> {}, data |-> {}, notes |-> {}, links |-> TRUE, alone |-> FALSE,
        replicas |-> 1, volumes |-> {}, containers |-> {}, resources |-> "none"]

PodKinds == {"Deployment", "StatefulSet", "DaemonSet", "CronJob"}
HasPod(d) == d.kind \in PodKinds \cup {"Job"}
Runtime(d) == HasPod(d) \/ d.kind \in {"Keycloak", "Prometheus", "Elasticsearch", "Kibana"}
IsA(d, kind, name) == d.kind = kind /\ d.name = name
Has(docs, kind, name) == \E d \in docs : IsA(d, kind, name)

Each(S, P(_), F(_)) == {IF P(x) THEN F(x) ELSE x : x \in S}
Inside(d, P(_), F(_)) == [d EXCEPT !.containers = Each(@, P, F)]
All(x) == TRUE

\* Mutant: this program's value wins.
MergeEnv_OursWin(env, values) ==
  SelectSeq(env, LAMBDA item : item[1] \notin DOMAIN values)
    \o SetToSeq({<<name, values[name]>> : name \in DOMAIN values})

\* A variable that is set already wins.
Names(env) == {env[i][1] : i \in DOMAIN env}
MergeEnv(env, values) ==
  env \o SetToSeq({<<name, values[name]>> : name \in DOMAIN values \ Names(env)})
AddEnv(c, values) == [c EXCEPT !.env = MergeEnv(@, values)]

ConfigMapsUsed(d) == d.volumes \cup UNION {c.from : c \in d.containers}

\* An operator merges the containers override into the Prometheus it builds.
Override(d) ==
  IF d.kind = "Prometheus" /\ \A c \in d.containers : c.name # "prometheus"
  THEN [d EXCEPT !.containers = @ \cup
          {[Container EXCEPT !.name = "prometheus", !.memory = d.resources = "limited"]}]
  ELSE d

(******************************** Fixups ***********************************)

\* The digests that are dropped from the images stay as an annotation, but not on a Job.
Digests(d) == {<<"digests", c.digest>> : c \in {c \in d.containers : c.digest # "none"}}
Load(docs) ==
  {[Inside(d, All, LAMBDA c : [c EXCEPT !.digest = "none"])
      EXCEPT !.notes = @ \cup IF d.kind \in {"Job", "Pod"} THEN {} ELSE Digests(d)] : d \in docs}

DropCollector(docs) == {d \in docs : ~IsA(d, "Deployment", "zac-opentelemetry-collector")}

HoldZac(docs, hold) ==
  Each(docs, LAMBDA d : hold /\ IsA(d, "Deployment", "zac"), LAMBDA d : [d EXCEPT !.replicas = 0])

DisableServiceLinks(docs) ==
  Each(docs, LAMBDA d : d.kind \in PodKinds, LAMBDA d : [d EXCEPT !.links = FALSE])

AllowRollingUpdates(docs) ==
  Each(docs, LAMBDA d : d.kind = "Deployment", LAMBDA d : [d EXCEPT !.alone = FALSE])

\* The order of what is kept is left out: no name is there twice.
IsLast(env, i) == \A j \in DOMAIN env : j > i => env[j][1] # env[i][1]
LastOnly(env) == SetToSeq({env[i] : i \in {i \in DOMAIN env : IsLast(env, i)}})

DropDuplicateEnv(docs) ==
  Each(docs, Runtime, LAMBDA d : Inside(Override(d), All, LAMBDA c : [c EXCEPT !.env = LastOnly(@)]))

WithValue(docs, value) == {d \in docs : d.kind = "ConfigMap" /\ value \in d.data}
Replaced(docs, old, new) ==
  Each(docs, LAMBDA d : d \in WithValue(docs, old), LAMBDA d : [d EXCEPT !.data = (@ \ {old}) \cup {new}])

\* Mutant: Jobs are annotated too.
RollReaders_Jobs(docs, names, note) ==
  Each(docs, LAMBDA d : HasPod(d) /\ ConfigMapsUsed(d) \cap names # {},
       LAMBDA d : [d EXCEPT !.notes = @ \cup {note}])

\* Mutant: only mounted ConfigMaps count.
RollReaders_Env(docs, names, note) ==
  Each(docs, LAMBDA d : d.kind \in PodKinds /\ d.volumes \cap names # {},
       LAMBDA d : [d EXCEPT !.notes = @ \cup {note}])

\* A pod reads its ConfigMaps at its start: a change of the annotation replaces it.
RollReaders(docs, names, note) ==
  Each(docs, LAMBDA d : d.kind \in PodKinds /\ ConfigMapsUsed(d) \cap names # {},
       LAMBDA d : [d EXCEPT !.notes = @ \cup {note}])

Target(docs) == IF Has(docs, "Service", "frankgateway-outway") THEN "outway" ELSE "api-proxy"
NamesWith(docs, value) == {d.name : d \in WithValue(docs, value)}

RouteOutbound(docs) ==
  RollReaders(Replaced(docs, "api-proxy", Target(docs)), NamesWith(docs, "api-proxy"),
              <<"outbound", Target(docs)>>)

LimitNginxWorkers(docs) ==
  RollReaders(Replaced(docs, "workers auto", "workers 1"), NamesWith(docs, "workers auto"),
              <<"nginx-workers", "1">>)

RouteThroughNginx(docs) ==
  Each(docs, LAMBDA d : d.kind = "Ingress" /\ "zac" \in d.backends /\ Has(docs, "Service", "zac-nginx"),
       LAMBDA d : [d EXCEPT !.backends = (@ \ {"zac"}) \cup {"zac-nginx"}])

\* The resource's resources replace those of its container.
TuneKeycloak(docs) ==
  LET Server(d, c) ==
        [AddEnv(c, [JAVA_OPTS_APPEND |-> "ours"])
           EXCEPT !.memory = IF c.name = "keycloak" /\ d.resources # "none" THEN d.resources = "limited" ELSE @]
      Operator(c) == AddEnv(c, [JDK_JAVA_OPTIONS |-> "ours"])
  IN Each(Each(docs, LAMBDA d : d.kind = "Keycloak",
                     LAMBDA d : Inside(d, All, LAMBDA c : Server(d, c))),
          LAMBDA d : IsA(d, "Deployment", "keycloak-operator"), LAMBDA d : Inside(d, All, Operator))

TuneKcadm(docs) ==
  Each(docs, LAMBDA d : d.kind = "Job",
       LAMBDA d : Inside(d, LAMBDA c : c.image = "keycloak", LAMBDA c : AddEnv(c, [KC_OPTS |-> "ours"])))

SpeedUpKeycloakStart(docs) ==
  LET Eased(c) == [c EXCEPT !.probes = IF @ = "none" THEN @ ELSE "eased",
                         !.cpu = IF c.name = "keycloak-builder" THEN 2 ELSE @]
  IN Each(docs, LAMBDA d : d.kind = "Keycloak", LAMBDA d : Inside(d, All, Eased))

\* The workload's name may end in a hash of its contents.
IsRetried(d, c) == \E r \in Retried : r.kind = d.kind /\ r.base = d.base /\ r.container = c.name
CommandOf(c) == IF c.command = <<>> THEN Entrypoints[c.name] ELSE c.command
Until == "until"
Loop == <<"sh", "-c", Until>>
Wraps(command) == Len(command) > 2 /\ command[3] = Until

\* Of another container without a command no entrypoint is known (KeyError).
Knows(c) == c.command = <<>> => c.name \in DOMAIN Entrypoints
Known(docs) == \A d \in docs : HasPod(d) => \A c \in d.containers : IsRetried(d, c) => Knows(c)

\* Mutant: a command that the chart wraps is wrapped again.
RetryInContainer_Always(docs) ==
  LET Retry(c) == [c EXCEPT !.command = Loop \o <<"retry">> \o CommandOf(c) \o c.args, !.args = <<>>]
  IN {Inside(d, LAMBDA c : HasPod(d) /\ IsRetried(d, c), Retry) : d \in docs}

RetryInContainer(docs) ==
  LET Retry(c) == [c EXCEPT !.command = Loop \o <<"retry">> \o CommandOf(c) \o c.args, !.args = <<>>]
  IN {Inside(d, LAMBDA c : HasPod(d) /\ IsRetried(d, c) /\ ~Wraps(CommandOf(c)), Retry) : d \in docs}

\* SolrCloud's containers stand for the options of the pods its operator builds.
TuneSolr(docs) ==
  LET Solr(c) == AddEnv(AddEnv(c, [GC_TUNE |-> "ours"]), Capacity)
      ZooKeeper(c) == AddEnv(AddEnv(c, [ZK_SERVER_HEAP |-> "ours"]), Capacity)
  IN Each(docs, LAMBDA d : d.kind = "SolrCloud",
          LAMBDA d : Inside(Inside(d, LAMBDA c : c.name = "solr", Solr),
                            LAMBDA c : c.name = "zookeeper", ZooKeeper))

LiveNodeWait == [Container EXCEPT !.name = "wait-for-stale-live-node", !.init = TRUE, !.image = "solr",
                                  !.env = <<<<"POD_NAME", "pod">>, <<"ZK_HOST", "zookeeper">>>>,
                                  !.command = <<"sh", "-c", "wait for live_nodes">>, !.memory = TRUE]
EaseSolrStart(docs) ==
  Each(docs, LAMBDA d : d.kind = "SolrCloud",
       LAMBDA d : [Inside(d, All, LAMBDA c : [c EXCEPT !.probes = "eased"])
                     EXCEPT !.containers = @ \cup {LiveNodeWait}])

RoleMapping == "zaakbrug-oauth-role-mapping"
MountZaakbrugRoleMapping(docs) ==
  Each(docs, LAMBDA d : Has(docs, "ConfigMap", RoleMapping) /\ IsA(d, "Deployment", "zaakbrug"),
       LAMBDA d : [Inside(d, All, LAMBDA c : [c EXCEPT !.mounts = @ \cup {RoleMapping}])
                     EXCEPT !.volumes = @ \cup {RoleMapping}])

LimitRuntimes(docs) ==
  LET Limit(c) == LET tuned == AddEnv(c, Capacity)
                  IN IF c.memory THEN AddEnv(tuned, [GOMEMLIMIT |-> "limits.memory"]) ELSE tuned
  IN Each(docs, Runtime, LAMBDA d : Inside(Override(d), All, Limit))

TrustCa(docs) ==
  LET Trust(c) == AddEnv([c EXCEPT !.mounts = @ \cup {"ca"}], [SSL_CERT_FILE |-> "ours"])
  IN Each(docs, HasPod, LAMBDA d : [Inside(d, All, Trust) EXCEPT !.volumes = @ \cup {"ca"}])

IsFirst(c) == c.first
ServePostgresTls(docs) ==
  LET Tls(c) == [c EXCEPT !.mounts = @ \cup {"postgres-tls"},
                          !.command = <<"sh", "-c", "install tls; exec $@", "--">>,
                          !.args = @ \o <<"ssl=on">>]
      Postgres(d) == IsA(d, "Deployment", "postgres")
      Served == Each(docs, Postgres,
                     LAMBDA d : [Inside(d, IsFirst, Tls) EXCEPT !.volumes = @ \cup {"postgres-tls"}])
  IN Served \cup IF \E d \in docs : Postgres(d)
                 THEN {[Doc EXCEPT !.kind = "Certificate", !.name = "postgres-tls"]}
                 ELSE {}

\* Open Object's merged shape: podiumd's Jobs need tokens, and one item's field is refused.
MergeObjecten(docs, merged) ==
  Each(docs, LAMBDA d : merged /\ IsA(d, "ConfigMap", "objecten-configuration"),
       LAMBDA d : [d EXCEPT !.data = (@ \ {"service_identifier"}) \cup {"superuser token"}])

\* Mutant: the containers that later fixups add get no limits.
PostRender_LimitsFirst(docs, hold, merged) ==
  LET rolled == LimitNginxWorkers(RouteOutbound(DropDuplicateEnv(AllowRollingUpdates(
                  DisableServiceLinks(HoldZac(DropCollector(docs), hold))))))
      tuned == RetryInContainer(SpeedUpKeycloakStart(TuneKcadm(TuneKeycloak(LimitRuntimes(
                 RouteThroughNginx(rolled))))))
      mounted == MountZaakbrugRoleMapping(EaseSolrStart(TuneSolr(tuned)))
  IN MergeObjecten(ServePostgresTls(TrustCa(mounted)), merged)

\* post_render: the fixups in their order.
PostRender(docs, hold, merged) ==
  LET rolled == LimitNginxWorkers(RouteOutbound(DropDuplicateEnv(AllowRollingUpdates(
                  DisableServiceLinks(HoldZac(DropCollector(docs), hold))))))
      tuned == RetryInContainer(SpeedUpKeycloakStart(TuneKcadm(TuneKeycloak(RouteThroughNginx(rolled)))))
      mounted == MountZaakbrugRoleMapping(EaseSolrStart(TuneSolr(tuned)))
  IN MergeObjecten(ServePostgresTls(TrustCa(LimitRuntimes(mounted))), merged)

\* deploy's plan has neither tests nor delete hooks; CRDs and large ConfigMaps go their own way.
FixUp(docs, merged) ==
  {d \in PostRender({d \in Load(docs) : d.hook \notin {"test", "delete"}}, FALSE, merged) :
     d.kind # "CustomResourceDefinition" /\ ~d.large}
Jobs(docs) == {d.name : d \in {e \in docs : e.kind = "Job"}}

(***************************** Deploys *************************************)

VARIABLES
  cluster,   \* the objects on the cluster
  pods,      \* each workload's pod: the values of the ConfigMaps it read at its start
  want,      \* what the running upgrade installs
  step,      \* "idle", or where the upgrade is: "settings", "workloads", "refused"
  on,        \* the toggles of the last deploy
  finished,  \* the last deploy installed all it wanted
  deploys, faults

rolloutVars == <<cluster, pods, want, step, on, finished, deploys, faults>>

Key(d) == <<d.kind, d.name>>
Live(d) == {e \in cluster : Key(e) = Key(d)}
Pods == {e \in want : HasPod(e)}
Template(d) == [d EXCEPT !.replicas = 0]
Values(docs, d) == UNION {e.data : e \in {e \in docs : e.kind = "ConfigMap" /\ e.name \in ConfigMapsUsed(d)}}
Put(new) == {e \in cluster : Key(e) \notin {Key(d) : d \in new}} \cup new
Workload(d) == d.kind \in PodKinds

RolloutInit ==
  /\ cluster = {} /\ pods = <<>> /\ want = {} /\ step = "idle" /\ on = {} /\ finished = FALSE
  /\ deploys = 0 /\ faults = 0

\* The one-shot Jobs go first: they run again, and a Job's pod template is immutable. A deploy
\* that knows no entrypoint of a container to retry has ended by then.
Deploy(t) ==
  /\ step = "idle" /\ deploys < MaxDeploys /\ Known(Rendered(t))
  /\ LET jobs == Jobs(FixUp(Rendered(t), ObjectenMerged(t)))
         hold == jobs \cap ZacJobs # {} /\ ~Has(cluster, "Deployment", "zac")
         again == jobs \cap ExternalsJobs
     IN /\ want' = {d \in PostRender(Load(Rendered(t)), hold, ObjectenMerged(t)) : d.hook = "none"}
        /\ cluster' = {d \in cluster : ~(d.kind = "Job" /\ d.name \in again)}
  /\ step' = "settings" /\ on' = t /\ finished' = FALSE /\ deploys' = deploys + 1
  /\ UNCHANGED <<pods, faults>>

\* Helm installs ConfigMaps and Services before workloads.
Settings ==
  /\ step = "settings"
  /\ cluster' = Put({d \in want : ~HasPod(d)})
  /\ step' = "workloads"
  /\ UNCHANGED <<pods, want, on, finished, deploys, faults>>

\* What is not there yet is created: its pods read the ConfigMaps as they are now.
Create ==
  /\ step = "workloads"
  /\ LET new == {d \in Pods : Live(d) = {}}
         made == {Key(d) : d \in {e \in new : Workload(e)}}
     IN /\ new # {}
        /\ cluster' = Put(new)
        /\ pods' = [k \in DOMAIN pods \cup made |->
                     IF k \in made THEN Values(cluster, CHOOSE d \in new : Key(d) = k) ELSE pods[k]]
  /\ UNCHANGED <<want, step, on, finished, deploys, faults>>

\* A workload's new template replaces its pod; the API server refuses one for a Job that is there.
Patch(d) ==
  LET same == \E e \in Live(d) : Template(e) = Template(d)
  IN /\ step = "workloads" /\ d \in Pods \ cluster /\ Live(d) # {}
     /\ cluster' = IF Workload(d) THEN Put({d}) ELSE cluster
     /\ pods' = IF Workload(d) /\ ~same THEN [pods EXCEPT ![Key(d)] = Values(cluster, d)] ELSE pods
     /\ step' = IF Workload(d) THEN step ELSE "refused"
     /\ UNCHANGED <<want, on, finished, deploys, faults>>

\* What the release no longer has goes last.
Finish ==
  /\ step = "workloads" /\ Pods \subseteq cluster
  /\ cluster' = want
  /\ pods' = [k \in DOMAIN pods \cap {Key(d) : d \in want} |-> pods[k]]
  /\ step' = "idle" /\ finished' = TRUE
  /\ UNCHANGED <<want, on, deploys, faults>>

Cut ==
  /\ step # "idle" /\ faults < MaxFaults
  /\ step' = "idle" /\ faults' = faults + 1
  /\ UNCHANGED <<cluster, pods, want, on, finished, deploys>>

PodRestarts(d) ==
  /\ d \in cluster /\ Workload(d) /\ Key(d) \in DOMAIN pods /\ faults < MaxFaults
  /\ pods[Key(d)] # Values(cluster, d)
  /\ pods' = [pods EXCEPT ![Key(d)] = Values(cluster, d)] /\ faults' = faults + 1
  /\ UNCHANGED <<cluster, want, step, on, finished, deploys>>

RolloutNext ==
  \/ \E t \in SUBSET Toggles : Deploy(t)
  \/ Settings \/ Create \/ Finish \/ Cut
  \/ \E d \in want : Patch(d)
  \/ \E d \in cluster : PodRestarts(d)

RolloutSpec == RolloutInit /\ [][RolloutNext]_rolloutVars

(****************************** Charts *************************************)
(* What the theorems take of a chart. *)

\* Documents and containers have the fields that the fixups touch; a ConfigMap runs nothing.
IsContainer(c) ==
  c = [name |-> c.name, first |-> c.first, init |-> c.init, image |-> c.image, digest |-> c.digest, env |-> c.env,
       from |-> c.from, command |-> c.command, args |-> c.args, memory |-> c.memory, cpu |-> c.cpu,
       mounts |-> c.mounts, probes |-> c.probes]
IsRecord(d) ==
  d = [kind |-> d.kind, name |-> d.name, base |-> d.base, hook |-> d.hook, large |-> d.large,
       backends |-> d.backends, data |-> d.data, notes |-> d.notes, links |-> d.links, alone |-> d.alone,
       replicas |-> d.replicas, volumes |-> d.volumes, containers |-> d.containers, resources |-> d.resources]
IsDoc(d) ==
  /\ IsRecord(d) /\ \A c \in d.containers : IsContainer(c)
  /\ d.kind = "ConfigMap" => d.containers = {}
AreDocs(docs) == \A d \in docs : IsDoc(d)

ConfigsIn(docs) == {d \in docs : d.kind = "ConfigMap"}
JobsIn(docs) == {d \in docs : d.kind = "Job"}
Unique(docs) == \A d, e \in docs : HasPod(d) /\ HasPod(e) /\ Key(d) = Key(e) => d = e

Toggled == SUBSET Toggles

\* Documents are well formed, and workloads and Jobs have a name of their own; a Job is small.
WellFormed ==
  \A t \in Toggled :
    /\ AreDocs(Rendered(t)) /\ Unique(Rendered(t))
    /\ \A d \in JobsIn(Rendered(t)) : ~d.large

\* A Job that two renders have is the same but for its images' digests, or is deleted first.
JobsStay ==
  \A t, u \in Toggled : \A d \in JobsIn(Rendered(t)), e \in JobsIn(Rendered(u)) :
    d.name = e.name => Load({d}) = Load({e}) \/ d.name \in ExternalsJobs

\* ConfigMaps are part of the release, by other names than what this program adds; no URL of the
\* outbound proxy is in ZaakBrug's role mapping; and the fixups' annotations are theirs alone.
ConfigsApart ==
  \A t \in Toggled :
    /\ \A c \in ConfigsIn(Rendered(t)) :
         /\ c.hook = "none" /\ c.name \notin {"ca", "postgres-tls"}
         /\ c.name = RoleMapping => "api-proxy" \notin c.data
    /\ \A d \in Rendered(t) : Workload(d) =>
         \A n \in d.notes : n[1] \notin {"outbound", "nginx-workers", "digests"}

\* A workload's ConfigMap is rendered with it, and what changes in it changes the workload's
\* annotations (charts put checksum/config there; ZaakBrug's role mapping is always the same). So
\* does what changes objecten_merged, where a workload reads objecten's.
ConfigsBelong ==
  \A t, u \in Toggled : \A d \in Rendered(t), c \in ConfigsIn(Rendered(u)) :
    Workload(d) /\ c.name \in ConfigMapsUsed(d) => \E x \in ConfigsIn(Rendered(t)) : x.name = c.name
ConfigsStay ==
  \A t, u \in Toggled : \A d \in Rendered(t), e \in Rendered(u) :
    Workload(d) /\ Key(d) = Key(e) /\ d.notes = e.notes =>
      \A c \in ConfigsIn(Rendered(t)), x \in ConfigsIn(Rendered(u)) :
        c.name = x.name /\ c.name \in ConfigMapsUsed(d) \cup {RoleMapping} =>
          /\ c.data = x.data
          /\ c.name = "objecten-configuration" => ObjectenMerged(t) = ObjectenMerged(u)

\* A container's variables, command and arguments are lists, and its document has no other of its
\* name; another document has another name.
IsList(s) == s \in Seq(Range(s))
IsEnv(env) == IsList(env) /\ \A i \in DOMAIN env : env[i] = <<env[i][1], env[i][2]>>
IsTyped(c) == IsEnv(c.env) /\ IsList(c.command) /\ IsList(c.args)
RuntimesApart ==
  \A t \in Toggled : \A d \in Rendered(t) : Runtime(d) =>
    /\ \A c \in d.containers : IsTyped(c)
    /\ \A b, c \in d.containers : b.name = c.name => b = c
    /\ \A e \in Rendered(t) : Key(e) = Key(d) => e = d

\* What a container runs; the image's entrypoint when it sets no command.
ImageEntrypoint(c) == <<"entrypoint", c.image>>
Argv(c) == (IF c.command = <<>> THEN ImageEntrypoint(c) ELSE c.command) \o c.args
Loops(argv) == Cardinality({i \in DOMAIN argv : argv[i] = Until})
\* A container that is retried has one loop around its command, if the chart wraps it, and else none;
\* without a command it has the entrypoint that IMAGE_ENTRYPOINTS has of it.
LoopsApart ==
  \A t \in Toggled : \A d \in Rendered(t) : HasPod(d) => \A c \in d.containers :
    IsRetried(d, c) /\ Knows(c) =>
      /\ c.command = <<>> => Entrypoints[c.name] = ImageEntrypoint(c)
      /\ Loops(Argv(c)) = IF Wraps(CommandOf(c)) THEN 1 ELSE 0

\* The chart's own override of Prometheus's container has the limit of its resource.
PrometheusTold ==
  \A t \in Toggled : \A d \in Rendered(t) : d.kind = "Prometheus" /\ d.resources = "limited" =>
    \A c \in d.containers : c.name = "prometheus" => c.memory

(***************************** Properties **********************************)

\* After a deploy every pod runs with its ConfigMaps as they are: turning the outway on or off
\* replaces the pods that read the changed URL (route_outbound, manifests.py:228).
PodsRunCurrent ==
  finished => \A d \in cluster : Workload(d) => pods[Key(d)] = Values(cluster, d)

\* No deploy is refused over a Job that an earlier one left: what a toggle changes reaches no
\* Job's pod template, and a Job that does change has another name or is deleted first.
JobsAccepted == step # "refused"

\* Apart from the loop around it.
Program(argv) == IF Wraps(argv) THEN SubSeq(argv, 5, Len(argv)) ELSE argv
Before(d, c) ==
  {b \in UNION {e.containers : e \in {e \in Rendered(on) : Key(e) = Key(d)}} : b.name = c.name}

\* A container runs what its chart has it run, at most one retry loop around it, exactly one when it
\* fails while a dependency starts, whether or not the chart wraps it itself (retry_in_container); all
\* but Postgres's own, whose command serve_postgres_tls changes.
Serves(d, c) == IsA(d, "Deployment", "postgres") /\ c.first
RunsTheSame ==
  finished => \A d \in cluster : HasPod(d) =>
    \A c \in {c \in d.containers : ~Serves(d, c)} : \A b \in Before(d, c) :
      /\ Program(Argv(c)) = Program(Argv(b))
      /\ Loops(Argv(c)) = IF IsRetried(d, c) THEN 1 ELSE Loops(Argv(b))

\* A variable of the chart keeps the value that Kubernetes uses, its last, and each is set once
\* (drop_duplicate_env, _merge_env).
ValueOf(env, name) ==
  LET at == {i \in DOMAIN env : env[i][1] = name}
  IN env[CHOOSE i \in at : \A j \in at : j <= i][2]
EnvKept ==
  finished => \A d \in cluster : Runtime(d) => \A c \in d.containers :
    /\ Len(c.env) = Cardinality(Names(c.env))
    /\ \A b \in Before(d, c) : \A name \in Names(b.env) : ValueOf(c.env, name) = ValueOf(b.env, name)

\* Every container that the cluster will limit has GOMEMLIMIT, the ones too whose limit an operator
\* takes from its resource (limit_runtimes, tune_keycloak): in workloads, Jobs and the resources whose
\* operators limit_runtimes knows. SolrCloud is not one of them: the init container that ease_solr_start
\* adds (manifests.py:603) has a limit and no GOMEMLIMIT.
GoLimited ==
  LET Limited(d, c) == \/ c.memory
                       \/ d.resources = "limited" /\ d.kind = "Keycloak" /\ c.name = "keycloak"
                       \/ d.resources = "limited" /\ d.kind = "Prometheus" /\ c.name = "prometheus"
      HasLimit(c) == "GOMEMLIMIT" \in Names(c.env)
  IN finished => \A d \in cluster : Runtime(d) =>
       /\ \A c \in d.containers : Limited(d, c) => HasLimit(c)
       /\ d.kind = "Prometheus" /\ d.resources = "limited" => \E c \in d.containers : HasLimit(c)
=============================================================================
