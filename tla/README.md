# Verification of podiumd-minikube

`podiumd-minikube` is a command line program that runs PodiumD, a set of Helm
releases with their databases, on one shared minikube cluster. It keeps almost
no state of its own: every command reads the cluster, decides what to do and
does it in a row of kubectl, helm and docker calls, any of which may fail or be
cut off. What is hard about it is therefore not a data structure but

- **people and processes that share the cluster**, kept apart by a lock file;
- **what a failed, interrupted or killed command leaves behind**, and whether the
  next run, which looks only at what it finds, can go on from there;
- **reads that describe the past**: a recorded digest, a Deployment's status, a Job
  that is no longer listed, a confirmation given for what was shown a minute ago.

The modules here model ten parts of the program where these matter most.

## Inventory

| Part (src/src/podiumd_minikube) | State | Operations | What makes it correct | Module |
|---|---|---|---|---|
| cluster lock (`lock.py`, `cli.py`) | the lock file's line; `HOLD_ENV` in a process' environment | take, held, release, `cluster-lock take/release/run/break` | nobody changes the cluster beside somebody else; a hold is given back | `ClusterLock` |
| deploy and its Helm releases (`deploy.py`, `releases.py`, `deployed.py`, `kiss.py`) | the cluster's objects, Helm's revisions, the recorded digests | render, `_changed`, `_prepare`, the upgrades, `record`, start of ZAC | "Deployed." means that the selection runs, after whatever failed before | `HelmDeploy` |
| shared Postgres (`postgres.py`) | data directories, databases, roles, dump files | `migrate_major`, `rename_databases`, `create_missing_databases`, `align_with_azure` | no rows are lost, every application can use its database | `PostgresMigration` |
| readiness wait (`deploy.py` `_wait_ready`, `polling.py`) | Jobs, workload status, ZAC's replicas and boot | poll, scale, restart once, time out | "rolled out, completed" is so; ZAC does not start early; the wait ends | `WaitReady` |
| the node's tuning (`provision.py` `start_node`, `cni.py`) | drop-ins, static-pod env and resolv.conf on the node, what runs with them | start, write, restart, wait | an interrupted run is made up for; the run that says so left a tuned node | `NodeTuning` |
| the node's images (`provision.py` `load_images`, `refresh_images`) | digests: the registry's tags, the host's, the node's, the pods' | load, pull, import, remove old tags | pods run what the chart pins | `NodeImages` |
| chart dependencies (`dependency.py`, `versions.py`) | versions file, `charts/*.tgz`, Chart.yaml, checkouts | select, package, `helm dependency update` | the tarballs are the selected ones; Chart.yaml is put back | `DependencySync` |
| edge (`gateway.py`, `dns.py`) and tunnel (`tunnel.py`) | routes, Services, ClusterIP, CoreDNS, /etc/hosts, route and process | apply, pin the ClusterIP, set up, stop | hosts are served when a command says so; pruning and applying routes take none away | `EdgeGateway` |
| reset, OpenBao (`teardown.py`, `openbao.py`, `keyvault.py`) | namespaces, finalizers, volumes, vault, recovery key, root token | reset, teardown, activate | an emptied cluster and the key it is opened with belong together | `ResetVault` |
| post-renderer (`manifests.py`) | the rendered documents, and the pods they lead to | `post_render`, `fix_up` | no upgrade is refused, no pod runs with old settings, containers run what the chart says | `PostRender` |
| start after a stop (`restart.py`) | pod conditions | start-cluster | no stale readiness is taken for a new one | none |
| pod counts (`replicas.py`) | objects of two renders | switch | the patches make one render of the other | none |
| the rest (`keycloak`, `services`, `crds`, `volumes`, `objecten`, `pki`, `tls`, `values`, `ports`, `status`, `chart`, `upgrade`, `memory`, `disk`, `process`, `kube`) | none between calls | single calls, text, output | | none |

How the parts meet. `deploy`, `provision-cluster` and the resets run under the lock
(`lock.holding`): inside it nothing else changes the cluster as long as the lock
excludes, which is why `HelmDeploy`, `PostgresMigration`, `NodeImages` and
`ResetVault` have one command at a time. `setup-tunnel`, `update-hosts` and
`set-podiumd-version` take no lock; `EdgeGateway` and `DependencySync` let them run
beside anything. A deploy is `DependencySync`'s sync, `PostRender` on what helm renders
(its plan is a constant of `HelmDeploy`), `NodeImages`' refresh, `EdgeGateway`'s apply,
`PostgresMigration`'s steps, `HelmDeploy`'s upgrades, and `WaitReady`.

## Modules

In every module a command is a program counter `pc` whose labels are the points between
two calls that change something, one action per call (or per branch of one), and an
action that ends the command at any of those points (`Fail`, `Cut`, `Kill`,
`Interrupt`): a raised error, a timeout, a killed process, a reboot. Nothing survives a
command but what is in the cluster, on the node or in a file, so these are the other
variables. Operators that end in `_Suffix` are mutants, plausible bugs kept beside the
definition they change; the properties must find each.

### ClusterLock, ExclusiveHold, ClusterLockProofs

`file` is the lock file, `NoFile` when there is none; a file that was created and
not yet written has `NoLine`, which `parse` reads as a hold of `unknown`. `env` is
`HOLD_ENV` in each process, `depth` and `took` its nested `held` blocks and those
that took the lock, `hand` the line a person works under after `cluster-lock
take`. Each system call is an action: `Check` (is the lock ours), `Create`
(`O_CREAT | O_EXCL`), `Refuse`, `Write`, `Leave` (`release` looks whether the file
is ours), `Unlink`. `release --who` and `break` read, show, ask and remove in
separate steps. `Kill` ends a process between any two of them. A line stands for
its holder and the second of its start time; two commands of the same second
write equal lines, and the model keeps that.

`Coordinated` says what people do: remove a hold one at a time, and break one only
when it was dead when shown (README of the program: "only when its holder is
gone"). `ReleaseAnyway` lets somebody `release` whose `take` was refused. The run
assumes that people release what they took. `cluster-lock run` is modelled as it is used,
with commands of this program that take the lock themselves and find it theirs.

`ExclusiveHold` is what the lock promises: a set of users under one holder, which
changes only when there is no user left. `IsExclusive` is the refinement mapping: the holder is the file's line, the users those in a held block or
working by hand.

### HelmDeploy, MCHelmDeploy, HelmDeployProofs

`live` gives each object its owning release and content, `helm` each release's
last deployed and latest revision, `last` the recorded digests. A deploy goes
through the labels of `pc` in the order of `_deploy` and `_upgrade`: render, plan
(`hold_zac`, `_changed`), prepare (delete what is taken over), this chart's own
release, the storage Job, the thread pool with the other releases in any order,
once more the own release when objects moved (the `finally` block), record, start
ZAC, and a second pass with KISS's website when the first had to leave it out.

Helm is external and modelled by what the code relies on: an upgrade replaces the
last deployed revision, refuses to adopt an object of another release, runs the
pre-upgrade hook first, applies its objects, then deletes those only the replaced
revision had. A failing upgrade stops after any subset of its objects; a killed one
also leaves at most that release pending, which makes Helm refuse every later
upgrade of it. Renders are constants: a small set of selections, each with a
variant without the website. Within a variant the releases' objects are disjoint,
which is an assumption of the module. `Barred` is what `website_hook_blocked` looks up in the
cluster, Elasticsearch's Service and the policy that is to admit the hook (`Admits` are the
contents that do); `WithZacJobs` are the variants whose render has one of ZAC's Jobs, the only
ones for which `hold_zac` holds it.

`switched` is a history variable: after a failed deploy, another selection was
deployed. There the recorded digests are of no use any more, since a failed deploy
records nothing but may have upgraded releases; `--every-release` repairs what a deploy would skip
(not what Helm leaves behind, see Known weaknesses). The properties leave out what is deployed in between:
`SkippedIsLive` and `NoConflict` say nothing while `switched`, `DeployedIsLive` nothing of a deploy without
`--every-release` then.

### PostgresMigration, PostgresMigrationProofs

One application whose database and role have an old and a new name
(`RENAMED_DATABASES`), the data directory of each major, the init SQL that fills a
new one, the dump and its kept files. Rows are abstracted to the number of the last
write they hold; `written` is the last write that was confirmed to the application.
Every SQL statement is an action, since each commits by itself, and `Interrupt` ends
the deploy before any of the statements in `InterruptAt`. The application writes
between deploys only: writes between the dump and the restore are lost by design.

### WaitReady, WaitReadyProofs

One `poll` is `settled` with its kubectl calls as separate actions (`Jobs`, `Scale`,
`ReadStuck`, `ReadLog`, `Restart`, `Done`). Beside it, Jobs end and are removed by
their TTL, Open Zaak comes up and may go down, the Deployment controller observes a
new generation late, and ZAC boots, gives up when Open Zaak or what its Jobs make is
missing, and is restarted by its liveness probe. Workloads other than ZAC are
represented by Open Zaak, the one ZAC depends on.

### NodeTuning, NodeProofs

A unit is a static pod, a service or the kubelet's configuration. `file` is what is
written for it on the node, `live` what it runs with, `mirror` what kubectl shows of a
static pod. `start_node` writes only what differs (`TuneControl`, `TuneService`,
`IsolateDns`, `Isolate`), restarts only what it wrote (`Restart`), and waits until the
static pods it changed are shown tuned and ready (`WaitFor`), beside `while_starting`
(`Load`). The kubelet restarts a static pod whose file changed (`Sync`), which becomes
ready later (`PodReady`) and is shown later still (`Show`): first as a new mirror pod
without a status. `StopNode` is a reboot, after which minikube rewrites the static pods
and the laptop may have another nameserver.

### NodeImages, MCNodeImages, NodeProofs

The four places of an image's digest: `registry`, `host`, `stored` (on the node), `pod`, and the
workload's annotation `template`. The node shows no digest for an image that was loaded from
the host, so `stale_images` (`Stale`) takes the host tag's. `MCEnds` has an image whose text another
one ends with, which `missing_images` cannot tell apart. `Rebuild`, `Select` and `Collect` are
the publisher, another chart and the kubelet's garbage collection. `CutOff` ends a run
anywhere but between `docker tag` and the import (`ImportsCut`), and what is pulled gets
imported (`PullsFail`); with either constant the digests drift apart (below). In `load_images` a pull that fails is only a warning:
the image is then on neither host nor node (`LoadImage`).

### DependencySync, MCDependencySync, ChartProofs

Two commands, `set-podiumd-version` (`Select`, then the sync) and the sync of a deploy,
in steps: versions file read and written entry by entry, `Chart.yaml` backed up, edited,
restored, each checkout's subcharts built, old tarballs unlinked, a new one packaged. A
tarball is what it was made of: a published chart, or a revision of a checkout with the
subcharts beside it. `alone` and `mixed` are history variables: whether another
command was active since this one began, and whether any were active at a time since a
command alone last replaced all tarballs.

### EdgeGateway, MCEdgeGateway, EdgeGatewayProofs

A deploy prunes routes, then Services, applies Services, then routes, waits for the edge
and pins its ClusterIP, and writes CoreDNS' block; a render is which backend each host
has and where. NGF follows (`seen`), but keeps the target of an ExternalName Service that
changes in place. `setup-tunnel` (`tpc`), `update-hosts`, the tunnel's record of the IP, its death, reboots,
`stop-tunnel` and a recreated cluster run beside it. `lasting` says that the
/etc/hosts line was written, or found up to date, after a deploy. A host is served (`Answer`) when CoreDNS has the
edge Service's address for it (`Reached`) and NGF sends it on. Pinning deletes an edge Service with another ClusterIP:
every host is away until NGF has made it again and CoreDNS has the new address, in the deploy's later steps. `Unbroken`
exempts that one step and no other; `HostsServe` says that it is over by the upgrades.

### ResetVault, MCResetVault, ResetVaultProofs

A reset empties all namespaces at once (`Empty`), clears finalizers on every poll
(`Poll`) while operators put them back (`PutBack`), then deletes volumes, hostPath data,
cluster-scoped leftovers and, last, the recovery key. The key belongs to a numbered
vault, whose database is Postgres' data. `Activate` to `Revoke` are `openbao.activate`: it returns without the
`openbao-config` Job in the render, podiumd's script initialises the vault (`Script`) and then stores its key
(`StoreKey`), and the outway's keys are written only where its Deployment is (`Outway`). A deploy that ends between the
script's two steps is left out by `ScriptCut` (Known weaknesses). The
cluster objects of the run are a labelled ClusterRole, one of an operator without the
label, a templated CRD, a CRD of a `crds/` directory that has the label, and one that the
cluster came with.

### PostRender, MCPostRender, ChartProofs

The fixups of `manifests.py`, each an operator on a set of documents, composed in the
order of `post_render` and of `fix_up`; a document is a record of the fields some fixup
reads or changes. `Deploy`, `Settings`, `Create`, `Patch`, `Finish` are an upgrade of
release podiumd seen from its objects: ConfigMaps first, then workloads, and a Job's pod
template is immutable. A pod holds the ConfigMap values it read at its start. The run's chart has one document for each
fixup, and three toggles: the outway, `--full` (ZaakBrug's role mapping, and Open Object's merged shape,
`ObjectenMerged`), images rebuilt under their tag. `Entrypoints` is `IMAGE_ENTRYPOINTS`: a container that is retried, sets no
command and is not in it raises a KeyError, so such a render is not deployed (`Known`). Two fixups exempt something
from a property: `serve_postgres_tls` changes the command of Deployment postgres's first container (`RunsTheSame`
leaves that out, `Serves`), and `ease_solr_start` adds an init container with a limit to SolrCloud, a resource that
`limit_runtimes` does not look at, so that it gets no GOMEMLIMIT (`GoLimited` and `EnvKept` are about workloads, Jobs and
the resources in `_runtime_pod_specs`). The docstring of `trust_ca` ("Jobs are recreated by every deploy",
manifests.py:387) is true of the Jobs that deploy deletes; the others stay, which is what `JobsAccepted` is about.
What the theorems take of a chart (`WellFormed` to `PrometheusTold`) stands in `PostRender`, and `MCChart`
has TLC evaluate it for the run's chart.

## Runs

| Run | Question | Bounds |
|---|---|---|
| `lock_holds` | Does the lock exclude, survive kills, nest and come back, and implement an exclusive hold? | 3 processes (two contenders and a child or a remover), one person, nesting 2, two seconds (equal and different lines), one kill |
| `deploy_moves` | Does a deploy end with what was selected, with a moved object, failures and a kill? | 2 selections that differ in every way `_changed` looks at, one with ZAC's Jobs and one without, 2 failures, 1 kill; podiumd's upgrade does not fail by itself where an object moves |
| `deploy_moved` (violation) | Is the moved object there after a failed podiumd upgrade? | as above, no kill |
| `postgres_deploys` | Are all rows there and usable after deploys that change the major, rename, create and align? | 2 majors, 3 starting names, 3 writes, 1 interruption at any statement of `InterruptAt` |
| `postgres_restore` (violation) | Can a deploy be interrupted before the restore? | 2 majors, 1 interruption |
| `wait_polls` | Is "all completed" so, does ZAC wait, does the wait end? | 3 Jobs (both of ZAC's and another), failing ones, 1 outage, time-outs |
| `node_boots` | Is a node that a run reports tuned, whatever was written before? | 2 static pods, 3 services, 2 networks, 1 run cut off, 1 reboot |
| `images_pinned` | Do pods run what the chart pins? | 3 images (two tags of a repository, one whose text ends with another's), 2 digests, 3 changes outside, 1 run cut off |
| `dependency_syncs` | Do tarballs match the selection, is Chart.yaml put back? | 2 processes, 2 charts, a published version and a checkout, 3 commands, 1 edit, 1 kill |
| `edge_serves` | Is every host served after a deploy, taken away by no step but the recreation of the edge Service, and is the tunnel up when reported? | 2 hosts, 4 renders, 2 selections, 1 deploy that ends early, 1 loss (tunnel, reboot, teardown) |
| `vault_resets` | Do vault and key belong together, is a reset complete, does it end? | 2 namespaces, 2 objects, 5 kinds of cluster objects, 2 vaults, 2 runs cut off |
| `pods_roll` | Do pods run with current settings, are Jobs accepted, do containers run what the chart says? | 26 to 29 documents, 3 toggles, 3 deploys, 1 fault |

Why the bounds are enough: most violations need at most two actors that
change something and one that observes it; a command meets what one earlier one left,
and that one what another left. Every property of a passing run is violated by a mutant of
the code under the same bounds. What the bounds leave out is covered, where there are
proofs, by theorems for every value of the constants, and their hypotheses name what they do not
cover. Larger bounds do show more where a theorem has such a hypothesis: a second early end in
`postgres_deploys` and a third selection in `deploy_moves` (Known weaknesses).

Fairness. `ClusterLock`: every started process goes on, and its outermost block ends,
because it is a finite sequence of calls; nothing is assumed of people or of
nesting. `HelmDeploy`, `PostgresMigration`: a started deploy goes on, and somebody
runs a failed one again (`RetryConverges` is about that person). `WaitReady`: the poll
goes on, Jobs end, the controller observes, ZAC's boot ends, its probe fires and Open
Zaak comes up. `NodeTuning`: the run goes on, and the kubelet restarts, readies and shows
each static pod. `ResetVault`: the run goes on, each namespace is polled, its
controller runs and its operators' pods end. `Settles` excludes a failed ZAC Job: ZAC cannot
boot then and the wait runs to its timeout.

`CHECK_DEADLOCK FALSE` stands where the bounds let the system stop: `wait_polls` (the
wait has ended), `dependency_syncs` and `pods_roll` (all commands are used up).

## Findings

- `deploy_moved`: after a failed podiumd upgrade the retry no longer sees the moved
  objects as moved, as deploy.py says, but Helm still deletes them: it replaces the last
  *deployed* revision. The deploy ends without them.
- `postgres_restore`: the decision to migrate compares majors only; a deploy that ended
  before the restore is followed by one that goes on with empty databases. The dump
  file is kept (`NothingGone`).

## Known weaknesses

Cases the passing runs leave out by a constant or a condition in the property. Each is
reproduced by the change named here.

- *Lock.* `break` unlinks whatever hold is there when the answer comes: with
  `Coordinated = FALSE` it removes a live hold that replaced the dead one it showed, and
  `MutualExclusion` fails. With `ReleaseAnyway = TRUE` the release of somebody whose take was
  refused removes a `cluster-lock run` of the same name (`LiveHoldStays`): the name alone is compared.
- *Digests after a switch.* `SkippedLive` without `switched`, `Selection = {"v1", "v3"}`: "render
  unchanged since the last deploy" compares with the last *recorded* one; a failed deploy
  of another selection in between changed the release.
- *Leftovers after a switch.* With a third selection: v2, in whose release of this chart an object is new,
  fails half-way; v1 is deployed with `--every-release`, which clears `switched`, but Helm deletes only what the
  replaced revision had and leaves that object; v3, which has it in podiumd's release, is refused
  (`NoConflict`).
- *Renames.* `InterruptAt = {"role"}`: the rename's guard looks at database names only, the
  role keeps its old name for ever (`AppCanConnect`). `{"grant"}`: a database given to postgres
  is never granted (`AppCanConnect`). `{"open"}`: the database stays closed and every later deploy fails (`RetryConverges`), and with a change
  of major `pg_dumpall` leaves it out (`NothingGone`, also at `{"rename"}`).
- *Two early ends.* `MaxInterrupts = 2`: a deploy that ends after the renaming (at `"missing"`, say) leaves the
  application on the old name; if the next one changes the major, the new directory's init SQL makes an empty
  database of that name, and if that deploy ends before the upgrade too, the application writes
  there. The next deploy leaves those writes behind (`RowsKept`).
- *Expired Jobs.* `FailedExpire = TRUE`: a failed Job that its TTL removed while something else
  was waited for counts as completed (`ReadyIsReady`).
- *Images.* `ImportsCut = TRUE`: the host's tag has moved, the image was not imported, and the
  next deploy takes the tag's digest for the node's. `PullsFail = TRUE`: the same with a lost import,
  which only warns (`RunsPinned`, `HostTagTells`).
- *Node.* A run cut between writing a drop-in and the restart is not made up for by the
  next run but by a reboot; `TunedWhenDone` says so with `cut`.
- *Checkouts.* `Declared = "4.10"`: a checkout whose Chart.yaml has a published version makes a
  tarball that passes for the published one (`SyncMatches`). `SyncMatches` without `~mixed`, `MaxCommands = 4`:
  a version selected while another command syncs leaves two tarballs of a chart, and the sync is content with them.
- *Reset.* `NodeAnswers = FALSE`: the data could not be cleared, a warning, but the recovery key is
  moved aside as if it were (teardown.py:162-169); the vault that comes back has none (`KeyKept`). `ScriptCut = TRUE`: a
  deploy that ends while podiumd's script has initialised the vault and not yet stored its key (openbao.py:159) leaves a
  vault that nobody can activate (`KeyKept`).
- *Reruns and settings.* `MaxFaults = 2`: a deploy cut off after its ConfigMaps, a pod that restarts by
  itself and a deploy back to the old value leave that pod with the other one (`PodsRunCurrent`).
- *Pinning.* `Unbroken` without its exemption: on a cluster from before the pinned ClusterIP, the deploy that pins it deletes
  the edge Service (gateway.py:236), and until its later steps no host is served.
- *SolrCloud.* `GoLimited` over SolrCloud's containers too: `wait-for-stale-live-node` (manifests.py:603-614) has a limit and no
  GOMEMLIMIT.
- *Overrides.* A chart that gives Prometheus an override of its `prometheus` container without a limit gets no GOMEMLIMIT
  there, though the operator limits it from the resource: such a container in `MCRendered` breaks `GoLimited`.
- *Tunnel.* "already up" does not look at the route; two `setup-tunnel` may run at a time; a spawned
  process that dies at once beside a recorded IP is still called up, which `TunnelProven` allows with `died`.

## Proofs

All results hold for every value of the constants under the modules' own assumptions.

`ClusterLockProofs`. `TypeCorrect`, with `DepthInv` (who is in a block, and who has room
for one more) as the strengthening that keeps `depth` within its bound. Under `Careful`
(people coordinate and release what they took), from the inductive invariant `LockInv`:
`ChangersHoldTheLock` (whoever changes the cluster does so under the file's line),
`MutuallyExclusive` (two that change it at a time belong to one hold), `LiveHoldsStay`
(no step removes the hold of somebody at work). `MutualExclusion` alone is not inductive:
it says nothing of a process that is about to write, or of a remover that has read.
`LockInv` adds what each process has at each label (`Frames`), that a file with a line
belongs to whoever carries that line and an empty one to its writer (`FileOwner`), that a
process which carries a line it did not take is the child of the one that did
(`Family`), and that what a remover was shown is still there and still dead (`Removal`);
the last is where `Coordinated` is needed. Nothing rests on start times being different:
what keeps equal lines apart is that `Create` needs no file. Two more rest on it.
`StaleOnlyAfterKill` (`StaleOnlyByKill`) needs `AttendedInv`: until something is killed, a file
has somebody who will write it, release it, or holds it by hand, and this survives refusals,
exceptions and nested blocks. `LockIsExclusive` (`IsExclusive`) is the refinement of
`ExclusiveHold`, step by step: a step is a stutter unless it takes, joins, leaves or gives up
the hold, and a removal is the abstract release only because nobody is left who uses it.

`WaitReadyProofs`. `TypeCorrect`; `ReadyMeansReady` (`ReadyIsReady`, unless the TTL removes
failed Jobs); `ZacWaitsForJobs`, `RestartsOnce`. `PollInv` relates what a poll has read to
what has happened since: a Job that had ended does not run again (`JobsRead`); ZAC is at
0 exactly while it is held, and stays rolled out once seen so until the poll itself
restarts it (`ZacRead`). Without it a success could be made of reads that were true at
different times.

`NodeProofs`, for `NodeTuning`. `TypeCorrect`, `TunedWhenRunEnds`, `ResolvConfIsThere`. `TunedWhenDone` needs to
know, at every label, why what was *not* written is already running so: `TuningInv` says that what runs tuned is written so
(`Lives`) and shown so (`Shown`), that everything a run has been over is written (`BeenOver`), and that without a cut only
what this run changed may lag behind its file (`PodsFollow`, `ServicesFollow`, `ConfigFollows`).

`NodeProofs`, for `NodeImages`, assuming `Imported` (what is pulled gets imported). `ImagesTypeCorrect`,
`HostTagIsTheNodes`, `PodsRunPins`. `ImagesInv` has what is on its way between pull and import
(`OnTheWay`), that a deploy leaves nothing stale behind it (`Refreshed`), and that a pod from the host
runs what its annotation says (`PodsAnnotated`): that is why comparing annotations is enough.

`ChartProofs`, for `DependencySync`. `TypeCorrect` and `YamlIsKept` without a hypothesis, and under `Distinct` (checkouts
declare no published version) `TarballsMatch`. `SyncInv` has that an active command which is alone is the only
one (`OnlyOne`), that its backup is what it found (`YamlKept`), what it has built (`SubchartsBuilt`), and that outside
`mixed` times and under `Distinct` there is one tarball per chart and each is wanted or still to be packaged
(`OnePerChart`, `Packed`).

`ChartProofs`, for `PostRender`. The theorems are about any chart, its toggles, `RETRIED_CONTAINERS` and the rest of
the constants; what they take of the chart is that

- its documents are well formed, its workloads and Jobs have a name of their own, and its Jobs are small (`WellFormed`);
- two renders have a Job of one name only if it differs in nothing but its images' digests, or is one that deploy deletes
  first (`JobsStay`): charts name a changed Job anew;
- its ConfigMaps are part of the release, do not have the names of the volumes that the fixups add, and its annotations are
  not the fixups' (`ConfigsApart`);
- a workload's ConfigMaps are rendered with it, and what changes in them changes its annotations (`ConfigsBelong`,
  `ConfigsStay`): the `checksum/config` of charts, computed before the post-renderer changes anything;
- its containers are well formed and have a name of their own in their document, and so have the documents that run any
  (`RuntimesApart`);
- a container that is retried has one loop around its command, which is then podiumd's own, or none, and
  `IMAGE_ENTRYPOINTS` has its image's entrypoint if it has any (`LoopsApart`);
- where it overrides Prometheus's container itself, that has its resource's limit (`PrometheusTold`; Known weaknesses).

Each theorem names those it needs.

`ConfigsStay` is what makes `PodsRunCurrent` delicate: the fixups write into ConfigMaps what no checksum knows of. `Rendering`
says what `post_render` does as a whole, put together from one lemma for each fixup: a Job is made of the chart's Job alone
(no toggle reaches it), a ConfigMap of the chart's and of the outbound target, and a workload reads what it read in the
chart and, if that has the proxy's URL, is annotated with the target. `NoJobIsRefused` (`JobsAccepted`) follows with
`Common`: what is on the cluster is of some deploy (`ClusterRendered`), and a Job that is there is the one the running
upgrade wants (`JobsAgree`). For `PodsRunCurrent`, `ReadsSame` shows that workloads with one template read the same
values in whatever deploys rendered them; so a pod whose template is not changed needs no restart, and `PodsRead` says
that a pod has read what its template was rendered with (`Due`). Two events break that: a deploy that is cut off leaves
ConfigMaps that the workloads do not belong to, and a pod that restarts by itself reads what is there. Each alone is
harmless, and is a theorem: `CutsLeaveNoneStale` (no pod restarts by itself) and `RestartsLeaveNoneStale` (no deploy is cut
off; between upgrades every workload's ConfigMaps are its own, `Whole`). Together they do leave a stale pod (Known
weaknesses). The run has one fault, so each of its behaviours is one of the two cases.

The three invariants about containers follow one container through all nineteen fixups. `Follows` says what a fixup may
make of a container (it keeps its name, the variables it has with their values, and its limit, unless Keycloak's resource
says another, and runs the same but for one loop and Postgres's TLS), `Grows` what it may make of a document (besides, it may add the container that an operator builds, `Fresh`), and
`Kept` is transitive; one lemma for each fixup proves it, and `RenderingKept` chains them in the order of `post_render`. What a
later fixup must not undo is stated apart (`AllOnce`, `Operated`, `Told`, `AllRetried`, `AllLimited`) and is shown to survive
every later one: `AllLimited` does only because Prometheus's container is there (`Operated`) and Keycloak's limit is on it (`Told`)
before `limit_runtimes`, which is what the order in `post_render` is for. `OnRendered` (what has finished is the render of
the last deploy's toggles) then gives `ProgramsAreKept`, `VariablesAreKept` and `LimitsAreKept`. The order of variables is
left out in `LastOnly` and `MergeEnv`: after `drop_duplicate_env` no name is there twice.

`EdgeGatewayProofs`. `TypeCorrect`, `HostsAreServed`, `HostsLineStays`, `TunnelIsProven`, `HostsUnbroken`.
`EdgeInv` has that NGF never saw a target other than the Service's (`SeenIsCurrent`: what changes is
recreated), what is applied at which label (`Progress`), and that from the pin on every IP that is used,
recorded or written is the fixed one (`Pinning`).

`ResetVaultProofs`. `TypeCorrect`, and for a node that answers, no deploy cut in podiumd's script (`~ScriptCut`), and leftovers that are marked as
`cluster_leftovers` looks for (`Marked`): `KeyIsKept`, `ResetLeavesNothing`, `NoTokenIsLeft`.
`ResetInv` has where namespaces are there or gone (`Places`), when the vault is certainly gone (`Keys`), where a token
or an attempt may be (`Tokens`) and what was deleted (`Clean`).

`HelmDeployProofs`. `TypeCorrect` without a hypothesis; `ZacStartsLast` (`ZacWaits`), which is about the selections with ZAC's Jobs, for any charts
with ZAC in podiumd's release (`ZacIsPodiumds`), other objects moving or not; and for charts no object of which
changes release (`Charts`, which also says where the policy and the website are) `DeployedAsSelected`
(`DeployedIsLive`) and `SkippedAsRendered` (`SkippedIsLive`), after any number of failures and kills, with the
exemption after a switch that the two properties state. An upgrade that finishes, fails or is killed is one case, `Up`: every object is as it was, as the pass wants it, or
gone because the pass's render lacks it. `ZacInv` has that ZAC is there once podiumd is deployed and that a pass
without hold has found it. `Cluster` says why the digests can be believed: what is recorded *as this selection has
it* is live so (`RecordedIsLive`), because an upgrade of such a release can only write the same again; and while the website's
hook is blocked podiumd is recorded in neither form (`BlockedIsNew`, `LeftOut`), or leaving it out
could skip podiumd. `Pass` carries this through one deploy. When objects do move (`MovingCharts`: between
podiumd's release and this chart's only, not the website, and every selection has each object that moves in one of the
two), `NoneMeetsAnother` proves `NoConflict`, also after the `--every-release` that ends a switch. A selection without
such an object is what leaves one behind (Leftovers after a switch, above). `NoConflict` is about one
step; what makes it so is a relation between four records of the past, the owners in the cluster, Helm's
deployed and latest revisions and the recorded digests, which failures, kills and first passes without website
let drift apart: each is of the recorded selection or of the wanted one (`OwnMoves`, `PodMoves`), and what
podiumd still owns of this chart's objects is where `taken_over` looks for it (`TakenMoves`).

`PostgresMigrationProofs`. `TypeCorrect`; the four safety properties by where deploys may end
(`InterruptAt`), each under the weakest such hypothesis found: every step it excludes has a
counterexample with one interruption (Known weaknesses).

| Theorem | Property | No deploy ends before |
|---|---|---|
| `NothingIsGone` | `NothingGone` | rename, open (`NotWhileClosed`) |
| `OnlyCopiesRemoved` | `RemovesOnlyCopies` | restore, clean, rename, open (`NotWhileMoved`) |
| `ApplicationCanConnect` | `AppCanConnect` | role, password, grant new, grant (`NotWhileGranting`) |
| `RowsAreKept` | `RowsKept` | restore, clean, rename, open; and at most once after the renaming (`HalfRenamedOnce`) |

`ShapeInv` (what the deploy found out about the names still holds at its next statement) needs no
hypothesis. `OpenInv` says that every database but the one being renamed accepts connections, so
that `pg_dumpall` sees all; with it `GoneInv` (a write is in the running directory or a file) and
`SoleInv` (what the other directories hold is in the dump, then in the new one) are inductive.
`RolesInv`, `GrantsInv`, `ConnInv` follow the role's password and the grants from statement to statement.
`RowsInv` says where the rows are at each step: all in one database (`Home`), which is the new name's
as soon as that exists, though the application may still use the old one (`Half`). `RowsKept` alone
says nothing while a deploy runs.

Only model-checked: liveness (`HoldEnds`, `RetryConverges`, `Settles`, `RunEnds`, `NamespacesGo`), whose
fairness the provers do not handle, and `DeployedIsLive` and `SkippedIsLive` when objects move between
releases.

## Not modelled

- `restart.py` (start-cluster): repairs pods after a start; its one hazard, a Ready condition
  from before the stop, depends on the kubelet's timing only. `NodeTuning` has the node's part of a start.
- `replicas.py`: computes patches from two renders and applies them one call at a time, each of
  which may be repeated; a cut run is run again.
- `crds.py`, `volumes.py`, `keycloak.py`, `services.py`, `objecten.py`: select or send something once, no state of their own.
- `tls.py`, `pki.py`: certificates are made once and applied as rendered text.
- `chart.py`, `values.py`, `ports.py`, `upgrade.py`, `memory.py`, `disk.py`: text and settings computed from their arguments.
- `status.py` only reads; `process.py`, `kube.py`, `paths.py` are I/O whose failures are the modules' `Fail`, `Cut`, `Kill` and `Interrupt`.
- Left out of modelled parts: pruning Kafka and creating namespaces (`_prepare`), the rewriting of rows that name the old
  database (`rename_rows`), the keys of the outway, the confirmation prompt of the resets (it is `ClusterLock`'s `Confirm`),
  NGF's listeners and policies, and the API server's transient errors (`kube.exists` answers no for any failure).
