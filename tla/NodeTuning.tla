---------------------------- MODULE NodeTuning ----------------------------
(***************************************************************************)
(* provision.start_node: starts the minikube node, writes the env of its   *)
(* static pods, the drop-ins of its services and the kubelet's resolvConf, *)
(* restarts what changed, and waits until the static pods run with it.     *)
(*                                                                         *)
(* A file that is already as wanted is not written again, and what is not  *)
(* written is not restarted.  Beside a run, the kubelet restarts static    *)
(* pods whose file changed, and reports them late; the node reboots; a run *)
(* ends early.                                                             *)
(***************************************************************************)
EXTENDS Naturals

CONSTANTS
  StaticPod,   \* CONTROL_PLANE_ENV
  Service,     \* node_drop_ins: containerd, kubelet, systemd-journald
  Nameserver,  \* what the laptop's networks have as nameservers
  MaxCuts,     \* bound: runs that end early
  MaxStops     \* bound: stops of the node

ASSUME NodeTuningAssumption ==
  /\ StaticPod \cap Service = {} /\ {"kubelet", "containerd"} \subseteq Service
  /\ {"kubelet", "containerd", "config"} \cap StaticPod = {} /\ "config" \notin Service
  /\ "none" \notin Nameserver /\ MaxCuts \in Nat /\ MaxStops \in Nat

Unit == StaticPod \cup Service \cup {"config"}  \* config: KUBELET_CONFIG's resolvConf

VARIABLES
  up,        \* the node runs
  file,      \* each unit's file on the node
  live,      \* what each unit runs with
  ready,     \* the static pods that are ready
  mirror,    \* each static pod as kubectl shows it: its env, and its container's status
  nodeDns,   \* the node's /etc/resolv.conf
  podDns,    \* POD_RESOLV_CONF
  pc, todo, control, services,  \* the run: what it has yet to look at, and what it changed
  loading,   \* while_starting
  cuts, stops,
  cut        \* a run ended early since the node booted

node == <<up, nodeDns, stops>>
vars == <<up, file, live, ready, mirror, nodeDns, podDns, pc, todo, control, services,
          loading, cuts, stops, cut>>

Stock(pod) == [env |-> "stock", status |-> "ready"]

Init ==
  /\ up = FALSE /\ nodeDns \in Nameserver /\ podDns = "none"
  /\ file = [u \in Unit |-> "stock"] /\ live = [u \in Unit |-> "stock"]
  /\ ready = StaticPod /\ mirror = [p \in StaticPod |-> Stock(p)]
  /\ pc = "idle" /\ todo = {} /\ control = {} /\ services = {} /\ loading = FALSE
  /\ cuts = 0 /\ stops = 0 /\ cut = FALSE

-----------------------------------------------------------------------------
(* A run: start_node. *)

\* start_minikube: minikube start rewrites the static pods and the kubelet's configuration;
\* the drop-ins stay, and the services start with them.
Start ==
  /\ pc = "idle"
  /\ IF up
     THEN UNCHANGED <<file, live, ready, mirror, cut>>
     ELSE /\ file' = [u \in Unit |-> IF u \in Service THEN file[u] ELSE "stock"]
          /\ live' = file' /\ ready' = StaticPod /\ mirror' = [p \in StaticPod |-> Stock(p)]
          /\ cut' = FALSE
  /\ up' = TRUE
  /\ pc' = "control" /\ todo' = StaticPod /\ control' = {} /\ services' = {}
  /\ UNCHANGED <<nodeDns, podDns, loading, cuts, stops>>

Written(u) == file' = [file EXCEPT ![u] = "tuned"]

\* Mutant: a static pod counts as changed whether or not it is written.
TuneControl_NotWritten(p) ==
  /\ pc = "control" /\ p \in todo /\ todo' = todo \ {p}
  /\ control' = control \cup {p}
  /\ UNCHANGED <<file, live, ready, mirror, podDns, pc, services, loading, cuts, cut>> /\ UNCHANGED node

\* tune_control_plane
TuneControl(p) ==
  /\ pc = "control" /\ p \in todo /\ todo' = todo \ {p}
  /\ IF file[p] = "tuned" THEN UNCHANGED <<file, control>>
     ELSE Written(p) /\ control' = control \cup {p}
  /\ UNCHANGED <<live, ready, mirror, podDns, pc, services, loading, cuts, cut>> /\ UNCHANGED node

ControlTuned ==
  /\ pc = "control" /\ todo = {}
  /\ pc' = "services" /\ todo' = Service
  /\ UNCHANGED <<file, live, ready, mirror, podDns, control, services, loading, cuts, cut>>
  /\ UNCHANGED node

\* tune_node_services
TuneService(s) ==
  /\ pc = "services" /\ s \in todo /\ todo' = todo \ {s}
  /\ IF file[s] = "tuned" THEN UNCHANGED <<file, services>>
     ELSE Written(s) /\ services' = services \cup {s}
  /\ UNCHANGED <<live, ready, mirror, podDns, pc, control, loading, cuts, cut>> /\ UNCHANGED node

\* Mutant: the kubelet's configuration names POD_RESOLV_CONF before it is there.
IsolateDns_Later ==
  /\ pc = "services" /\ todo = {}
  /\ podDns' = podDns /\ pc' = "config"
  /\ UNCHANGED <<file, live, ready, mirror, todo, control, services, loading, cuts, cut>>
  /\ UNCHANGED node

\* isolate_pod_dns: POD_RESOLV_CONF, and
IsolateDns ==
  /\ pc = "services" /\ todo = {}
  /\ podDns' = nodeDns /\ pc' = "config"
  /\ UNCHANGED <<file, live, ready, mirror, todo, control, services, loading, cuts, cut>>
  /\ UNCHANGED node

\* Mutant: the kubelet restarts for its drop-in alone.
Isolate_NoRestart ==
  /\ pc = "config"
  /\ Written("config") /\ UNCHANGED services
  /\ pc' = "restart"
  /\ UNCHANGED <<live, ready, mirror, podDns, todo, control, loading, cuts, cut>> /\ UNCHANGED node

\* ... the kubelet's configuration; it restarts when that or a static pod changed.
Isolate ==
  /\ pc = "config"
  /\ Written("config")
  /\ services' = services \cup IF file["config"] = "stock" \/ control # {} THEN {"kubelet"} ELSE {}
  /\ pc' = "restart"
  /\ UNCHANGED <<live, ready, mirror, podDns, todo, control, loading, cuts, cut>> /\ UNCHANGED node

\* restart_node_services; then while_starting begins, beside the waits.
Restart ==
  /\ pc = "restart"
  /\ live' = [u \in Unit |->
       IF u \in services \/ (u = "config" /\ "kubelet" \in services) THEN file[u] ELSE live[u]]
  /\ loading' = TRUE /\ todo' = control /\ pc' = "wait"
  /\ UNCHANGED <<file, ready, mirror, podDns, control, services, cuts, cut>> /\ UNCHANGED node

Answers == live["kube-apiserver"] = file["kube-apiserver"] /\ "kube-apiserver" \in ready

\* _tuned_and_ready: a kube-apiserver that refuses connections is not ready.
TunedAndReady(p) == Answers /\ mirror[p].env = "tuned" /\ mirror[p].status = "ready"

\* wait_for_control_plane
WaitFor(p) ==
  /\ pc = "wait" /\ p \in todo /\ TunedAndReady(p)
  /\ todo' = todo \ {p}
  /\ UNCHANGED <<file, live, ready, mirror, podDns, pc, control, services, loading, cuts, cut>>
  /\ UNCHANGED node

\* while_starting ends; so does the run when cni.apply has been done too.
Load ==
  /\ loading /\ loading' = FALSE
  /\ UNCHANGED <<file, live, ready, mirror, podDns, pc, todo, control, services, cuts, cut>>
  /\ UNCHANGED node

ApplyCni ==
  /\ pc = "wait" /\ todo = {} /\ pc' = "cni"
  /\ UNCHANGED <<file, live, ready, mirror, podDns, todo, control, services, loading, cuts, cut>>
  /\ UNCHANGED node

Done ==
  /\ pc = "cni" /\ ~loading /\ pc' = "done"
  /\ UNCHANGED <<file, live, ready, mirror, podDns, todo, control, services, loading, cuts, cut>>
  /\ UNCHANGED node

Again ==
  /\ pc = "done" /\ pc' = "idle"
  /\ UNCHANGED <<file, live, ready, mirror, podDns, todo, control, services, loading, cuts, cut>>
  /\ UNCHANGED node

\* A step fails, the wait times out, or the process is killed.
Cut ==
  /\ pc \notin {"idle", "done"} /\ cuts < MaxCuts
  /\ pc' = "idle" /\ todo' = {} /\ loading' = FALSE /\ cuts' = cuts + 1 /\ cut' = TRUE
  /\ UNCHANGED <<file, live, ready, mirror, podDns, control, services>> /\ UNCHANGED node

Run ==
  \/ \E p \in StaticPod : TuneControl(p) \/ WaitFor(p)
  \/ \E s \in Service : TuneService(s)
  \/ Start \/ ControlTuned \/ IsolateDns \/ Isolate \/ Restart \/ Load \/ ApplyCni \/ Done \/ Again

-----------------------------------------------------------------------------
(* The node. *)

\* The kubelet restarts a static pod whose file changed,
Sync(p) ==
  /\ up /\ live[p] # file[p]
  /\ live' = [live EXCEPT ![p] = file[p]] /\ ready' = ready \ {p}
  /\ UNCHANGED <<file, mirror, podDns, pc, todo, control, services, loading, cuts, cut>>
  /\ UNCHANGED node

PodReady(p) ==
  /\ up /\ p \notin ready /\ ready' = ready \cup {p}
  /\ UNCHANGED <<file, live, mirror, podDns, pc, todo, control, services, loading, cuts, cut>>
  /\ UNCHANGED node

\* ... and shows it: a new mirror pod, without a container status, and then its status.
Show(p) ==
  /\ up /\ Answers
  /\ mirror' = [mirror EXCEPT ![p] =
       [env |-> live[p],
        status |-> IF @.env # live[p] THEN "none" ELSE IF p \in ready THEN "ready" ELSE "unready"]]
  /\ UNCHANGED <<file, live, ready, podDns, pc, todo, control, services, loading, cuts, cut>>
  /\ UNCHANGED node

\* minikube stop or a reboot of the laptop, and perhaps another network.
StopNode ==
  /\ up /\ stops < MaxStops
  /\ up' = FALSE /\ stops' = stops + 1 /\ nodeDns' \in Nameserver
  /\ pc' = "idle" /\ todo' = {} /\ loading' = FALSE
  /\ UNCHANGED <<file, live, ready, mirror, podDns, control, services, cuts, cut>>

Node == (\E p \in StaticPod : Sync(p) \/ PodReady(p) \/ Show(p)) \/ StopNode

Next == Run \/ Cut \/ Node

Spec == Init /\ [][Next]_vars

\* The run goes on, and so does the kubelet.
FairSpec ==
  /\ Spec
  /\ WF_vars(Run)
  /\ \A p \in StaticPod : WF_vars(Sync(p)) /\ WF_vars(PodReady(p)) /\ WF_vars(Show(p))

-----------------------------------------------------------------------------
\* Every variable has its type.
TypeOK ==
  /\ up \in BOOLEAN /\ loading \in BOOLEAN /\ cut \in BOOLEAN
  /\ file \in [Unit -> {"stock", "tuned"}] /\ live \in [Unit -> {"stock", "tuned"}]
  /\ ready \subseteq StaticPod
  /\ mirror \in [StaticPod -> [env : {"stock", "tuned"}, status : {"none", "unready", "ready"}]]
  /\ nodeDns \in Nameserver /\ podDns \in Nameserver \cup {"none"}
  /\ pc \in {"idle", "control", "services", "config", "restart", "wait", "cni", "done"}
  /\ todo \subseteq Unit /\ control \subseteq StaticPod /\ services \subseteq Service
  /\ cuts \in 0 .. MaxCuts /\ stops \in 0 .. MaxStops

\* A run that ends well leaves every static pod and service running with its tuning and the
\* kubelet with the search domains gone, although what was written before is not restarted:
\* unless an earlier run was cut off since the node booted, a reboot making good for that.
TunedWhenDone ==
  pc = "done" /\ ~cut =>
    /\ \A u \in Unit : live[u] = "tuned"
    /\ StaticPod \subseteq ready /\ podDns = nodeDns

\* A kubelet that was told to use POD_RESOLV_CONF finds it: no pod can start without,
\* however a run ends between the two files.
ResolvConfThere == file["config"] = "tuned" \/ live["config"] = "tuned" => podDns # "none"

\* A run never waits for what does not come: the static pods it changed do restart with
\* the new env and are shown so, with the kube-apiserver among them.
RunEnds == (pc = "wait") ~> (pc # "wait")
=============================================================================
