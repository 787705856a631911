---------------------------- MODULE EdgeGateway ----------------------------
(***************************************************************************)
(* How a *.local host reaches its app: the edge (NGINX Gateway Fabric) and *)
(* its routes (gateway.apply), CoreDNS (dns.apply_hosts), minikube tunnel  *)
(* and its route (setup_tunnel), /etc/hosts (update_hosts).                *)
(*                                                                         *)
(* A deploy changes the edge's objects one after the other and may end     *)
(* between any two; NGF follows, but keeps the target of an ExternalName   *)
(* Service that changes in place.  setup-tunnel takes no lock and runs     *)
(* beside anything; the tunnel's process dies, and the IP it recorded      *)
(* stays.  The laptop reboots, the cluster is torn down and provisioned    *)
(* again, where the kubernetes allocator picks another ClusterIP.          *)
(***************************************************************************)
EXTENDS Integers, FiniteSets

CONSTANTS
  Host,
  Fronts,      \* NGINX_FRONTS: app Service :> the nginx Service in front of it
  Renders,     \* the renders users deploy: [ingress, ns, services]
  Service,     \* the Services they name
  RandomIp,    \* what the allocator picks from
  MaxTurns,    \* bound: renders chosen
  MaxKills,    \* bound: deploys that end early
  MaxLosses    \* bound: deaths of the tunnel, reboots and teardowns

EdgeClusterIp == "EDGE_CLUSTER_IP"

ASSUME EdgeAssumption ==
  /\ EdgeClusterIp \notin RandomIp /\ "none" \notin RandomIp \cup Service
  /\ \A r \in Renders :
       /\ r.ingress \in [Host -> Service \cup {"none"}]
       /\ "none" \notin {r.ns[s] : s \in Service}
       /\ r.services \subseteq Service
  /\ \A s \in DOMAIN Fronts : Fronts[s] \in Service
  /\ MaxTurns \in Nat /\ MaxKills \in Nat /\ MaxLosses \in Nat

VARIABLES
  render,    \* what a deploy would render
  want,      \* what the last deploy rendered: each host's backend, each backend's target
  route,     \* the HTTPRoutes: the backend of each host
  svc,       \* the ExternalName Services: the target of each backend
  seen,      \* ... as NGF has it
  gateway,   \* public-gateway is there
  patched,   \* NGF has ngf_values' patch of the ClusterIP
  edge, lb,  \* the edge Service: its ClusterIP, and the IP in its status
  coredns,   \* the project's block in the Corefile: the IP each host resolves to in the cluster
  etcHosts,  \* the IP of the project's line in /etc/hosts
  lasting,   \* ... and that it was written, or found up to date, after a deploy
  routed,    \* the service network is routed via the node
  tunnel,    \* minikube tunnel runs
  pc,        \* the deploy
  tpc, pid, died,  \* setup-tunnel: whether it found the process, and whether that ended meanwhile
  result,    \* what setup-tunnel last answered
  turns, kills, losses

objects == <<route, svc, seen, gateway>>
edgeSvc == <<edge, lb>>
names == <<coredns, etcHosts, lasting>>
laptop == <<routed, tunnel, tpc, pid, died, result>>
bounds == <<turns, kills, losses>>
vars == <<render, want, objects, patched, edgeSvc, names, laptop, pc, bounds>>

Nothing(S) == [x \in S |-> "none"]

\* A provisioned cluster; one provisioned before the ClusterIP was pinned has a random one.
Init ==
  /\ render \in Renders /\ want = [route |-> Nothing(Host), svc |-> Nothing(Service)]
  /\ route = Nothing(Host) /\ svc = Nothing(Service) /\ seen = Nothing(Service)
  /\ patched \in BOOLEAN /\ gateway = ~patched
  /\ edge \in (IF patched THEN {"none"} ELSE RandomIp) /\ lb = "none"
  /\ coredns = [h \in Host |-> edge] /\ etcHosts = edge /\ lasting = FALSE
  /\ routed = FALSE /\ tunnel = FALSE
  /\ pc = "idle" /\ tpc = "idle" /\ pid = FALSE /\ died = FALSE /\ result = "none"
  /\ turns = 0 /\ kills = 0 /\ losses = 0

-----------------------------------------------------------------------------
(* What a render wants. *)

\* route_through_nginx
Backend(r, h) ==
  IF r.ingress[h] \in DOMAIN Fronts /\ Fronts[r.ingress[h]] \in r.services
  THEN Fronts[r.ingress[h]] ELSE r.ingress[h]

\* route_manifests: an HTTPRoute per host, an ExternalName Service per backend.
RouteManifests(r) ==
  LET routes == [h \in Host |-> Backend(r, h)]
  IN  [route |-> routes,
       svc |-> [s \in Service |-> IF \E h \in Host : routes[h] = s THEN r.ns[s] ELSE "none"]]

\* In the cluster a host resolves to the edge, and the edge has a route for it.
Reached(h) == edge # "none" /\ coredns[h] = edge /\ gateway /\ route[h] # "none"

\* Where a host is sent, and where it should be.
Answer(h) == IF Reached(h) THEN {<<route[h], seen[route[h]]>>} ELSE {}
Wanted(h) == IF want.route[h] = "none" THEN {} ELSE {<<want.route[h], want.svc[want.route[h]]>>}

-----------------------------------------------------------------------------
(* A deploy: gateway.apply, dns.apply_hosts, the upgrades. *)

\* The user selects other profiles, or another chart.
Select(r) ==
  /\ pc \in {"idle", "done"} /\ turns < MaxTurns /\ r # render
  /\ render' = r /\ turns' = turns + 1 /\ pc' = "idle"
  /\ UNCHANGED <<want, objects, patched, edgeSvc, names, laptop, kills, losses>>

\* An Ingress backend whose port no Service has ends the deploy here.
Begin ==
  /\ pc \in {"idle", "done"}
  /\ want' = RouteManifests(render) /\ pc' = "prune"
  /\ UNCHANGED <<render, objects, patched, edgeSvc, names, laptop, bounds>>

\* Mutant: a Service that is still rendered stays.
Stale_Retargeted(s) == svc[s] # "none" /\ want.svc[s] = "none"

\* NGF keeps an ExternalName Service's old target when it changes in place: such a Service is recreated.
Stale(s) == svc[s] # "none" /\ svc[s] # want.svc[s]

\* Mutant: what is there goes first.
PruneRoute_All(h) ==
  /\ pc = "prune" /\ route[h] # "none"
  /\ route' = [route EXCEPT ![h] = "none"]
  /\ UNCHANGED <<render, want, svc, seen, gateway, patched, edgeSvc, names, laptop, pc, bounds>>

\* The routes no longer rendered,
PruneRoute(h) ==
  /\ pc = "prune" /\ route[h] # "none" /\ want.route[h] = "none"
  /\ route' = [route EXCEPT ![h] = "none"]
  /\ UNCHANGED <<render, want, svc, seen, gateway, patched, edgeSvc, names, laptop, pc, bounds>>

RoutesPruned == \A h \in Host : route[h] # "none" => want.route[h] # "none"

\* ... then the Services.
PruneService(s) ==
  /\ pc = "prune" /\ RoutesPruned /\ Stale(s)
  /\ svc' = [svc EXCEPT ![s] = "none"] /\ seen' = [seen EXCEPT ![s] = "none"]
  /\ UNCHANGED <<render, want, route, gateway, patched, edgeSvc, names, laptop, pc, bounds>>

\* NGF takes a Service's target when it is created.
Followed(s) == IF want.svc[s] # "none" /\ svc[s] = "none" THEN want.svc[s] ELSE seen[s]

\* kubectl apply: the Gateway, the Services,
ApplyServices ==
  /\ pc = "prune" /\ RoutesPruned /\ \A s \in Service : ~Stale(s)
  /\ gateway' = TRUE
  /\ seen' = [s \in Service |-> Followed(s)]
  /\ svc' = [s \in Service |-> IF want.svc[s] # "none" THEN want.svc[s] ELSE svc[s]]
  /\ pc' = "routes"
  /\ UNCHANGED <<render, want, route, patched, edgeSvc, names, laptop, bounds>>

\* ... and the routes.
ApplyRoutes ==
  /\ pc = "routes"
  /\ route' = want.route /\ pc' = "edge"
  /\ UNCHANGED <<render, want, svc, seen, gateway, patched, edgeSvc, names, laptop, bounds>>

\* NGF creates the edge Service once the Gateway is there, and again when it is deleted.
CreateEdge ==
  /\ gateway /\ edge = "none"
  /\ edge' \in (IF patched THEN {EdgeClusterIp} ELSE RandomIp) /\ lb' = "none"
  /\ UNCHANGED <<render, want, objects, patched, names, laptop, pc, bounds>>

\* Mutant: any ClusterIP will do.
Pin_Any ==
  /\ pc = "edge" /\ edge # "none" /\ pc' = "dns"
  /\ UNCHANGED <<render, want, objects, patched, edgeSvc, names, laptop, bounds>>

\* _pin_cluster_ip: an edge Service without EDGE_CLUSTER_IP is recreated once.
Pin ==
  /\ pc = "edge" /\ edge # "none"
  /\ IF edge = EdgeClusterIp THEN pc' = "dns" /\ UNCHANGED edgeSvc
     ELSE pc' = "pinning" /\ edge' = "none" /\ lb' = "none"
  /\ UNCHANGED <<render, want, objects, patched, names, laptop, bounds>>

Pinned ==
  /\ pc = "pinning" /\ edge = EdgeClusterIp /\ pc' = "dns"
  /\ UNCHANGED <<render, want, objects, patched, edgeSvc, names, laptop, bounds>>

\* dns.apply_hosts
ApplyHosts ==
  /\ pc = "dns" /\ edge # "none"
  /\ coredns' = [h \in Host |-> IF want.route[h] # "none" THEN edge ELSE "none"] /\ pc' = "upgrade"
  /\ UNCHANGED <<render, want, objects, patched, edgeSvc, etcHosts, lasting, laptop, bounds>>

\* The images, the upgrades and the waits; the call of setup_tunnel at the end is SetupBegin.
Deployed ==
  /\ pc = "upgrade" /\ pc' = "done"
  /\ UNCHANGED <<render, want, objects, patched, edgeSvc, names, laptop, bounds>>

\* A call fails, a wait takes too long (NGF without the patch never pins), the run is killed.
Kill ==
  /\ pc \notin {"idle", "done"} /\ kills < MaxKills
  /\ pc' = "idle" /\ kills' = kills + 1
  /\ UNCHANGED <<render, want, objects, patched, edgeSvc, names, laptop, turns, losses>>

PinTimeout ==
  /\ pc = "pinning" /\ edge \notin {"none", EdgeClusterIp} /\ pc' = "idle"
  /\ UNCHANGED <<render, want, objects, patched, edgeSvc, names, laptop, bounds>>

\* gateway.install in a provision-cluster: an upgrade keeps NGF's values current.
Install ==
  /\ pc = "idle" /\ ~patched /\ patched' = TRUE
  /\ UNCHANGED <<render, want, objects, edgeSvc, names, laptop, pc, bounds>>

-----------------------------------------------------------------------------
(* setup-tunnel and update-hosts, which take no lock. *)

tunnelOnly == <<render, want, objects, patched, edge, names, pc, bounds>>

\* Mutant: a recorded IP proves the tunnel.
SetupBegin_Recorded ==
  /\ tpc = "idle" /\ pid' = tunnel /\ died' = FALSE
  /\ IF lb # "none" THEN result' = "up" /\ UNCHANGED tpc
     ELSE tpc' = "route" /\ result' = "none"
  /\ UNCHANGED <<lb, routed, tunnel>> /\ UNCHANGED tunnelOnly

SetupBegin ==
  /\ tpc = "idle" /\ pid' = tunnel /\ died' = FALSE
  /\ IF tunnel /\ lb # "none" THEN result' = "up" /\ UNCHANGED tpc
     ELSE tpc' = "route" /\ result' = "none"
  /\ UNCHANGED <<lb, routed, tunnel>> /\ UNCHANGED tunnelOnly

\* sudo answers, or the route is there,
SetupRoute ==
  /\ tpc = "route"
  /\ routed' = TRUE /\ tpc' = "spawn"
  /\ UNCHANGED <<lb, tunnel, pid, died, result>> /\ UNCHANGED tunnelOnly

\* ... or it refuses.
SetupRefused ==
  /\ tpc = "route" /\ ~routed
  /\ result' = "refused" /\ tpc' = "idle"
  /\ UNCHANGED <<lb, routed, tunnel, pid, died>> /\ UNCHANGED tunnelOnly

SetupSpawn ==
  /\ tpc = "spawn"
  /\ tunnel' = (tunnel \/ ~pid) /\ tpc' = "wait"
  /\ UNCHANGED <<lb, routed, pid, died, result>> /\ UNCHANGED tunnelOnly

SetupWait ==
  /\ tpc = "wait" /\ lb # "none"
  /\ result' = "up" /\ tpc' = "idle"
  /\ UNCHANGED <<lb, routed, tunnel, pid, died>> /\ UNCHANGED tunnelOnly

SetupTimeout ==
  /\ tpc = "wait" /\ lb = "none"
  /\ result' = "refused" /\ tpc' = "idle"
  /\ UNCHANGED <<lb, routed, tunnel, pid, died>> /\ UNCHANGED tunnelOnly

\* The tunnel records the edge's ClusterIP in its status.
Record ==
  /\ tunnel /\ edge # "none" /\ lb # edge
  /\ lb' = edge
  /\ UNCHANGED laptop /\ UNCHANGED tunnelOnly

TunnelDies ==
  /\ tunnel /\ losses < MaxLosses
  /\ tunnel' = FALSE /\ died' = TRUE /\ losses' = losses + 1
  /\ UNCHANGED <<render, want, objects, patched, edgeSvc, names, routed, tpc, pid, result, pc, turns, kills>>

\* update_hosts
UpdateHosts ==
  /\ lb # "none" /\ etcHosts' = lb
  /\ lasting' = (pc = "done" \/ (lasting /\ lb = etcHosts))
  /\ UNCHANGED <<render, want, objects, patched, edgeSvc, coredns, laptop, pc, bounds>>

-----------------------------------------------------------------------------
(* stop_tunnel, teardown-cluster and a new cluster. *)

\* The tunnel's process, then its route; an interrupted tunnel may clear the IP it recorded.
StopTunnel ==
  /\ pc \in {"idle", "done"} /\ losses < MaxLosses /\ (tunnel \/ routed)
  /\ tunnel' = FALSE /\ died' = (died \/ tunnel) /\ routed' = FALSE
  /\ lb' \in (IF tunnel THEN {lb, "none"} ELSE {lb}) /\ losses' = losses + 1
  /\ UNCHANGED <<render, want, objects, patched, edge, names, tpc, pid, result, pc, turns, kills>>

\* A reboot: the laptop's processes and route go, the cluster's objects stay.
Reboot ==
  /\ losses < MaxLosses /\ losses' = losses + 1
  /\ tunnel' = FALSE /\ died' = TRUE /\ routed' = FALSE /\ tpc' = "idle" /\ result' = "none" /\ pc' = "idle"
  /\ UNCHANGED <<render, want, objects, patched, edgeSvc, names, pid, turns, kills>>

\* teardown_cluster (its stop_tunnel included) and provision-cluster.
Recreate ==
  /\ pc \in {"idle", "done"} /\ losses < MaxLosses /\ losses' = losses + 1
  /\ tunnel' = FALSE /\ died' = (died \/ tunnel) /\ routed' = FALSE
  /\ patched' = TRUE
  /\ want' = [route |-> Nothing(Host), svc |-> Nothing(Service)]
  /\ route' = Nothing(Host) /\ svc' = Nothing(Service) /\ seen' = Nothing(Service) /\ gateway' = FALSE
  /\ edge' = "none" /\ lb' = "none" /\ coredns' = Nothing(Host) /\ pc' = "idle"
  /\ UNCHANGED <<render, etcHosts, lasting, tpc, pid, result, turns, kills>>

-----------------------------------------------------------------------------
Deploy ==
  \/ \E r \in Renders : Select(r)
  \/ Begin
  \/ \E h \in Host : PruneRoute(h)
  \/ \E s \in Service : PruneService(s)
  \/ ApplyServices \/ ApplyRoutes \/ Pin \/ Pinned \/ PinTimeout \/ ApplyHosts \/ Deployed
  \/ Kill \/ Install

Setup == SetupBegin \/ SetupRoute \/ SetupRefused \/ SetupSpawn \/ SetupWait \/ SetupTimeout \/ UpdateHosts

Outside == CreateEdge \/ Record \/ TunnelDies \/ StopTunnel \/ Reboot \/ Recreate

Next == Deploy \/ Setup \/ Outside

Spec == Init /\ [][Next]_vars

-----------------------------------------------------------------------------
(* Properties *)

Backends == Service \cup {"none"}
Targets == {"none"} \cup UNION {{r.ns[s] : s \in Service} : r \in Renders}

\* Every variable holds a value the code can give it.
TypeOK ==
  /\ render \in Renders
  /\ want \in [route : [Host -> Backends], svc : [Service -> Targets]]
  /\ route \in [Host -> Backends] /\ svc \in [Service -> Targets] /\ seen \in [Service -> Targets]
  /\ gateway \in BOOLEAN /\ patched \in BOOLEAN /\ lasting \in BOOLEAN
  /\ routed \in BOOLEAN /\ tunnel \in BOOLEAN /\ pid \in BOOLEAN /\ died \in BOOLEAN
  /\ {edge, lb, etcHosts} \subseteq RandomIp \cup {EdgeClusterIp, "none"}
  /\ coredns \in [Host -> RandomIp \cup {EdgeClusterIp, "none"}]
  /\ pc \in {"idle", "prune", "routes", "edge", "pinning", "dns", "upgrade", "done"}
  /\ tpc \in {"idle", "route", "spawn", "wait"} /\ result \in {"none", "up", "refused"}

\* From the upgrades on (podiumd's hook Jobs reach Keycloak by its host, and Helm waits for them),
\* every host resolves in the cluster to the edge, and the edge sends it where the render wants it:
\* whatever earlier deploys left half done (_deploy: the edge before the upgrades).
HostsServe == pc \in {"upgrade", "done"} => \A h \in Host : Answer(h) = Wanted(h)

\* The /etc/hosts line update-hosts writes after a deploy is right after every later one, also in a
\* new cluster (teardown_cluster: "/etc/hosts stays valid (fixed edge IP)").
HostsLineValid == (pc \in {"upgrade", "done"} /\ lasting) => edge = etcHosts

\* setup-tunnel says the tunnel is up only when its process runs, or has ended since the call began:
\* a recorded IP survives a dead tunnel, and proves nothing (setup_tunnel).
TunnelProven == [][result' = "up" /\ result # "up" => tunnel' \/ died']_vars

\* A host that resolves to the edge and is sent where the render wants it stays so through a deploy
\* (apply deletes only what is no longer rendered or must be recreated), but for one step: the edge
\* Service whose ClusterIP is not the pinned one is deleted (_pin_cluster_ip), and every host is away
\* until NGF has created it again and CoreDNS has its new IP.
Unbroken ==
  [][\A h \in Host : (pc \notin {"idle", "done"} /\ want' = want /\ Answer(h) = Wanted(h) /\ Wanted(h) # {}
                       /\ ~(pc = "edge" /\ pc' = "pinning")) => Answer(h)' = Wanted(h)']_vars
=============================================================================
