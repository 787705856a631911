------------------------- MODULE EdgeGatewayProofs -------------------------
(***************************************************************************)
(* What holds of deploys, setup-tunnel and update-hosts for any hosts,     *)
(* renders and Services, any number of deploys that end early, of tunnels  *)
(* that die, reboots and recreated clusters.                               *)
(***************************************************************************)
EXTENDS EdgeGateway, TLAPS

USE EdgeAssumption DEF objects, edgeSvc, names, laptop, bounds, vars, tunnelOnly, EdgeClusterIp

Applied == {"edge", "pinning", "dns", "upgrade", "done"}

\* A wanted route has a wanted Service.
WantedHasTarget == \A h \in Host : want.route[h] # "none" => want.svc[want.route[h]] # "none"

\* NGF sends to what the Service says: none changes in place.
SeenIsCurrent == \A s \in Service : seen[s] = svc[s]

\* From the apply of the Services on they are as wanted, and then the routes.
Progress ==
  /\ pc \in Applied \cup {"routes"} =>
       gateway /\ \A s \in Service : want.svc[s] # "none" => svc[s] = want.svc[s]
  /\ pc \in Applied => route = want.route

\* After _pin_cluster_ip the edge has EDGE_CLUSTER_IP; the tunnel records no other IP than the edge's.
Pinning ==
  /\ pc \in {"dns", "upgrade", "done"} => edge = EdgeClusterIp
  /\ pc \in {"upgrade", "done"} =>
       \A h \in Host : coredns[h] = IF want.route[h] # "none" THEN EdgeClusterIp ELSE "none"
  /\ lb \in {edge, "none"}
  /\ lasting => etcHosts = EdgeClusterIp

\* setup-tunnel goes on from a process it saw or starts one.
TunnelSeen ==
  /\ tpc \in {"route", "spawn", "wait"} /\ pid => tunnel \/ died
  /\ tpc = "wait" => tunnel \/ died

EdgeInv == TypeOK /\ WantedHasTarget /\ SeenIsCurrent /\ Progress /\ Pinning /\ TunnelSeen

-----------------------------------------------------------------------------
\* What route_manifests returns.
LEMMA Manifests ==
  ASSUME NEW r \in Renders
  PROVE  /\ RouteManifests(r) \in [route : [Host -> Backends], svc : [Service -> Targets]]
         /\ \A h \in Host : RouteManifests(r).route[h] # "none" =>
              RouteManifests(r).svc[RouteManifests(r).route[h]] # "none"
<1> DEFINE routes == [h \in Host |-> Backend(r, h)]
           targets == [s \in Service |-> IF \E h \in Host : routes[h] = s THEN r.ns[s] ELSE "none"]
<1>1. RouteManifests(r) = [route |-> routes, svc |-> targets]
  BY DEF RouteManifests
<1>2. routes \in [Host -> Backends]
  BY DEF Backend, Backends
<1>3. \A s \in Service : r.ns[s] \in Targets /\ r.ns[s] # "none"
  BY DEF Targets
<1>4. targets \in [Service -> Targets]
  BY <1>3 DEF Targets
<1>5. ASSUME NEW h \in Host, routes[h] # "none" PROVE targets[routes[h]] # "none"
  <2>1. routes[h] \in Service
    BY <1>2, <1>5 DEF Backends
  <2>. QED BY <1>3, <2>1
<1> HIDE DEF routes, targets
<1>. QED BY <1>1, <1>2, <1>4, <1>5

LEMMA InitInv == Init => EdgeInv
<1> SUFFICES ASSUME Init PROVE EdgeInv
  OBVIOUS
<1>1. TypeOK
  BY DEF Init, TypeOK, Nothing, Backends, Targets
<1>2. WantedHasTarget /\ SeenIsCurrent /\ Progress /\ Pinning /\ TunnelSeen
  BY DEF Init, Nothing, WantedHasTarget, SeenIsCurrent, Progress, Pinning, TunnelSeen, Applied
<1>. QED BY <1>1, <1>2 DEF EdgeInv

LEMMA DeployInv == EdgeInv /\ Deploy => EdgeInv'
<1> SUFFICES ASSUME EdgeInv, Deploy PROVE EdgeInv'
  OBVIOUS
<1> USE DEF EdgeInv, TypeOK, WantedHasTarget, SeenIsCurrent, Progress, Pinning, TunnelSeen, Applied
<1>1. ASSUME NEW r \in Renders, Select(r) PROVE EdgeInv'
  BY <1>1 DEF Select
<1>2. CASE Begin
  <2>1. /\ want' \in [route : [Host -> Backends], svc : [Service -> Targets]]
        /\ WantedHasTarget'
    BY <1>2, Manifests DEF Begin
  <2>. QED BY <1>2, <2>1 DEF Begin
<1>3. ASSUME NEW h \in Host, PruneRoute(h) PROVE EdgeInv'
  BY <1>3 DEF PruneRoute, Backends
<1>4. ASSUME NEW s \in Service, PruneService(s) PROVE EdgeInv'
  BY <1>4 DEF PruneService, Targets
<1>5. CASE ApplyServices
  <2>1. \A s \in Service : seen'[s] = svc'[s] /\ (want.svc[s] # "none" => svc'[s] = want.svc[s])
    BY <1>5 DEF ApplyServices, Followed, Stale
  <2>2. svc' \in [Service -> Targets] /\ seen' \in [Service -> Targets]
    BY <1>5 DEF ApplyServices, Followed
  <2>. QED BY <1>5, <2>1, <2>2 DEF ApplyServices
<1>6. CASE ApplyRoutes
  BY <1>6 DEF ApplyRoutes
<1>7. CASE Pin
  BY <1>7 DEF Pin
<1>8. CASE Pinned \/ PinTimeout
  BY <1>8 DEF Pinned, PinTimeout
<1>9. CASE ApplyHosts
  BY <1>9 DEF ApplyHosts
<1>10. CASE Deployed \/ Kill
  BY <1>10 DEF Deployed, Kill
<1>11. CASE Install
  BY <1>11 DEF Install
<1>. QED BY <1>1, <1>2, <1>3, <1>4, <1>5, <1>6, <1>7, <1>8, <1>9, <1>10, <1>11 DEF Deploy

LEMMA SetupInv == EdgeInv /\ Setup => EdgeInv'
<1> SUFFICES ASSUME EdgeInv, Setup PROVE EdgeInv'
  OBVIOUS
<1> USE DEF EdgeInv, TypeOK, WantedHasTarget, SeenIsCurrent, Progress, Pinning, TunnelSeen, Applied
<1>1. CASE SetupBegin
  BY <1>1 DEF SetupBegin
<1>2. CASE SetupRoute
  BY <1>2 DEF SetupRoute
<1>3. CASE SetupRefused
  BY <1>3 DEF SetupRefused
<1>4. CASE SetupSpawn
  <2>1. UNCHANGED <<render, want, objects, patched, edgeSvc, names, pc, routed, pid, died, result>>
        /\ tpc = "spawn" /\ tpc' = "wait"
    BY <1>4 DEF SetupSpawn
  <2>2. tunnel' \in BOOLEAN /\ (pid => tunnel \/ died) /\ (tunnel' <=> tunnel \/ ~pid)
    BY <1>4 DEF SetupSpawn
  <2>3. TypeOK' /\ WantedHasTarget' /\ SeenIsCurrent' /\ Progress' /\ Pinning'
    BY <2>1, <2>2
  <2>4. TunnelSeen'
    BY <2>1, <2>2
  <2>. QED BY <2>3, <2>4
<1>5. CASE SetupWait \/ SetupTimeout
  BY <1>5 DEF SetupWait, SetupTimeout
<1>6. CASE UpdateHosts
  <2>1. lb # "none" /\ etcHosts' = lb /\ (lasting' <=> pc = "done" \/ (lasting /\ lb = etcHosts))
        /\ lasting' \in BOOLEAN
    BY <1>6 DEF UpdateHosts
  <2>2. UNCHANGED <<render, want, objects, patched, edgeSvc, coredns, laptop, pc>>
    BY <1>6 DEF UpdateHosts
  <2>. QED BY <2>1, <2>2
<1>. QED BY <1>1, <1>2, <1>3, <1>4, <1>5, <1>6 DEF Setup

LEMMA OutsideInv == EdgeInv /\ Outside => EdgeInv'
<1> SUFFICES ASSUME EdgeInv, Outside PROVE EdgeInv'
  OBVIOUS
<1> USE DEF EdgeInv, TypeOK, WantedHasTarget, SeenIsCurrent, Progress, Pinning, TunnelSeen, Applied
<1>1. CASE CreateEdge
  BY <1>1 DEF CreateEdge
<1>2. CASE Record
  BY <1>2 DEF Record
<1>3. CASE TunnelDies
  <2>1. UNCHANGED <<render, want, objects, patched, edgeSvc, names, routed, tpc, pid, result, pc>>
        /\ tunnel' = FALSE /\ died' = TRUE
    BY <1>3 DEF TunnelDies
  <2>2. TypeOK'
    BY <2>1
  <2>3. WantedHasTarget' /\ SeenIsCurrent' /\ Progress' /\ Pinning'
    BY <2>1
  <2>4. TunnelSeen'
    BY <2>1
  <2>. QED BY <2>2, <2>3, <2>4
<1>4. CASE StopTunnel
  <2>1. lb' \in {lb, "none"}
    BY <1>4 DEF StopTunnel
  <2>2. UNCHANGED <<render, want, objects, patched, edge, names, tpc, pid, result, pc>>
        /\ tunnel' = FALSE /\ routed' = FALSE /\ died' \in BOOLEAN /\ (tunnel \/ died => died')
    BY <1>4 DEF StopTunnel
  <2>3. /\ {edge', lb', etcHosts'} \subseteq RandomIp \cup {EdgeClusterIp, "none"}
        /\ coredns' \in [Host -> RandomIp \cup {EdgeClusterIp, "none"}]
    BY <2>1, <2>2
  <2>4. tunnel' \in BOOLEAN /\ routed' \in BOOLEAN /\ died' \in BOOLEAN /\ pid' \in BOOLEAN
    BY <2>2
  <2>5. TypeOK'
    BY <2>2, <2>3, <2>4
  <2>6. WantedHasTarget' /\ SeenIsCurrent' /\ Progress' /\ Pinning'
    BY <2>1, <2>2
  <2>7. TunnelSeen'
    BY <2>2
  <2>. QED BY <2>5, <2>6, <2>7
<1>5. CASE Reboot
  BY <1>5 DEF Reboot
<1>6. CASE Recreate
  BY <1>6 DEF Recreate, Nothing, Backends, Targets
<1>. QED BY <1>1, <1>2, <1>3, <1>4, <1>5, <1>6 DEF Outside

LEMMA NextInv == EdgeInv /\ [Next]_vars => EdgeInv'
<1> SUFFICES ASSUME EdgeInv, [Next]_vars PROVE EdgeInv'
  OBVIOUS
<1>1. CASE UNCHANGED vars
  BY <1>1 DEF EdgeInv, TypeOK, WantedHasTarget, SeenIsCurrent, Progress, Pinning, TunnelSeen
<1>. QED BY <1>1, DeployInv, SetupInv, OutsideInv DEF Next

LEMMA InvHolds == Spec => []EdgeInv
  BY InitInv, NextInv, PTL DEF Spec

-----------------------------------------------------------------------------
\* Every variable keeps its type.
THEOREM TypeCorrect == Spec => []TypeOK
<1>1. EdgeInv => TypeOK
  BY DEF EdgeInv
<1>. QED BY <1>1, InvHolds, PTL

\* From the upgrades on every host resolves to the edge and is sent where its render wants it.
THEOREM HostsAreServed == Spec => []HostsServe
<1>1. ASSUME EdgeInv, pc \in {"upgrade", "done"}, NEW h \in Host PROVE Answer(h) = Wanted(h)
  <2>1. gateway /\ route = want.route /\ want.route[h] \in Backends
    BY <1>1 DEF EdgeInv, TypeOK, Progress, Applied
  <2>2. CASE want.route[h] = "none"
    BY <2>1, <2>2 DEF Answer, Reached, Wanted
  <2>3. CASE want.route[h] # "none"
    <3>1. seen[want.route[h]] = want.svc[want.route[h]]
      BY <1>1, <2>1, <2>3 DEF EdgeInv, WantedHasTarget, SeenIsCurrent, Progress, Applied, Backends
    <3>2. Reached(h)
      BY <1>1, <2>1, <2>3 DEF EdgeInv, Pinning, Reached
    <3>. QED BY <2>1, <2>3, <3>1, <3>2 DEF Answer, Wanted
  <2>. QED BY <2>2, <2>3
<1>2. EdgeInv => HostsServe
  BY <1>1 DEF HostsServe
<1>. QED BY <1>2, InvHolds, PTL

\* The line in /etc/hosts stays right, in a new cluster too.
THEOREM HostsLineStays == Spec => []HostsLineValid
<1>1. EdgeInv => HostsLineValid
  BY DEF EdgeInv, HostsLineValid, Pinning
<1>. QED BY <1>1, InvHolds, PTL

\* "up" is never concluded from a recorded IP alone.
THEOREM TunnelIsProven == Spec => TunnelProven
<1>1. EdgeInv /\ [Next]_vars => [result' = "up" /\ result # "up" => tunnel' \/ died']_vars
  <2> SUFFICES ASSUME EdgeInv, Next, result' = "up", result # "up" PROVE tunnel' \/ died'
    OBVIOUS
  <2>1. CASE Setup
    BY <2>1 DEF Setup, SetupBegin, SetupRoute, SetupRefused, SetupSpawn, SetupWait, SetupTimeout,
                UpdateHosts, EdgeInv, TypeOK, TunnelSeen
  <2>2. CASE Deploy
    BY <2>2 DEF Deploy, Select, Begin, PruneRoute, PruneService, ApplyServices, ApplyRoutes, Pin, Pinned,
                PinTimeout, ApplyHosts, Deployed, Kill, Install
  <2>3. CASE Outside
    BY <2>3 DEF Outside, CreateEdge, Record, TunnelDies, StopTunnel, Reboot, Recreate
  <2>. QED BY <2>1, <2>2, <2>3 DEF Next
<1>. QED BY <1>1, InvHolds, PTL DEF Spec, TunnelProven

\* What it takes for a host to be sent where it should be.
LEMMA ServedAsWanted ==
  ASSUME TypeOK, NEW h \in Host, Wanted(h) # {}
  PROVE  /\ want.route[h] # "none" /\ want.route[h] \in Service
         /\ Answer(h) = Wanted(h) <=>
              /\ edge # "none" /\ coredns[h] = edge
              /\ gateway /\ route[h] = want.route[h] /\ seen[want.route[h]] = want.svc[want.route[h]]
<1>1. want.route[h] # "none" /\ Wanted(h) = {<<want.route[h], want.svc[want.route[h]]>>}
  BY DEF Wanted
<1>2. want.route[h] \in Service
  BY <1>1 DEF TypeOK, Backends
<1>3. \A x, y : {x} = {y} => x = y
  OBVIOUS
<1>4. Answer(h) = Wanted(h) =>
        Reached(h) /\ <<route[h], seen[route[h]]>> = <<want.route[h], want.svc[want.route[h]]>>
  BY <1>1, <1>3 DEF Answer
<1>5. ASSUME edge # "none", coredns[h] = edge, gateway, route[h] = want.route[h],
             seen[want.route[h]] = want.svc[want.route[h]]
      PROVE  Answer(h) = Wanted(h)
  BY <1>1, <1>5 DEF Answer, Reached
<1>. QED BY <1>1, <1>2, <1>4, <1>5 DEF Reached

\* Only the recreation of an edge Service without the pinned ClusterIP takes away a host that is
\* served as wanted while a deploy runs.
THEOREM HostsUnbroken == Spec => Unbroken
<1>1. ASSUME EdgeInv, EdgeInv', Next, NEW h \in Host, pc \notin {"idle", "done"}, want' = want,
             Answer(h) = Wanted(h), Wanted(h) # {}, ~(pc = "edge" /\ pc' = "pinning")
      PROVE  Answer(h)' = Wanted(h)'
  <2> DEFINE b == want.route[h]
             Stays == edge' # "none" /\ coredns'[h] = edge' /\ gateway' /\ route'[h] = b /\ seen'[b] = want.svc[b]
  <2>1. /\ b # "none" /\ b \in Service /\ edge # "none" /\ coredns[h] = edge
        /\ gateway /\ route[h] = b /\ seen[b] = want.svc[b]
    BY <1>1, ServedAsWanted DEF EdgeInv
  <2>2. svc[b] = want.svc[b] /\ want.svc[b] # "none"
    BY <1>1, <2>1 DEF EdgeInv, SeenIsCurrent, WantedHasTarget
  <2>3. Stays
    <3>1. CASE Setup
      BY <1>1, <2>1, <3>1 DEF Setup, SetupBegin, SetupRoute, SetupRefused, SetupSpawn, SetupWait,
                              SetupTimeout, UpdateHosts
    <3>2. CASE Outside
      BY <1>1, <2>1, <3>2 DEF Outside, CreateEdge, Record, TunnelDies, StopTunnel, Reboot, Recreate
    <3>3. CASE Begin \/ Pin \/ Pinned \/ PinTimeout \/ ApplyHosts \/ Deployed \/ Kill \/ Install
      BY <1>1, <2>1, <3>3 DEF Begin, Pin, Pinned, PinTimeout, ApplyHosts, Deployed, Kill, Install
    <3>4. ASSUME NEW r \in Renders, Select(r) PROVE FALSE
      BY <1>1, <3>4 DEF Select
    <3>5. ASSUME NEW g \in Host, PruneRoute(g) PROVE Stays
      BY <1>1, <2>1, <3>5 DEF PruneRoute, EdgeInv, TypeOK
    <3>6. ASSUME NEW s \in Service, PruneService(s) PROVE Stays
      BY <1>1, <2>1, <2>2, <3>6 DEF PruneService, Stale, EdgeInv, TypeOK
    <3>7. CASE ApplyServices
      BY <1>1, <2>1, <2>2, <3>7 DEF ApplyServices, Followed, EdgeInv, TypeOK
    <3>8. CASE ApplyRoutes
      BY <1>1, <2>1, <3>8 DEF ApplyRoutes
    <3>. QED BY <1>1, <3>1, <3>2, <3>3, <3>4, <3>5, <3>6, <3>7, <3>8 DEF Next, Deploy
  <2>. QED BY <1>1, <2>1, <2>3 DEF Answer, Reached, Wanted
<1>2. EdgeInv /\ EdgeInv' /\ [Next]_vars =>
        [\A h \in Host : (pc \notin {"idle", "done"} /\ want' = want /\ Answer(h) = Wanted(h) /\ Wanted(h) # {}
                          /\ ~(pc = "edge" /\ pc' = "pinning")) => Answer(h)' = Wanted(h)']_vars
  <2>1. CASE UNCHANGED vars
    BY <2>1
  <2>2. CASE Next
    BY <1>1, <2>2
  <2>. QED BY <2>1, <2>2
<1>. QED BY <1>2, InvHolds, PTL DEF Spec, Unbroken
=============================================================================
