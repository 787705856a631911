----------------------------- MODULE NodeProofs -----------------------------
(***************************************************************************)
(* What holds of start_node for any static pods, services and nameservers, *)
(* any number of runs cut off and of reboots; and of the node's images for *)
(* any images, tags, digests and batches, any number of other charts,      *)
(* rebuilt images and runs cut off, when what is pulled is imported.       *)
(***************************************************************************)
EXTENDS NodeTuning, NodeImages, TLAPS

USE NodeTuningAssumption DEF node, vars

(* The node's tuning. *)

Running == {"control", "services", "config", "restart", "wait", "cni", "done"}
Isolated == {"config", "restart", "wait", "cni", "done"}
Restarted == {"wait", "cni", "done"}

\* A run is on a node that is up.
Up == pc \in Running => up

\* What runs with its tuning has it in its file, and what is shown as tuned runs so.
Lives == up => \A u \in Unit : live[u] = "tuned" => file[u] = "tuned"
Shown ==
  up => \A p \in StaticPod : mirror[p].env = "tuned" =>
          live[p] = "tuned" /\ (mirror[p].status = "ready" => p \in ready)

\* What a run has been over is written.
BeenOver ==
  /\ pc \in Running => \A p \in StaticPod : file[p] = "tuned" \/ (pc = "control" /\ p \in todo)
  /\ pc \in Isolated \cup {"services"} =>
       \A s \in Service : file[s] = "tuned" \/ (pc = "services" /\ s \in todo)
  /\ pc \in Isolated \ {"config"} => file["config"] = "tuned"

\* What this run did not write runs as it is written, when no run was cut off before; what
\* it restarted or waited for, too.
PodsFollow ==
  up /\ ~cut => \A p \in StaticPod :
    \/ live[p] = file[p] /\ p \in ready
    \/ pc \in Running \ {"cni", "done"} /\ p \in control /\ (pc = "wait" => p \in todo)
ServicesFollow ==
  up /\ ~cut => \A s \in Service :
    live[s] = file[s] \/ (pc \in {"services", "config", "restart"} /\ s \in services)
ConfigFollows ==
  up /\ ~cut => live["config"] = file["config"] \/ (pc = "restart" /\ "kubelet" \in services)
Finished ==
  up /\ ~cut /\ pc = "idle" => podDns = nodeDns /\ \A u \in Unit : file[u] = "tuned"

Dns ==
  /\ pc \in Isolated => podDns = nodeDns
  /\ ResolvConfThere

TuningInv ==
  /\ TypeOK /\ Up /\ Lives /\ Shown /\ BeenOver
  /\ PodsFollow /\ ServicesFollow /\ ConfigFollows /\ Finished /\ Dns

-----------------------------------------------------------------------------
LEMMA StockMirror ==
  [p \in StaticPod |-> Stock(p)] \in
    [StaticPod -> [env : {"stock", "tuned"}, status : {"none", "unready", "ready"}]]
  BY DEF Stock

LEMMA TypeInit == Init => TypeOK
<1> SUFFICES ASSUME Init PROVE TypeOK
  OBVIOUS
<1>1. cuts \in 0 .. MaxCuts /\ stops \in 0 .. MaxStops
  BY DEF Init
<1>. QED BY <1>1, StockMirror DEF Init, TypeOK, Unit

LEMMA TypeNext == TypeOK /\ [Next]_vars => TypeOK'
<1> SUFFICES ASSUME TypeOK, [Next]_vars PROVE TypeOK'
  OBVIOUS
<1> USE DEF TypeOK
<1>1. CASE Start
  <2>1. CASE up
    <3>1. StaticPod \subseteq Unit
      BY DEF Unit
    <3>2. cut' \in BOOLEAN /\ UNCHANGED <<file, live, ready, mirror>>
      BY <1>1, <2>1 DEF Start
    <3>. QED BY <1>1, <3>1, <3>2 DEF Start
  <2>2. CASE ~up
    <3>1. /\ file' = [u \in Unit |-> IF u \in Service THEN file[u] ELSE "stock"]
          /\ live' = file' /\ ready' = StaticPod /\ mirror' = [p \in StaticPod |-> Stock(p)]
          /\ cut' \in BOOLEAN
      BY <1>1, <2>2 DEF Start
    <3>2. file' \in [Unit -> {"stock", "tuned"}]
      BY <3>1 DEF Unit
    <3>3. StaticPod \subseteq Unit
      BY DEF Unit
    <3>. QED BY <1>1, <3>1, <3>2, <3>3, StockMirror DEF Start
  <2>. QED BY <2>1, <2>2
<1>2. ASSUME NEW p \in StaticPod, TuneControl(p) PROVE TypeOK'
  BY <1>2 DEF TuneControl, Written, Unit
<1>3. ASSUME NEW p \in StaticPod, WaitFor(p) PROVE TypeOK'
  BY <1>3 DEF WaitFor
<1>4. ASSUME NEW s \in Service, TuneService(s) PROVE TypeOK'
  BY <1>4 DEF TuneService, Written, Unit
<1>5. CASE ControlTuned
  BY <1>5 DEF ControlTuned, Unit
<1>6. CASE IsolateDns
  BY <1>6 DEF IsolateDns
<1>7. CASE Isolate
  BY <1>7 DEF Isolate, Written, Unit
<1>8. CASE Restart
  BY <1>8 DEF Restart, Unit
<1>9. CASE Load \/ ApplyCni \/ Done \/ Again
  BY <1>9 DEF Load, ApplyCni, Done, Again
<1>10. CASE Cut
  <2>1. cuts' \in 0 .. MaxCuts
    BY <1>10 DEF Cut
  <2>. QED BY <1>10, <2>1 DEF Cut
<1>11. ASSUME NEW p \in StaticPod, Sync(p) \/ PodReady(p) PROVE TypeOK'
  BY <1>11 DEF Sync, PodReady, Unit
<1>12. ASSUME NEW p \in StaticPod, Show(p) PROVE TypeOK'
  BY <1>12 DEF Show, Unit
<1>13. CASE StopNode
  <2>1. stops' \in 0 .. MaxStops
    BY <1>13 DEF StopNode
  <2>. QED BY <1>13, <2>1 DEF StopNode
<1>14. CASE UNCHANGED vars
  BY <1>14
<1>. QED
  BY <1>1, <1>2, <1>3, <1>4, <1>5, <1>6, <1>7, <1>8, <1>9, <1>10, <1>11, <1>12, <1>13, <1>14
     DEF Next, Run, Node

LEMMA InitInv == Init => TuningInv
<1> SUFFICES ASSUME Init PROVE TuningInv
  OBVIOUS
<1>1. Up /\ Lives /\ Shown /\ BeenOver /\ PodsFollow /\ ServicesFollow /\ ConfigFollows /\ Finished /\ Dns
  BY DEF Init, Up, Lives, Shown, BeenOver, PodsFollow, ServicesFollow, ConfigFollows, Finished,
         Dns, ResolvConfThere, Running, Isolated, Unit
<1>. QED BY <1>1, TypeInit DEF TuningInv

LEMMA StartInv == TuningInv /\ Start => TuningInv'
<1> SUFFICES ASSUME TuningInv, Start PROVE TuningInv'
  OBVIOUS
<1>1. TypeOK'
  BY TypeNext DEF TuningInv, Next, Run
<1> USE DEF TuningInv, Up, Lives, Shown, BeenOver, PodsFollow, ServicesFollow, ConfigFollows, Finished,
            Dns, ResolvConfThere, Running, Isolated
<1>2. CASE up
  <2>1. UNCHANGED <<file, live, ready, mirror, nodeDns, podDns>> /\ (cut' <=> cut) /\ up' /\ pc = "idle"
        /\ pc' = "control" /\ todo' = StaticPod /\ control' = {} /\ services' = {}
    BY <1>2 DEF Start
  <2>2. Up' /\ Lives' /\ Shown' /\ BeenOver' /\ Dns'
    BY <1>2, <2>1 DEF TypeOK
  <2>3. PodsFollow' /\ ServicesFollow' /\ ConfigFollows' /\ Finished'
    BY <1>2, <2>1 DEF TypeOK
  <2>. QED BY <1>1, <2>2, <2>3
<1>3. CASE ~up
  <2>1. /\ file' = [u \in Unit |-> IF u \in Service THEN file[u] ELSE "stock"]
        /\ live' = file' /\ ready' = StaticPod /\ mirror' = [p \in StaticPod |-> Stock(p)]
        /\ up' /\ podDns' = podDns
        /\ pc' = "control" /\ todo' = StaticPod /\ control' = {} /\ services' = {}
    BY <1>3 DEF Start
  <2>2. \A p \in StaticPod : mirror'[p].env = "stock"
    BY <2>1 DEF Stock
  <2>3. "config" \in Unit /\ "config" \notin Service
    BY DEF Unit
  <2>4. \A u \in Unit : file'[u] = live'[u]
    BY <2>1
  <2>5. Up' /\ Lives' /\ Shown' /\ BeenOver'
    BY <2>1, <2>2, <2>4
  <2>6. PodsFollow' /\ ServicesFollow' /\ ConfigFollows' /\ Finished'
    BY <2>1, <2>3, <2>4 DEF Unit
  <2>7. Dns'
    BY <2>1, <2>3
  <2>. QED BY <1>1, <2>5, <2>6, <2>7
<1>. QED BY <1>2, <1>3

LEMMA RunInv == TuningInv /\ Run => TuningInv'
<1> SUFFICES ASSUME TuningInv, Run PROVE TuningInv'
  OBVIOUS
<1>1. TypeOK'
  BY TypeNext DEF TuningInv, Next
<1> USE DEF TuningInv, Up, Lives, Shown, BeenOver, PodsFollow, ServicesFollow, ConfigFollows, Finished,
            Dns, ResolvConfThere, Running, Isolated
<1>2. ASSUME NEW p \in StaticPod, TuneControl(p) PROVE TuningInv'
  BY <1>1, <1>2 DEF TuneControl, Written, TypeOK, Unit
<1>3. ASSUME NEW p \in StaticPod, WaitFor(p) PROVE TuningInv'
  <2>1. UNCHANGED <<file, live, ready, mirror, podDns, pc, control, services, up, nodeDns>>
        /\ (cut' <=> cut) /\ pc = "wait" /\ todo' = todo \ {p}
        /\ mirror[p].env = "tuned" /\ mirror[p].status = "ready"
    BY <1>3 DEF WaitFor, TunedAndReady
  <2>2. live[p] = file[p] /\ p \in ready
    BY <2>1 DEF TypeOK, Unit
  <2>3. Up' /\ Lives' /\ Shown' /\ BeenOver' /\ Dns'
    BY <2>1
  <2>4. PodsFollow'
    BY <2>1, <2>2
  <2>5. ServicesFollow' /\ ConfigFollows' /\ Finished'
    BY <2>1
  <2>. QED BY <1>1, <2>3, <2>4, <2>5
<1>4. ASSUME NEW s \in Service, TuneService(s) PROVE TuningInv'
  BY <1>1, <1>4 DEF TuneService, Written, TypeOK, Unit
<1>5. CASE ControlTuned
  BY <1>1, <1>5 DEF ControlTuned, TypeOK, Unit
<1>6. CASE IsolateDns
  BY <1>1, <1>6 DEF IsolateDns, TypeOK, Unit
<1>7. CASE Isolate
  BY <1>1, <1>7 DEF Isolate, Written, TypeOK, Unit
<1>8. CASE Restart
  BY <1>1, <1>8 DEF Restart, TypeOK, Unit
<1>9. CASE Load \/ ApplyCni \/ Done
  BY <1>1, <1>9 DEF Load, ApplyCni, Done, TypeOK, Unit
<1>10. CASE Again
  BY <1>1, <1>10 DEF Again, TypeOK, Unit
<1>. QED BY <1>2, <1>3, <1>4, <1>5, <1>6, <1>7, <1>8, <1>9, <1>10, StartInv DEF Run

LEMMA NextInv == TuningInv /\ [Next]_vars => TuningInv'
<1> SUFFICES ASSUME TuningInv, [Next]_vars PROVE TuningInv'
  OBVIOUS
<1>1. TypeOK'
  BY TypeNext DEF TuningInv
<1> USE DEF TuningInv, Up, Lives, Shown, BeenOver, PodsFollow, ServicesFollow, ConfigFollows, Finished,
            Dns, ResolvConfThere, Running, Isolated
<1>2. CASE Cut
  BY <1>1, <1>2 DEF Cut
<1>3. CASE StopNode
  BY <1>1, <1>3 DEF StopNode
<1>4. ASSUME NEW p \in StaticPod, Sync(p) PROVE TuningInv'
  BY <1>1, <1>4 DEF Sync, TypeOK, Unit
<1>5. ASSUME NEW p \in StaticPod, PodReady(p) PROVE TuningInv'
  BY <1>1, <1>5 DEF PodReady, TypeOK
<1>6. ASSUME NEW p \in StaticPod, Show(p) PROVE TuningInv'
  BY <1>1, <1>6 DEF Show, TypeOK, Unit
<1>7. CASE UNCHANGED vars
  BY <1>7 DEF TypeOK
<1>. QED BY <1>2, <1>3, <1>4, <1>5, <1>6, <1>7, RunInv DEF Next, Node

LEMMA InvHolds == Spec => []TuningInv
  BY InitInv, NextInv, PTL DEF Spec

-----------------------------------------------------------------------------
\* Every variable keeps its type.
THEOREM TypeCorrect == Spec => []TypeOK
<1>1. TuningInv => TypeOK
  BY DEF TuningInv
<1>. QED BY <1>1, InvHolds, PTL

\* A kubelet never runs with, nor finds on a reboot, a resolvConf that is not there.
THEOREM ResolvConfIsThere == Spec => []ResolvConfThere
<1>1. TuningInv => ResolvConfThere
  BY DEF TuningInv, Dns
<1>. QED BY <1>1, InvHolds, PTL

\* A run that ends well, with none cut off since the node booted, leaves every static pod and
\* service running with its tuning.
THEOREM TunedWhenRunEnds == Spec => []TunedWhenDone
<1>1. TuningInv => TunedWhenDone
  BY DEF TuningInv, TunedWhenDone, Up, BeenOver, PodsFollow, ServicesFollow, ConfigFollows, Dns,
         Running, Isolated, Unit
<1>. QED BY <1>1, InvHolds, PTL

-----------------------------------------------------------------------------
(* The node's images: NodeImages, whose runs are others than start_node's. *)

USE NodeImagesAssumption DEF outside, run, pods, imagesVars

\* A pulled image is imported: none of both fails, and no run ends between them.
Imported == PullsFail = FALSE /\ ImportsCut = FALSE

\* What is pulled is tagged at its pin until it is imported; nothing else is on its way.
OnTheWay ==
  /\ stage # "import" => pulled = {}
  /\ \A i \in pulled : host[i] = pin[i] /\ pin[i] # "none"
  /\ stage = "load" => \A i \in queue : stored[i] = None
  /\ stage \in {"refresh", "import"} => queue \subseteq Used
  /\ failed = {}

\* What a deploy has been over is not from the host under another digest.
Refreshed ==
  stage \in {"refresh", "import"} => \A i \in Used :
    i \in queue \/ i \in pulled \/ stored[i].from # "host" \/ stored[i].digest = pin[i]

\* A workload runs what its annotation says.
PodsAnnotated == \A i \in Image : pod[i].from = "host" => pod[i].digest = template[i]

Deployed ==
  stage = "deployed" => \A i \in Used : pod[i] # None /\ template[i] = pin[i]

ImagesInv ==
  /\ ImagesTypeOK /\ HostTagTells
  /\ OnTheWay /\ Refreshed /\ PodsAnnotated /\ Deployed

-----------------------------------------------------------------------------
LEMMA HeldFields ==
  /\ None.from = "none" /\ None.digest = "none"
  /\ \A d, w : From(d, w).digest = d /\ From(d, w).from = w
  /\ \A d \in Digest : \A w \in {"host", "registry"} : From(d, w) \in Held
  /\ \A h \in Held : h # None => h.digest \in Digest /\ h.from \in {"host", "registry"}
  /\ None \in Held
  BY DEF None, From, Held

LEMMA InitImages == ImagesInit => ImagesInv
<1> SUFFICES ASSUME ImagesInit PROVE ImagesInv
  OBVIOUS
<1>1. changes \in 0 .. MaxChanges /\ ends \in 0 .. MaxEnds
  BY DEF ImagesInit
<1>2. ImagesTypeOK
  BY <1>1, HeldFields DEF ImagesInit, ImagesTypeOK
<1>3. HostTagTells /\ OnTheWay /\ Refreshed /\ PodsAnnotated /\ Deployed
  BY HeldFields DEF ImagesInit, HostTagTells, OnTheWay, Refreshed, PodsAnnotated, Deployed
<1>. QED BY <1>2, <1>3 DEF ImagesInv

LEMMA RunImages == Imported /\ ImagesInv /\ ImagesRun => ImagesInv'
<1> SUFFICES ASSUME Imported, ImagesInv, ImagesRun PROVE ImagesInv'
  OBVIOUS
<1> USE HeldFields DEF ImagesInv, ImagesTypeOK, HostTagTells, OnTheWay, Refreshed,
                       PodsAnnotated, Deployed, Used
<1> HIDE DEF None, From, Held
<1>1. CASE Provision
  BY <1>1 DEF Provision, Missing
<1>2. ASSUME NEW i \in Image, LoadImage(i) PROVE ImagesInv'
  BY <1>2 DEF LoadImage
<1>3. CASE RemoveOldTags
  BY <1>3 DEF RemoveOldTags
<1>4. CASE Deploy
  BY <1>4 DEF Deploy, Stale
<1>5. CASE Pull
  <2>1. PICK batch \in SUBSET queue :
          /\ pulled' = batch /\ failed' = failed /\ queue' = queue \ batch
          /\ host' = [i \in Image |-> IF i \in pulled' THEN pin[i] ELSE host[i]]
    BY <1>5 DEF Pull, Imported
  <2>2. stage = "refresh" /\ stage' = "import" /\ UNCHANGED <<stored, ends, outside, pods>>
    BY <1>5 DEF Pull
  <2>. QED BY <2>1, <2>2
<1>6. CASE Import
  <2>1. /\ stage = "import" /\ stage' = "refresh" /\ pulled' = {} /\ failed' = failed
        /\ stored' = [i \in Image |-> IF i \in pulled THEN From(pin[i], "host") ELSE stored[i]]
        /\ UNCHANGED <<host, queue, ends, outside, pods>>
    BY <1>6 DEF Import, Imported
  <2>2. stored' \in [Image -> Held]
    BY <2>1
  <2>. QED BY <2>1, <2>2
<1>7. CASE Upgrade
  <2>1. \A i \in Image : StartedFrom(i) \in Held /\ StartedFrom(i) # None
                         /\ (StartedFrom(i).from = "host" => StartedFrom(i) = stored[i])
    BY DEF StartedFrom
  <2> HIDE DEF StartedFrom
  <2>2. /\ stage = "refresh" /\ queue = {} /\ stage' = "deployed" /\ template' = pin
        /\ stored' = [i \in Image |-> IF i \in Rolled THEN StartedFrom(i) ELSE stored[i]]
        /\ pod' = [i \in Image |-> IF i \in Rolled THEN StartedFrom(i)
                                   ELSE IF i \in Used THEN pod[i] ELSE None]
        /\ UNCHANGED <<host, queue, pulled, failed, ends, outside>>
    BY <1>7 DEF Upgrade
  <2>3. stored' \in [Image -> Held] /\ pod' \in [Image -> Held]
    BY <2>1, <2>2
  <2>4. PodsAnnotated' /\ Deployed'
    BY <2>1, <2>2 DEF Rolled
  <2>5. HostTagTells'
    BY <2>1, <2>2
  <2>. QED BY <2>2, <2>3, <2>4, <2>5
<1>8. CASE NextRun
  BY <1>8 DEF NextRun
<1>. QED BY <1>1, <1>2, <1>3, <1>4, <1>5, <1>6, <1>7, <1>8 DEF ImagesRun

LEMMA NextImages == Imported /\ ImagesInv /\ [ImagesNext]_imagesVars => ImagesInv'
<1> SUFFICES ASSUME Imported, ImagesInv, [ImagesNext]_imagesVars PROVE ImagesInv'
  OBVIOUS
<1> USE HeldFields DEF ImagesInv, ImagesTypeOK, HostTagTells, OnTheWay, Refreshed,
                       PodsAnnotated, Deployed, Used
<1> HIDE DEF None, From, Held
<1>1. CASE CutOff
  <2>1. ends' \in 0 .. MaxEnds
    BY <1>1 DEF CutOff
  <2>. QED BY <1>1, <2>1 DEF CutOff, Imported
<1>2. CASE Select
  <2>1. changes' \in 0 .. MaxChanges
    BY <1>2 DEF Select
  <2>. QED BY <1>2, <2>1 DEF Select
<1>3. ASSUME NEW i \in Image, Rebuild(i) PROVE ImagesInv'
  <2>1. changes' \in 0 .. MaxChanges
    BY <1>3 DEF Rebuild
  <2>. QED BY <1>3, <2>1 DEF Rebuild
<1>4. ASSUME NEW i \in Image, Collect(i) PROVE ImagesInv'
  <2>1. changes' \in 0 .. MaxChanges
    BY <1>4 DEF Collect
  <2>. QED BY <1>4, <2>1 DEF Collect
<1>5. CASE UNCHANGED imagesVars
  BY <1>5
<1>. QED BY <1>1, <1>2, <1>3, <1>4, <1>5, RunImages DEF ImagesNext

LEMMA ImagesInvHolds == Imported => (ImagesSpec => []ImagesInv)
<1> SUFFICES ASSUME Imported PROVE ImagesSpec => []ImagesInv
  OBVIOUS
<1>. QED BY InitImages, NextImages, PTL DEF ImagesSpec

-----------------------------------------------------------------------------
\* Every variable keeps its type.
THEOREM ImagesTypeCorrect == Imported => (ImagesSpec => []ImagesTypeOK)
<1>1. ImagesInv => ImagesTypeOK
  BY DEF ImagesInv
<1>. QED BY <1>1, ImagesInvHolds, PTL

\* The host's tag is the digest of the node's image that came from the host.
THEOREM HostTagIsTheNodes == Imported => (ImagesSpec => []HostTagTells)
<1>1. ImagesInv => HostTagTells
  BY DEF ImagesInv
<1>. QED BY <1>1, ImagesInvHolds, PTL

\* After a deploy the workloads run the digests that the chart pins.
THEOREM PodsRunPins == Imported => (ImagesSpec => []RunsPinned)
<1>1. ImagesInv => RunsPinned
  <2> SUFFICES ASSUME ImagesInv, stage = "deployed", NEW i \in Used
               PROVE  pod[i].from = "registry" \/ pod[i].digest = pin[i]
    BY DEF RunsPinned
  <2>1. i \in Image /\ pod[i] \in Held /\ pod[i] # None /\ template[i] = pin[i]
    BY DEF ImagesInv, ImagesTypeOK, Deployed, Used
  <2>2. pod[i].from \in {"host", "registry"}
    BY <2>1, HeldFields
  <2>. QED BY <2>1, <2>2 DEF ImagesInv, PodsAnnotated
<1>. QED BY <1>1, ImagesInvHolds, PTL
=============================================================================
