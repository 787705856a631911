---------------------------- MODULE NodeImages ----------------------------
(***************************************************************************)
(* The images of the node (provision.load_images, refresh_images), which   *)
(* runs them by tag, and the workloads that run them (the post-renderer's  *)
(* annotation of their digests).                                           *)
(*                                                                         *)
(* The node shows no digest of an image loaded from the host: stale_images *)
(* takes the digest of the host's tag for it.  The registry's tags move,   *)
(* the chart pins digests, pulls and imports fail with a warning only, and *)
(* runs end early.                                                         *)
(***************************************************************************)
EXTENDS Naturals, FiniteSets

CONSTANTS
  Image,          \* repository:tag
  RepositoryOf(_),
  Ends(_),        \* the images that end with an image's text
  Digest,
  BatchSize,
  PullsFail,      \* in a deploy a pull or an import may fail, as they may in provision-cluster
  ImportsCut,     \* a run may end between docker tag and the import
  MaxChanges,     \* bound: moves of a tag in the registry, and other charts
  MaxEnds         \* bound: runs that end early

ASSUME NodeImagesAssumption ==
  /\ \A i \in Image : i \in Ends(i) /\ Ends(i) \subseteq Image
  /\ "none" \notin Digest /\ BatchSize \in Nat \ {0}
  /\ PullsFail \in BOOLEAN /\ ImportsCut \in BOOLEAN /\ MaxChanges \in Nat /\ MaxEnds \in Nat

VARIABLES
  registry,  \* the digest each tag has in the registry
  pin,       \* the digest the chart has each tag at, "none" for a tag it does not use
  host,      \* the digest of the host's tag
  stored,    \* the node's image under the tag: its digest, and where it is from
  pod,       \* the image the tag's workload runs, and
  template,  \* the digest in its pod template's annotation
  stage, queue, pulled, failed,
  changes, ends

outside == <<registry, pin, changes>>
run == <<stage, queue, pulled, failed>>
pods == <<pod, template>>
imagesVars == <<registry, pin, host, stored, pod, template, stage, queue, pulled, failed, changes, ends>>

None == [digest |-> "none", from |-> "none"]
From(d, where) == [digest |-> d, from |-> where]

\* The chart as published: each pinned digest is the registry's.
ImagesInit ==
  /\ registry \in [Image -> Digest]
  /\ pin \in {p \in [Image -> Digest \cup {"none"}] : \A i \in Image : p[i] \in {registry[i], "none"}}
  /\ host = [i \in Image |-> "none"] /\ stored = [i \in Image |-> None]
  /\ pod = [i \in Image |-> None] /\ template = [i \in Image |-> "none"]
  /\ stage = "idle" /\ queue = {} /\ pulled = {} /\ failed = {} /\ changes = 0 /\ ends = 0

Used == {i \in Image : pin[i] # "none"}

-----------------------------------------------------------------------------
(* provision-cluster: load_images, remove_old_tags. *)

\* Mutant: every image is loaded again.
Missing_Used == Used

\* missing_images: no line of `minikube image ls` ends with the image.
Missing == {i \in Used : \A line \in Ends(i) : stored[line] = None}

Provision ==
  /\ stage = "idle" /\ stage' = "load" /\ queue' = Missing
  /\ UNCHANGED <<host, stored, pulled, failed, ends>> /\ UNCHANGED outside /\ UNCHANGED pods

\* An image that the host has is not pulled.  A pull or an import that fails is a warning.
LoadImage(i) ==
  /\ stage = "load" /\ i \in queue /\ queue' = queue \ {i}
  /\ host' \in IF host[i] = "none" THEN {host, [host EXCEPT ![i] = registry[i]]} ELSE {host}
  /\ \/ UNCHANGED stored
     \/ host'[i] # "none" /\ stored' = [stored EXCEPT ![i] = From(host'[i], "host")]
  /\ UNCHANGED <<stage, pulled, failed, ends>> /\ UNCHANGED outside /\ UNCHANGED pods

\* old_tags: of the repositories in use, the tags not in use.
OldTags == {i \in Image \ Used : \E used \in Used : RepositoryOf(i) = RepositoryOf(used)}

RemoveOldTags ==
  /\ stage = "load" /\ queue = {} /\ stage' = "provisioned"
  /\ host' = [i \in Image |-> IF i \in OldTags THEN "none" ELSE host[i]]
  /\ UNCHANGED <<stored, queue, pulled, failed, ends>> /\ UNCHANGED outside /\ UNCHANGED pods

-----------------------------------------------------------------------------
(* deploy: refresh_images of the stale_images, then helm upgrade. *)

\* stale_images: in the node under another digest; the host's for an image loaded from it.
Stale ==
  {i \in Used : /\ stored[i] # None
                /\ pin[i] # IF stored[i].from = "registry" THEN stored[i].digest ELSE host[i]}

Deploy ==
  /\ stage = "idle" /\ stage' = "refresh" /\ queue' = Stale /\ failed' = {}
  /\ UNCHANGED <<host, stored, pulled, ends>> /\ UNCHANGED outside /\ UNCHANGED pods

\* A batch is pulled by digest and tagged;
Pull ==
  /\ stage = "refresh" /\ queue # {}
  /\ \E batch \in SUBSET queue :
       /\ Cardinality(batch) = BatchSize \/ (batch = queue /\ Cardinality(batch) < BatchSize)
       /\ pulled' \in IF PullsFail THEN SUBSET batch ELSE {batch}
       /\ failed' = failed \cup (batch \ pulled')
       /\ queue' = queue \ batch
  /\ host' = [i \in Image |-> IF i \in pulled' THEN pin[i] ELSE host[i]]
  /\ stage' = "import"
  /\ UNCHANGED <<stored, ends>> /\ UNCHANGED outside /\ UNCHANGED pods

\* ... and imported.
Import ==
  /\ stage = "import" /\ stage' = "refresh"
  /\ \E lost \in IF PullsFail THEN SUBSET pulled ELSE {{}} :
       /\ stored' = [i \in Image |-> IF i \in pulled \ lost THEN From(pin[i], "host") ELSE stored[i]]
       /\ failed' = failed \cup lost
  /\ pulled' = {}
  /\ UNCHANGED <<host, queue, ends>> /\ UNCHANGED outside /\ UNCHANGED pods

\* A pod starts from the node's image under its tag; one that the node lacks the kubelet pulls.
StartedFrom(i) == IF stored[i] = None THEN From(registry[i], "registry") ELSE stored[i]

\* Mutant: digests are dropped from the render, and recorded nowhere.
Rolled_ByTag == {i \in Used : pod[i] = None}

\* _record_digests: a workload restarts when its annotation changes.
Rolled == {i \in Used : pod[i] = None \/ template[i] # pin[i]}

Upgrade ==
  /\ stage = "refresh" /\ queue = {} /\ stage' = "deployed"
  /\ template' = pin
  /\ stored' = [i \in Image |-> IF i \in Rolled THEN StartedFrom(i) ELSE stored[i]]
  /\ pod' = [i \in Image |-> IF i \in Rolled THEN StartedFrom(i)
                             ELSE IF i \in Used THEN pod[i] ELSE None]
  /\ UNCHANGED <<host, queue, pulled, failed, ends>> /\ UNCHANGED outside

NextRun ==
  /\ stage \in {"provisioned", "deployed"} /\ stage' = "idle"
  /\ UNCHANGED <<host, stored, queue, pulled, failed, ends>> /\ UNCHANGED outside /\ UNCHANGED pods

\* A run ends early: killed, or a docker command failed.
CutOff ==
  /\ ends < MaxEnds /\ ends' = ends + 1
  /\ stage \in {"load", "refresh"} \/ (stage = "import" /\ ImportsCut)
  /\ stage' = "idle" /\ queue' = {} /\ pulled' = {}
  /\ UNCHANGED <<host, stored, failed>> /\ UNCHANGED outside /\ UNCHANGED pods

ImagesRun ==
  \/ \E i \in Image : LoadImage(i)
  \/ Provision \/ RemoveOldTags \/ Deploy \/ Pull \/ Import \/ Upgrade \/ NextRun

-----------------------------------------------------------------------------
(* Outside. *)

\* A publisher rebuilds an image under its tag.
Rebuild(i) ==
  /\ changes < MaxChanges /\ changes' = changes + 1
  /\ \E d \in Digest : registry' = [registry EXCEPT ![i] = d]
  /\ UNCHANGED <<pin, host, stored, ends>> /\ UNCHANGED run /\ UNCHANGED pods

\* Between two runs, another version of the chart, with other tags or digests.
Select ==
  /\ stage = "idle" /\ changes < MaxChanges /\ changes' = changes + 1
  /\ \E i \in Image : \E d \in {registry[i], "none"} : pin' = [pin EXCEPT ![i] = d]
  /\ UNCHANGED <<registry, host, stored, ends>> /\ UNCHANGED run /\ UNCHANGED pods

\* The kubelet removes an image that no pod runs.
Collect(i) ==
  /\ stage = "idle" /\ stored[i] # None /\ pod[i] = None /\ changes < MaxChanges /\ changes' = changes + 1
  /\ stored' = [stored EXCEPT ![i] = None]
  /\ UNCHANGED <<registry, pin, host, ends>> /\ UNCHANGED run /\ UNCHANGED pods

ImagesNext == ImagesRun \/ CutOff \/ Select \/ \E i \in Image : Rebuild(i) \/ Collect(i)

ImagesSpec == ImagesInit /\ [][ImagesNext]_imagesVars

-----------------------------------------------------------------------------
Held == [digest : Digest, from : {"host", "registry"}] \cup {None}

\* Every variable has its type.
ImagesTypeOK ==
  /\ registry \in [Image -> Digest] /\ pin \in [Image -> Digest \cup {"none"}]
  /\ host \in [Image -> Digest \cup {"none"}]
  /\ stored \in [Image -> Held] /\ pod \in [Image -> Held]
  /\ template \in [Image -> Digest \cup {"none"}]
  /\ stage \in {"idle", "load", "provisioned", "refresh", "import", "deployed"}
  /\ queue \subseteq Image /\ pulled \subseteq Image /\ failed \subseteq Image
  /\ changes \in 0 .. MaxChanges /\ ends \in 0 .. MaxEnds

\* "An image loaded from the host has no digest on the node: the host's tag tells which one it
\* was": through moved tags, other charts, removed old tags and runs that end early, the host's
\* tag is never another image than the one the node was loaded with.
HostTagTells ==
  \A i \in Image \ pulled : stored[i].from = "host" /\ host[i] # "none" => host[i] = stored[i].digest

\* "pulled by digest and loaded under its tag, and its workloads restart": after a deploy,
\* every workload whose image came from the host runs the digest that the chart pins.
RunsPinned ==
  stage = "deployed" /\ failed = {} =>
    \A i \in Used : pod[i].from = "registry" \/ pod[i].digest = pin[i]
=============================================================================
