----------------------------- MODULE ChartProofs -----------------------------
(***************************************************************************)
(* What holds of upgrades of any charts, whatever parts of them are turned *)
(* on and off, that are post-rendered and cut off between two objects; and *)
(* of selections and syncs for any number of commands, charts, versions,   *)
(* edits of a checkout and commands killed.                                *)
(*                                                                         *)
(* Of the fixups one lemma each says what they leave alone: the ConfigMaps *)
(* and, but for added volumes, what a workload reads (Plain), and what     *)
(* they make of a Job. Rendering puts them together. A second one each     *)
(* says what becomes of a container (Kept); RenderingKept does the same.   *)
(***************************************************************************)
EXTENDS DependencySync, PostRender, FiniteSetTheorems, SequenceTheorems, TLAPS

\* The volumes that a fixup may add.
Added(docs) == {"ca", "postgres-tls"} \cup {n \in {RoleMapping} : \E c \in ConfigsIn(docs) : c.name = n}

\* What a fixup makes of a workload: it is the same one, and reads the same, but for what is added.
Named(e, d) == d.kind = e.kind /\ d.name = e.name /\ d.hook = e.hook /\ d.large = e.large
Reads(N, e, d) ==
  /\ ConfigMapsUsed(e) \subseteq ConfigMapsUsed(d)
  /\ ConfigMapsUsed(d) \subseteq ConfigMapsUsed(e) \cup N
Alike(N, e, d) == Named(e, d) /\ Reads(N, e, d) /\ d.notes = e.notes

\* A fixup that makes B of A leaves the ConfigMaps and the annotations alone.
Plain(A, B) ==
  /\ AreDocs(B) /\ ConfigsIn(B) = ConfigsIn(A)
  /\ Unique(A) => Unique(B)
  /\ \A d \in B : HasPod(d) => \E e \in A : Alike(Added(A), e, d)

\* The same, of one document.
Mapped(N, e, d) ==
  /\ IsDoc(d) /\ d.kind = e.kind
  /\ HasPod(e) => Alike(N, e, d)
  /\ e.kind = "ConfigMap" => d = e

LEMMA Itself == \A N, d : Alike(N, d, d) /\ (IsDoc(d) => Mapped(N, d, d))
BY DEF Mapped, Alike, Named, Reads

LEMMA PlainTrans == \A A, B, C : Plain(A, B) /\ Plain(B, C) => Plain(A, C)
<1> SUFFICES ASSUME NEW A, NEW B, NEW C, Plain(A, B), Plain(B, C) PROVE Plain(A, C)
  OBVIOUS
<1>1. Added(B) = Added(A)
  BY DEF Plain, Added
<1>2. ASSUME NEW x \in C, HasPod(x) PROVE \E e \in A : Alike(Added(A), e, x)
  <2>1. PICK d \in B : Alike(Added(B), d, x)
    BY <1>2 DEF Plain
  <2>2. HasPod(d)
    BY <1>2, <2>1 DEF Alike, Named, HasPod
  <2>3. PICK e \in A : Alike(Added(A), e, d)
    BY <2>2 DEF Plain
  <2>4. Reads(Added(A), e, x)
    BY <1>1, <2>1, <2>3 DEF Alike, Reads
  <2>. QED BY <2>1, <2>3, <2>4 DEF Alike, Named
<1>. QED BY <1>2 DEF Plain

\* The fixup changes one field of a document.
LEMMA FieldMapped ==
  ASSUME NEW d, NEW e, NEW N, IsDoc(d), IsRecord(e), d.kind # "ConfigMap", e.containers = d.containers,
         Named(d, e), e.notes = d.notes, e.volumes = d.volumes
  PROVE  Mapped(N, d, e)
<1>1. ConfigMapsUsed(e) = ConfigMapsUsed(d)
  BY DEF ConfigMapsUsed
<1>2. e.kind = d.kind
  BY DEF Named
<1>. QED BY <1>1, <1>2 DEF Mapped, Alike, Reads, IsDoc

LEMMA FieldChanges ==
  ASSUME NEW d, NEW v, NEW N, IsDoc(d), d.kind # "ConfigMap"
  PROVE  /\ Mapped(N, d, [d EXCEPT !.replicas = v]) /\ Mapped(N, d, [d EXCEPT !.links = v])
         /\ Mapped(N, d, [d EXCEPT !.alone = v]) /\ Mapped(N, d, [d EXCEPT !.backends = v])
<1>1. ASSUME NEW e, IsRecord(e), e.containers = d.containers, Named(d, e), e.notes = d.notes, e.volumes = d.volumes
      PROVE  Mapped(N, d, e)
  BY <1>1, FieldMapped
<1>2. Mapped(N, d, [d EXCEPT !.replicas = v])
  <2> DEFINE e == [d EXCEPT !.replicas = v]
  <2>1. IsRecord(e) /\ e.containers = d.containers /\ Named(d, e) /\ e.notes = d.notes /\ e.volumes = d.volumes
    BY DEF IsDoc, IsRecord, Named
  <2> HIDE DEF e
  <2>2. Mapped(N, d, e)
    BY <2>1, <1>1
  <2>. QED BY <2>2 DEF e
<1>3. Mapped(N, d, [d EXCEPT !.links = v])
  <2> DEFINE e == [d EXCEPT !.links = v]
  <2>1. IsRecord(e) /\ e.containers = d.containers /\ Named(d, e) /\ e.notes = d.notes /\ e.volumes = d.volumes
    BY DEF IsDoc, IsRecord, Named
  <2> HIDE DEF e
  <2>2. Mapped(N, d, e)
    BY <2>1, <1>1
  <2>. QED BY <2>2 DEF e
<1>4. Mapped(N, d, [d EXCEPT !.alone = v])
  <2> DEFINE e == [d EXCEPT !.alone = v]
  <2>1. IsRecord(e) /\ e.containers = d.containers /\ Named(d, e) /\ e.notes = d.notes /\ e.volumes = d.volumes
    BY DEF IsDoc, IsRecord, Named
  <2> HIDE DEF e
  <2>2. Mapped(N, d, e)
    BY <2>1, <1>1
  <2>. QED BY <2>2 DEF e
<1>5. Mapped(N, d, [d EXCEPT !.backends = v])
  <2> DEFINE e == [d EXCEPT !.backends = v]
  <2>1. IsRecord(e) /\ e.containers = d.containers /\ Named(d, e) /\ e.notes = d.notes /\ e.volumes = d.volumes
    BY DEF IsDoc, IsRecord, Named
  <2> HIDE DEF e
  <2>2. Mapped(N, d, e)
    BY <2>1, <1>1
  <2>. QED BY <2>2 DEF e
<1>. QED BY <1>2, <1>3, <1>4, <1>5

\* The fixup changes containers, and perhaps adds volumes.
LEMMA Inner ==
  ASSUME NEW d, NEW S, NEW e, IsDoc(d), e = [d EXCEPT !.containers = S]
  PROVE  /\ IsRecord(e) /\ Named(d, e) /\ e.containers = S /\ e.notes = d.notes
         /\ e.volumes = d.volumes /\ e.resources = d.resources
BY DEF IsDoc, IsRecord, Named

LEMMA ContainersMapped ==
  ASSUME NEW d, NEW e, NEW S, NEW V, NEW N, IsDoc(d), d.kind # "ConfigMap",
         IsRecord(e), Named(d, e), e.containers = S, e.notes = d.notes, e.volumes = d.volumes \cup V, V \subseteq N,
         \A c \in S : IsContainer(c),
         HasPod(d) => /\ \A c \in S : \E b \in d.containers : c.from = b.from
                      /\ \A b \in d.containers : \E c \in S : c.from = b.from
  PROVE  Mapped(N, d, e)
<1>1. HasPod(d) => Reads(N, d, e)
  BY DEF Reads, ConfigMapsUsed
<1>2. IsDoc(e) /\ e.kind = d.kind
  BY DEF IsDoc, Named
<1>. QED BY <1>1, <1>2 DEF Mapped, Alike

LEMMA InnerMapped ==
  ASSUME NEW d, NEW S, NEW V, NEW N, IsDoc(d), d.kind # "ConfigMap", V \subseteq N,
         \A c \in S : IsContainer(c),
         HasPod(d) => /\ \A c \in S : \E b \in d.containers : c.from = b.from
                      /\ \A b \in d.containers : \E c \in S : c.from = b.from
  PROVE  /\ Mapped(N, d, [d EXCEPT !.containers = S])
         /\ Mapped(N, d, [[d EXCEPT !.containers = S] EXCEPT !.volumes = @ \cup V])
<1> DEFINE e == [d EXCEPT !.containers = S]
           x == [[d EXCEPT !.containers = S] EXCEPT !.volumes = @ \cup V]
<1>1. /\ IsRecord(e) /\ Named(d, e) /\ e.containers = S /\ e.notes = d.notes /\ e.volumes = d.volumes
      /\ IsRecord(x) /\ Named(d, x) /\ x.containers = S /\ x.notes = d.notes /\ x.volumes = d.volumes \cup V
  <2> DEFINE W == e.volumes \cup V
  <2>1. e = [d EXCEPT !.containers = S] /\ x = [e EXCEPT !.volumes = W]
    OBVIOUS
  <2> HIDE DEF e, x, W
  <2>2. IsRecord(e) /\ Named(d, e) /\ e.containers = S /\ e.notes = d.notes /\ e.volumes = d.volumes
    BY <2>1, Inner
  <2>3. IsRecord(x) /\ Named(e, x) /\ x.containers = e.containers /\ x.notes = e.notes /\ x.volumes = W
    BY <2>1, <2>2 DEF IsRecord, Named
  <2>. QED BY <2>2, <2>3 DEF Named, W
<1> HIDE DEF e, x
<1>2. Mapped(N, d, e)
  <2>1. PICK none : none = {}
    OBVIOUS
  <2>2. e.volumes = d.volumes \cup none /\ none \subseteq N
    BY <1>1, <2>1
  <2>. QED BY <1>1, <2>2, ContainersMapped
<1>3. Mapped(N, d, x)
  BY <1>1, ContainersMapped
<1>. QED BY <1>2, <1>3 DEF e, x

\* A fixup that is a function of each document.
LEMMA MapPlain ==
  ASSUME NEW A, NEW f, \A d \in A : Mapped(Added(A), d, f[d])
  PROVE  Plain(A, {f[d] : d \in A})
<1>1. \A d \in A : f[d].kind = d.kind
  BY DEF Mapped
<1>2. ConfigsIn({f[d] : d \in A}) = ConfigsIn(A)
  BY <1>1 DEF ConfigsIn, Mapped
<1>3. \A d \in {f[e] : e \in A} : HasPod(d) => \E e \in A : Alike(Added(A), e, d)
  BY <1>1 DEF Mapped, HasPod
<1>4. AreDocs({f[d] : d \in A})
  BY DEF AreDocs, Mapped
<1>5. Unique(A) => Unique({f[d] : d \in A})
  <2>1. \A d \in A : HasPod(f[d]) => HasPod(d) /\ Key(d) = Key(f[d])
    BY <1>1 DEF Mapped, Alike, Named, HasPod, Key
  <2>. QED BY <2>1 DEF Unique
<1>. QED BY <1>2, <1>3, <1>4, <1>5 DEF Plain

LEMMA MapJobs ==
  ASSUME NEW A, NEW f, NEW g, \A d \in A : Mapped(Added(A), d, f[d]),
         \A d \in A : d.kind = "Job" => f[d] = g[d]
  PROVE  JobsIn({f[d] : d \in A}) = {g[d] : d \in JobsIn(A)}
BY DEF JobsIn, Mapped

LEMMA MapOthers ==
  ASSUME NEW A, NEW f, \A d \in A : Mapped(Added(A), d, f[d]) /\ (d.kind = "Job" => f[d] = d)
  PROVE  Plain(A, {f[d] : d \in A}) /\ JobsIn({f[d] : d \in A}) = JobsIn(A)
<1>1. Plain(A, {f[d] : d \in A})
  BY MapPlain
<1>2. JobsIn({f[d] : d \in A}) = JobsIn(A)
  BY DEF JobsIn, Mapped
<1>. QED BY <1>1, <1>2

LEMMA MappedTrans == \A N, d, e, x : Mapped(N, d, e) /\ Mapped(N, e, x) => Mapped(N, d, x)
<1> SUFFICES ASSUME NEW N, NEW d, NEW e, NEW x, Mapped(N, d, e), Mapped(N, e, x) PROVE Mapped(N, d, x)
  OBVIOUS
<1>1. ASSUME HasPod(d) PROVE Alike(N, d, x)
  <2>1. HasPod(e)
    BY <1>1 DEF Mapped, HasPod
  <2>2. Alike(N, d, e) /\ Alike(N, e, x)
    BY <1>1, <2>1 DEF Mapped
  <2>. QED BY <2>2 DEF Alike, Named, Reads
<1>. QED BY <1>1 DEF Mapped

(* Containers. *)

LEMMA ContainerChanges ==
  ASSUME NEW c, NEW v, IsContainer(c)
  PROVE  /\ IsContainer([c EXCEPT !.init = v]) /\ IsContainer([c EXCEPT !.image = v])
         /\ IsContainer([c EXCEPT !.env = v]) /\ [c EXCEPT !.env = v].from = c.from
         /\ IsContainer([c EXCEPT !.digest = v]) /\ [c EXCEPT !.digest = v].from = c.from
         /\ IsContainer([c EXCEPT !.memory = v]) /\ [c EXCEPT !.memory = v].from = c.from
         /\ IsContainer([c EXCEPT !.mounts = v]) /\ [c EXCEPT !.mounts = v].from = c.from
         /\ IsContainer([c EXCEPT !.probes = v]) /\ [c EXCEPT !.probes = v].from = c.from
         /\ IsContainer([c EXCEPT !.cpu = v]) /\ [c EXCEPT !.cpu = v].from = c.from
         /\ IsContainer([c EXCEPT !.command = v]) /\ [c EXCEPT !.command = v].from = c.from
         /\ IsContainer([c EXCEPT !.name = v])
         /\ IsContainer([c EXCEPT !.args = v]) /\ [c EXCEPT !.args = v].from = c.from
BY SMTT(30) DEF IsContainer

LEMMA EnvAdded ==
  ASSUME NEW c, NEW v, IsContainer(c)
  PROVE  IsContainer(AddEnv(c, v)) /\ AddEnv(c, v).from = c.from
<1> DEFINE env == MergeEnv(c.env, v)
<1>1. AddEnv(c, v) = [c EXCEPT !.env = env]
  BY DEF AddEnv
<1> HIDE DEF env
<1>2. IsContainer([c EXCEPT !.env = env]) /\ [c EXCEPT !.env = env].from = c.from
  BY ContainerChanges
<1>. QED BY <1>1, <1>2

LEMMA InsideMapped ==
  ASSUME NEW d, NEW g, NEW V, NEW N, IsDoc(d), d.kind # "ConfigMap", V \subseteq N,
         \A c \in d.containers : IsContainer(g[c]) /\ g[c].from = c.from
  PROVE  LET e == [d EXCEPT !.containers = {g[c] : c \in d.containers}]
         IN  Mapped(N, d, e) /\ Mapped(N, d, [e EXCEPT !.volumes = @ \cup V])
<1> DEFINE S == {g[c] : c \in d.containers}
<1>1. /\ \A c \in S : IsContainer(c)
      /\ \A c \in S : \E b \in d.containers : c.from = b.from
      /\ \A b \in d.containers : \E c \in S : c.from = b.from
  OBVIOUS
<1> HIDE DEF S
<1>2. /\ Mapped(N, d, [d EXCEPT !.containers = S])
      /\ Mapped(N, d, [[d EXCEPT !.containers = S] EXCEPT !.volumes = @ \cup V])
  BY <1>1, InnerMapped
<1>. QED BY <1>2 DEF S

LEMMA Overridden == \A N, d : IsDoc(d) => Mapped(N, d, Override(d)) /\ (HasPod(d) => Override(d) = d)
<1> SUFFICES ASSUME NEW N, NEW d, IsDoc(d) PROVE Mapped(N, d, Override(d)) /\ (HasPod(d) => Override(d) = d)
  OBVIOUS
<1> DEFINE limit == d.resources = "limited"
           new == [Container EXCEPT !.name = "prometheus", !.memory = limit]
           S == d.containers \cup {new}
           e == [d EXCEPT !.containers = S]
<1>1. IsContainer(new)
  <2> HIDE DEF limit
  <2> DEFINE bare == [Container EXCEPT !.name = "prometheus"]
  <2>1. IsContainer(Container)
    BY DEF Container, IsContainer
  <2>2. IsContainer(bare)
    BY <2>1, ContainerChanges
  <2>3. new = [bare EXCEPT !.memory = limit]
    BY <2>1 DEF IsContainer
  <2> HIDE DEF bare, new
  <2>4. IsContainer([bare EXCEPT !.memory = limit])
    BY <2>2, ContainerChanges
  <2>. QED BY <2>3, <2>4
<1> HIDE DEF new
<1>2. \A c \in S : IsContainer(c)
  BY <1>1 DEF IsDoc
<1> HIDE DEF S
<1>3. d.kind = "Prometheus" => Mapped(N, d, e)
  <2>1. d.kind = "Prometheus" => d.kind # "ConfigMap" /\ ~HasPod(d)
    BY DEF HasPod, PodKinds
  <2>2. PICK none : none = {}
    OBVIOUS
  <2>. QED BY <1>2, <2>1, <2>2, InnerMapped
<1>4. (Override(d) = e /\ d.kind = "Prometheus") \/ Override(d) = d
  BY DEF Override, S, new
<1>5. HasPod(d) => d.kind # "Prometheus"
  BY DEF HasPod, PodKinds
<1> HIDE DEF e
<1>. QED BY <1>3, <1>4, <1>5, Itself

-----------------------------------------------------------------------------
(* The fixups one by one. *)

LEMMA DropCollectorPlain ==
  ASSUME NEW A, AreDocs(A)
  PROVE  Plain(A, DropCollector(A)) /\ JobsIn(DropCollector(A)) = JobsIn(A)
<1>1. DropCollector(A) \subseteq A /\ \A d \in A \ DropCollector(A) : d.kind = "Deployment"
  BY DEF DropCollector, IsA
<1>2. \A d \in DropCollector(A) : HasPod(d) => \E e \in A : Alike(Added(A), e, d)
  BY <1>1, Itself
<1>. QED BY <1>1, <1>2 DEF Plain, AreDocs, ConfigsIn, JobsIn, Unique

LEMMA HoldZacPlain ==
  ASSUME NEW A, AreDocs(A), NEW hold
  PROVE  Plain(A, HoldZac(A, hold)) /\ JobsIn(HoldZac(A, hold)) = JobsIn(A)
<1> DEFINE f == [d \in A |-> IF hold /\ IsA(d, "Deployment", "zac") THEN [d EXCEPT !.replicas = 0] ELSE d]
<1>1. HoldZac(A, hold) = {f[d] : d \in A}
  BY DEF HoldZac, Each
<1>2. ASSUME NEW d \in A PROVE Mapped(Added(A), d, f[d]) /\ (d.kind = "Job" => f[d] = d)
  <2>1. IsDoc(d)
    BY DEF AreDocs
  <2>2. ASSUME d.kind = "Deployment" PROVE Mapped(Added(A), d, [d EXCEPT !.replicas = 0])
    BY <2>1, <2>2, FieldChanges
  <2>. QED BY <2>1, <2>2, Itself DEF IsA
<1> HIDE DEF f
<1>3. Plain(A, {f[d] : d \in A}) /\ JobsIn({f[d] : d \in A}) = JobsIn(A)
  BY <1>2, MapOthers
<1>. QED BY <1>1, <1>3

LEMMA LinksPlain ==
  ASSUME NEW A, AreDocs(A)
  PROVE  Plain(A, DisableServiceLinks(A)) /\ JobsIn(DisableServiceLinks(A)) = JobsIn(A)
<1> DEFINE f == [d \in A |-> IF d.kind \in PodKinds THEN [d EXCEPT !.links = FALSE] ELSE d]
<1>1. DisableServiceLinks(A) = {f[d] : d \in A}
  BY DEF DisableServiceLinks, Each
<1>2. ASSUME NEW d \in A PROVE Mapped(Added(A), d, f[d]) /\ (d.kind = "Job" => f[d] = d)
  <2>1. IsDoc(d)
    BY DEF AreDocs
  <2>2. ASSUME d.kind \in PodKinds PROVE Mapped(Added(A), d, [d EXCEPT !.links = FALSE])
    BY <2>1, <2>2, FieldChanges DEF PodKinds
  <2>. QED BY <2>1, <2>2, Itself DEF PodKinds
<1> HIDE DEF f
<1>3. Plain(A, {f[d] : d \in A}) /\ JobsIn({f[d] : d \in A}) = JobsIn(A)
  BY <1>2, MapOthers
<1>. QED BY <1>1, <1>3

LEMMA UpdatesPlain ==
  ASSUME NEW A, AreDocs(A)
  PROVE  Plain(A, AllowRollingUpdates(A)) /\ JobsIn(AllowRollingUpdates(A)) = JobsIn(A)
<1> DEFINE f == [d \in A |-> IF d.kind = "Deployment" THEN [d EXCEPT !.alone = FALSE] ELSE d]
<1>1. AllowRollingUpdates(A) = {f[d] : d \in A}
  BY DEF AllowRollingUpdates, Each
<1>2. ASSUME NEW d \in A PROVE Mapped(Added(A), d, f[d]) /\ (d.kind = "Job" => f[d] = d)
  <2>1. IsDoc(d)
    BY DEF AreDocs
  <2>2. ASSUME d.kind = "Deployment" PROVE Mapped(Added(A), d, [d EXCEPT !.alone = FALSE])
    BY <2>1, <2>2, FieldChanges
  <2>. QED BY <2>1, <2>2, Itself
<1> HIDE DEF f
<1>3. Plain(A, {f[d] : d \in A}) /\ JobsIn({f[d] : d \in A}) = JobsIn(A)
  BY <1>2, MapOthers
<1>. QED BY <1>1, <1>3

LEMMA NginxPlain ==
  ASSUME NEW A, AreDocs(A)
  PROVE  Plain(A, RouteThroughNginx(A)) /\ JobsIn(RouteThroughNginx(A)) = JobsIn(A)
<1> DEFINE g(d) == (d.backends \ {"zac"}) \cup {"zac-nginx"}
           f == [d \in A |-> IF d.kind = "Ingress" /\ "zac" \in d.backends /\ Has(A, "Service", "zac-nginx")
                             THEN [d EXCEPT !.backends = g(d)] ELSE d]
<1>1. RouteThroughNginx(A) = {f[d] : d \in A}
  BY DEF RouteThroughNginx, Each
<1>2. ASSUME NEW d \in A PROVE Mapped(Added(A), d, f[d]) /\ (d.kind = "Job" => f[d] = d)
  <2>1. IsDoc(d)
    BY DEF AreDocs
  <2> HIDE DEF g
  <2>2. ASSUME d.kind = "Ingress" PROVE Mapped(Added(A), d, [d EXCEPT !.backends = g(d)])
    BY <2>1, <2>2, FieldChanges
  <2>. QED BY <2>1, <2>2, Itself
<1> HIDE DEF f
<1>3. Plain(A, {f[d] : d \in A}) /\ JobsIn({f[d] : d \in A}) = JobsIn(A)
  BY <1>2, MapOthers
<1>. QED BY <1>1, <1>3

\* The parts that Jobs go through.
Deduped(d) ==
  IF Runtime(d) THEN Inside(Override(d), All, LAMBDA c : [c EXCEPT !.env = LastOnly(@)]) ELSE d
Kcadm(d) == Inside(d, LAMBDA c : c.image = "keycloak", LAMBDA c : AddEnv(c, [KC_OPTS |-> "ours"]))

LEMMA DedupedMapped == ASSUME NEW d, NEW N, IsDoc(d) PROVE Mapped(N, d, Deduped(d))
<1> DEFINE e == Override(d)
<1>1. CASE Runtime(d)
  <2>1. Mapped(N, d, e) /\ d.kind # "ConfigMap"
    BY <1>1, Overridden DEF Runtime, HasPod, PodKinds
  <2>2. IsDoc(e) /\ e.kind # "ConfigMap"
    BY <2>1 DEF Mapped
  <2> HIDE DEF e
  <2> DEFINE g == [c \in e.containers |-> [c EXCEPT !.env = LastOnly(c.env)]]
  <2>3. Deduped(d) = [e EXCEPT !.containers = {g[c] : c \in e.containers}]
    BY <1>1 DEF Deduped, Inside, Each, All, e
  <2>4. ASSUME NEW c \in e.containers PROVE IsContainer(g[c]) /\ g[c].from = c.from
    <3> DEFINE env == LastOnly(c.env)
    <3>1. g[c] = [c EXCEPT !.env = env]
      OBVIOUS
    <3> HIDE DEF env, g
    <3>2. IsContainer([c EXCEPT !.env = env]) /\ [c EXCEPT !.env = env].from = c.from
      BY <2>2, ContainerChanges DEF IsDoc
    <3>. QED BY <3>1, <3>2
  <2> HIDE DEF g
  <2>5. PICK none : none = {}
    OBVIOUS
  <2>6. Mapped(N, e, [e EXCEPT !.containers = {g[c] : c \in e.containers}])
    BY <2>2, <2>4, <2>5, InsideMapped
  <2>. QED BY <2>1, <2>3, <2>6, MappedTrans
<1>2. CASE ~Runtime(d)
  BY <1>2, Itself DEF Deduped
<1>. QED BY <1>1, <1>2

LEMMA DedupPlain ==
  ASSUME NEW A, AreDocs(A)
  PROVE  Plain(A, DropDuplicateEnv(A)) /\ JobsIn(DropDuplicateEnv(A)) = {Deduped(d) : d \in JobsIn(A)}
<1> DEFINE f == [d \in A |-> Deduped(d)]
<1>1. DropDuplicateEnv(A) = {f[d] : d \in A}
  BY DEF DropDuplicateEnv, Each, Deduped
<1>2. ASSUME NEW d \in A PROVE Mapped(Added(A), d, f[d])
  BY DedupedMapped DEF AreDocs
<1>3. JobsIn(A) \subseteq A /\ \A d \in JobsIn(A) : f[d] = Deduped(d)
  BY DEF JobsIn
<1> HIDE DEF f
<1>4. Plain(A, {f[d] : d \in A})
  BY <1>2, MapPlain
<1>5. JobsIn({f[d] : d \in A}) = {f[d] : d \in JobsIn(A)}
  BY <1>2, MapJobs
<1>. QED BY <1>1, <1>3, <1>4, <1>5

LEMMA KeycloakPlain ==
  ASSUME NEW A, AreDocs(A)
  PROVE  Plain(A, TuneKeycloak(A)) /\ JobsIn(TuneKeycloak(A)) = JobsIn(A)
<1> DEFINE Env(c) == AddEnv(c, [JAVA_OPTS_APPEND |-> "ours"])
           Server(d, c) == [Env(c) EXCEPT !.memory = IF c.name = "keycloak" /\ d.resources # "none"
                                                     THEN d.resources = "limited" ELSE @]
           Operator(c) == AddEnv(c, [JDK_JAVA_OPTIONS |-> "ours"])
           f == [d \in A |-> IF d.kind = "Keycloak" THEN Inside(d, All, LAMBDA c : Server(d, c)) ELSE d]
           B == {f[d] : d \in A}
           h == [d \in B |-> IF IsA(d, "Deployment", "keycloak-operator") THEN Inside(d, All, Operator) ELSE d]
<1>1. TuneKeycloak(A) = {h[d] : d \in B}
  <2>1. B = Each(A, LAMBDA d : d.kind = "Keycloak", LAMBDA d : Inside(d, All, LAMBDA c : Server(d, c)))
    BY DEF Each
  <2> HIDE DEF B
  <2>2. {h[d] : d \in B}
          = Each(B, LAMBDA d : IsA(d, "Deployment", "keycloak-operator"), LAMBDA d : Inside(d, All, Operator))
    BY DEF Each
  <2>. QED BY <2>1, <2>2 DEF TuneKeycloak
<1>2. ASSUME NEW d \in A PROVE Mapped(Added(A), d, f[d]) /\ (d.kind = "Job" => f[d] = d)
  <2>1. IsDoc(d)
    BY DEF AreDocs
  <2> DEFINE g == [c \in d.containers |-> Server(d, c)]
  <2>2. ASSUME NEW c \in d.containers PROVE IsContainer(g[c]) /\ g[c].from = c.from
    <3> DEFINE e == Env(c)
               m == IF c.name = "keycloak" /\ d.resources # "none" THEN d.resources = "limited" ELSE e.memory
    <3>1. IsContainer(e) /\ e.from = c.from
      BY <2>1, EnvAdded DEF IsDoc
    <3>2. g[c] = [e EXCEPT !.memory = m]
      OBVIOUS
    <3> HIDE DEF e, m, g
    <3>3. IsContainer([e EXCEPT !.memory = m]) /\ [e EXCEPT !.memory = m].from = e.from
      BY <3>1, ContainerChanges
    <3>. QED BY <3>1, <3>2, <3>3
  <2>3. f[d] = IF d.kind = "Keycloak" THEN [d EXCEPT !.containers = {g[c] : c \in d.containers}] ELSE d
    BY DEF Inside, Each, All
  <2>4. PICK none : none = {}
    OBVIOUS
  <2> HIDE DEF g, f
  <2>5. d.kind = "Keycloak" => Mapped(Added(A), d, [d EXCEPT !.containers = {g[c] : c \in d.containers}])
    BY <2>1, <2>2, <2>4, InsideMapped
  <2>. QED BY <2>1, <2>3, <2>5, Itself
<1>3. Plain(A, B) /\ JobsIn(B) = JobsIn(A)
  <2> HIDE DEF f
  <2>. QED BY <1>2, MapOthers
<1> HIDE DEF B
<1>4. ASSUME NEW d \in B PROVE Mapped(Added(B), d, h[d]) /\ (d.kind = "Job" => h[d] = d)
  <2>1. IsDoc(d)
    BY <1>3 DEF AreDocs, Plain
  <2> DEFINE g == [c \in d.containers |-> Operator(c)]
  <2>2. ASSUME NEW c \in d.containers PROVE IsContainer(g[c]) /\ g[c].from = c.from
    BY <2>1, EnvAdded DEF IsDoc
  <2>3. h[d] = IF IsA(d, "Deployment", "keycloak-operator")
               THEN [d EXCEPT !.containers = {g[c] : c \in d.containers}] ELSE d
    BY DEF Inside, Each, All
  <2>4. PICK none : none = {}
    OBVIOUS
  <2> HIDE DEF g, h
  <2>5. d.kind = "Deployment" => Mapped(Added(B), d, [d EXCEPT !.containers = {g[c] : c \in d.containers}])
    BY <2>1, <2>2, <2>4, InsideMapped
  <2>. QED BY <2>1, <2>3, <2>5, Itself DEF IsA
<1> HIDE DEF h
<1>5. Plain(B, {h[d] : d \in B}) /\ JobsIn({h[d] : d \in B}) = JobsIn(B)
  BY <1>4, MapOthers
<1>. QED BY <1>1, <1>3, <1>5, PlainTrans

LEMMA KcadmPlain ==
  ASSUME NEW A, AreDocs(A)
  PROVE  Plain(A, TuneKcadm(A)) /\ JobsIn(TuneKcadm(A)) = {Kcadm(d) : d \in JobsIn(A)}
<1> DEFINE f == [d \in A |-> IF d.kind = "Job" THEN Kcadm(d) ELSE d]
<1>1. TuneKcadm(A) = {f[d] : d \in A}
  BY DEF TuneKcadm, Each, Kcadm
<1>2. JobsIn(A) \subseteq A /\ \A d \in JobsIn(A) : f[d] = Kcadm(d)
  BY DEF JobsIn
<1>3. ASSUME NEW d \in A PROVE Mapped(Added(A), d, f[d])
  <2>1. IsDoc(d)
    BY DEF AreDocs
  <2> DEFINE v == [KC_OPTS |-> "ours"]
             g == [c \in d.containers |-> IF c.image = "keycloak" THEN AddEnv(c, v) ELSE c]
  <2>2. ASSUME NEW c \in d.containers PROVE IsContainer(g[c]) /\ g[c].from = c.from
    BY <2>1, EnvAdded DEF IsDoc
  <2>3. f[d] = IF d.kind = "Job" THEN [d EXCEPT !.containers = {g[c] : c \in d.containers}] ELSE d
    BY DEF Kcadm, Inside, Each
  <2>4. PICK none : none = {}
    OBVIOUS
  <2> HIDE DEF g, f
  <2>5. d.kind = "Job" => Mapped(Added(A), d, [d EXCEPT !.containers = {g[c] : c \in d.containers}])
    BY <2>1, <2>2, <2>4, InsideMapped
  <2>. QED BY <2>1, <2>3, <2>5, Itself
<1> HIDE DEF f
<1>4. Plain(A, {f[d] : d \in A})
  BY <1>3, MapPlain
<1>5. JobsIn({f[d] : d \in A}) = {f[d] : d \in JobsIn(A)}
  BY <1>3, MapJobs
<1>. QED BY <1>1, <1>2, <1>4, <1>5

LEMMA SpeedPlain ==
  ASSUME NEW A, AreDocs(A)
  PROVE  Plain(A, SpeedUpKeycloakStart(A)) /\ JobsIn(SpeedUpKeycloakStart(A)) = JobsIn(A)
<1> DEFINE Eased(c) == [c EXCEPT !.probes = IF @ = "none" THEN @ ELSE "eased",
                                 !.cpu = IF c.name = "keycloak-builder" THEN 2 ELSE @]
           f == [d \in A |-> IF d.kind = "Keycloak" THEN Inside(d, All, Eased) ELSE d]
<1>1. SpeedUpKeycloakStart(A) = {f[d] : d \in A}
  BY DEF SpeedUpKeycloakStart, Each
<1>2. ASSUME NEW d \in A PROVE Mapped(Added(A), d, f[d]) /\ (d.kind = "Job" => f[d] = d)
  <2>1. IsDoc(d)
    BY DEF AreDocs
  <2> DEFINE g == [c \in d.containers |-> Eased(c)]
  <2>2. ASSUME NEW c \in d.containers PROVE IsContainer(g[c]) /\ g[c].from = c.from
    <3> DEFINE p == IF c.probes = "none" THEN c.probes ELSE "eased"
               u == IF c.name = "keycloak-builder" THEN 2 ELSE c.cpu
               e == [c EXCEPT !.probes = p]
    <3>1. IsContainer(c)
      BY <2>1 DEF IsDoc
    <3>2. g[c] = [e EXCEPT !.cpu = u]
      BY <3>1 DEF IsContainer
    <3> HIDE DEF p, u, g
    <3>3. IsContainer(e) /\ e.from = c.from
      BY <3>1, ContainerChanges
    <3> HIDE DEF e
    <3>4. IsContainer([e EXCEPT !.cpu = u]) /\ [e EXCEPT !.cpu = u].from = e.from
      BY <3>3, ContainerChanges
    <3>. QED BY <3>2, <3>3, <3>4
  <2>3. f[d] = IF d.kind = "Keycloak" THEN [d EXCEPT !.containers = {g[c] : c \in d.containers}] ELSE d
    BY DEF Inside, Each, All
  <2>4. PICK none : none = {}
    OBVIOUS
  <2> HIDE DEF g, f
  <2>5. d.kind = "Keycloak" => Mapped(Added(A), d, [d EXCEPT !.containers = {g[c] : c \in d.containers}])
    BY <2>1, <2>2, <2>4, InsideMapped
  <2>. QED BY <2>1, <2>3, <2>5, Itself
<1> HIDE DEF f
<1>3. Plain(A, {f[d] : d \in A}) /\ JobsIn({f[d] : d \in A}) = JobsIn(A)
  BY <1>2, MapOthers
<1>. QED BY <1>1, <1>3

Retrying(d) ==
  LET Retry(c) == [c EXCEPT !.command = Loop \o <<"retry">> \o CommandOf(c) \o c.args, !.args = <<>>]
  IN Inside(d, LAMBDA c : HasPod(d) /\ IsRetried(d, c) /\ ~Wraps(CommandOf(c)), Retry)

LEMMA RetryPlain ==
  ASSUME NEW A, AreDocs(A)
  PROVE  Plain(A, RetryInContainer(A)) /\ JobsIn(RetryInContainer(A)) = {Retrying(d) : d \in JobsIn(A)}
<1> DEFINE f == [d \in A |-> Retrying(d)]
<1>1. RetryInContainer(A) = {f[d] : d \in A}
  BY DEF RetryInContainer, Retrying
<1>2. JobsIn(A) \subseteq A /\ \A d \in JobsIn(A) : f[d] = Retrying(d)
  BY DEF JobsIn
<1>3. ASSUME NEW d \in A PROVE Mapped(Added(A), d, f[d])
  <2>1. IsDoc(d)
    BY DEF AreDocs
  <2> DEFINE Retry(c) == [c EXCEPT !.command = Loop \o <<"retry">> \o CommandOf(c) \o c.args, !.args = <<>>]
             Wrapped(c) == HasPod(d) /\ IsRetried(d, c) /\ ~Wraps(CommandOf(c))
             g == [c \in d.containers |-> IF Wrapped(c) THEN Retry(c) ELSE c]
  <2>2. ASSUME NEW c \in d.containers PROVE IsContainer(g[c]) /\ g[c].from = c.from
    <3> DEFINE m == Loop \o <<"retry">> \o CommandOf(c) \o c.args
               e == [c EXCEPT !.command = m]
    <3>1. IsContainer(c)
      BY <2>1 DEF IsDoc
    <3>2. g[c] = c \/ g[c] = [e EXCEPT !.args = <<>>]
      <4> HIDE DEF m, Wrapped
      <4>1. [c EXCEPT !.command = m, !.args = <<>>] = [e EXCEPT !.args = <<>>]
        BY <3>1 DEF IsContainer
      <4>. QED BY <4>1 DEF m
    <3> HIDE DEF m, g
    <3>3. IsContainer(e) /\ e.from = c.from
      BY <3>1, ContainerChanges
    <3> HIDE DEF e
    <3>4. IsContainer([e EXCEPT !.args = <<>>]) /\ [e EXCEPT !.args = <<>>].from = e.from
      BY <3>3, ContainerChanges
    <3>. QED BY <3>1, <3>2, <3>3, <3>4
  <2>3. f[d] = [d EXCEPT !.containers = {g[c] : c \in d.containers}]
    BY DEF Retrying, Inside, Each
  <2>4. PICK none : none = {}
    OBVIOUS
  <2>5. d.kind = "ConfigMap" => f[d] = d
    <3>1. d.kind = "ConfigMap" => d.containers = {}
      BY <2>1 DEF IsDoc
    <3>2. d.kind = "ConfigMap" => {g[c] : c \in d.containers} = d.containers
      BY <3>1
    <3> HIDE DEF g, f
    <3>3. [d EXCEPT !.containers = d.containers] = d
      BY <2>1 DEF IsDoc, IsRecord
    <3>. QED BY <2>3, <3>2, <3>3
  <2> HIDE DEF g, f
  <2>6. d.kind # "ConfigMap" => Mapped(Added(A), d, [d EXCEPT !.containers = {g[c] : c \in d.containers}])
    BY <2>1, <2>2, <2>4, InsideMapped
  <2>. QED BY <2>1, <2>3, <2>5, <2>6, Itself
<1> HIDE DEF f
<1>4. Plain(A, {f[d] : d \in A})
  BY <1>3, MapPlain
<1>5. JobsIn({f[d] : d \in A}) = {f[d] : d \in JobsIn(A)}
  BY <1>3, MapJobs
<1>. QED BY <1>1, <1>2, <1>4, <1>5

LEMMA SolrPlain ==
  ASSUME NEW A, AreDocs(A)
  PROVE  Plain(A, TuneSolr(A)) /\ JobsIn(TuneSolr(A)) = JobsIn(A)
<1> DEFINE Solr(c) == AddEnv(AddEnv(c, [GC_TUNE |-> "ours"]), Capacity)
           ZooKeeper(c) == AddEnv(AddEnv(c, [ZK_SERVER_HEAP |-> "ours"]), Capacity)
           I(d) == Inside(d, LAMBDA c : c.name = "solr", Solr)
           J(d) == Inside(d, LAMBDA c : c.name = "zookeeper", ZooKeeper)
           f == [d \in A |-> IF d.kind = "SolrCloud" THEN J(I(d)) ELSE d]
<1>1. TuneSolr(A) = {f[d] : d \in A}
  BY DEF TuneSolr, Each
<1>2. ASSUME NEW d, IsDoc(d), d.kind = "SolrCloud"
      PROVE  Mapped(Added(A), d, I(d)) /\ Mapped(Added(A), d, J(d))
  <2> DEFINE g == [c \in d.containers |-> IF c.name = "solr" THEN Solr(c) ELSE c]
             h == [c \in d.containers |-> IF c.name = "zookeeper" THEN ZooKeeper(c) ELSE c]
  <2>1. ASSUME NEW c \in d.containers
        PROVE  IsContainer(g[c]) /\ g[c].from = c.from /\ IsContainer(h[c]) /\ h[c].from = c.from
    <3>1. IsContainer(c)
      BY <1>2 DEF IsDoc
    <3>2. IsContainer(Solr(c)) /\ Solr(c).from = c.from
      <4>1. IsContainer(AddEnv(c, [GC_TUNE |-> "ours"])) /\ AddEnv(c, [GC_TUNE |-> "ours"]).from = c.from
        BY <3>1, EnvAdded
      <4>. QED BY <4>1, EnvAdded
    <3>3. IsContainer(ZooKeeper(c)) /\ ZooKeeper(c).from = c.from
      <4>1. IsContainer(AddEnv(c, [ZK_SERVER_HEAP |-> "ours"])) /\ AddEnv(c, [ZK_SERVER_HEAP |-> "ours"]).from = c.from
        BY <3>1, EnvAdded
      <4>. QED BY <4>1, EnvAdded
    <3> HIDE DEF Solr, ZooKeeper
    <3>. QED BY <3>1, <3>2, <3>3
  <2>2. I(d) = [d EXCEPT !.containers = {g[c] : c \in d.containers}]
    BY DEF Inside, Each
  <2>3. J(d) = [d EXCEPT !.containers = {h[c] : c \in d.containers}]
    BY DEF Inside, Each
  <2>4. PICK none : none = {}
    OBVIOUS
  <2> HIDE DEF g, h, I, J
  <2>5. Mapped(Added(A), d, [d EXCEPT !.containers = {g[c] : c \in d.containers}])
    BY <1>2, <2>1, <2>4, InsideMapped
  <2>6. Mapped(Added(A), d, [d EXCEPT !.containers = {h[c] : c \in d.containers}])
    BY <1>2, <2>1, <2>4, InsideMapped
  <2>. QED BY <2>2, <2>3, <2>5, <2>6
<1> HIDE DEF I, J
<1>3. ASSUME NEW d \in A PROVE Mapped(Added(A), d, f[d]) /\ (d.kind = "Job" => f[d] = d)
  <2>1. IsDoc(d)
    BY DEF AreDocs
  <2>2. ASSUME d.kind = "SolrCloud" PROVE Mapped(Added(A), d, J(I(d)))
    <3>1. Mapped(Added(A), d, I(d))
      BY <1>2, <2>1, <2>2
    <3>2. IsDoc(I(d)) /\ I(d).kind = "SolrCloud"
      BY <2>2, <3>1 DEF Mapped
    <3>3. Mapped(Added(A), I(d), J(I(d)))
      BY <1>2, <3>2
    <3>. QED BY <3>1, <3>3, MappedTrans
  <2>. QED BY <2>1, <2>2, Itself
<1> HIDE DEF f
<1>4. Plain(A, {f[d] : d \in A}) /\ JobsIn({f[d] : d \in A}) = JobsIn(A)
  BY <1>3, MapOthers
<1>. QED BY <1>1, <1>4

LEMMA SolrStartPlain ==
  ASSUME NEW A, AreDocs(A)
  PROVE  Plain(A, EaseSolrStart(A)) /\ JobsIn(EaseSolrStart(A)) = JobsIn(A)
<1> DEFINE I(d) == Inside(d, All, LAMBDA c : [c EXCEPT !.probes = "eased"])
           f == [d \in A |-> IF d.kind = "SolrCloud"
                             THEN [I(d) EXCEPT !.containers = @ \cup {LiveNodeWait}] ELSE d]
<1>1. EaseSolrStart(A) = {f[d] : d \in A}
  BY DEF EaseSolrStart, Each
<1>2. IsContainer(LiveNodeWait)
  <2>1. ASSUME NEW b, IsContainer(b), NEW n, NEW i, NEW m, NEW e, NEW c, NEW r
        PROVE  IsContainer([b EXCEPT !.name = n, !.init = i, !.image = m, !.env = e, !.command = c, !.memory = r])
    <3> DEFINE x1 == [b EXCEPT !.name = n]
               x2 == [x1 EXCEPT !.init = i]
               x3 == [x2 EXCEPT !.image = m]
               x4 == [x3 EXCEPT !.env = e]
               x5 == [x4 EXCEPT !.command = c]
               x6 == [x5 EXCEPT !.memory = r]
    <3>1. x6 = [b EXCEPT !.name = n, !.init = i, !.image = m, !.env = e, !.command = c, !.memory = r]
      BY <2>1 DEF IsContainer
    <3>2. IsContainer(x1)
      BY <2>1, ContainerChanges
    <3> HIDE DEF x1
    <3>3. IsContainer(x2)
      BY <3>2, ContainerChanges
    <3> HIDE DEF x2
    <3>4. IsContainer(x3)
      BY <3>3, ContainerChanges
    <3> HIDE DEF x3
    <3>5. IsContainer(x4)
      BY <3>4, ContainerChanges
    <3> HIDE DEF x4
    <3>6. IsContainer(x5)
      BY <3>5, ContainerChanges
    <3> HIDE DEF x5
    <3>7. IsContainer(x6)
      BY <3>6, ContainerChanges
    <3> HIDE DEF x6
    <3>. QED BY <3>1, <3>7
  <2>2. IsContainer(Container)
    BY DEF Container, IsContainer
  <2>. QED BY <2>1, <2>2 DEF LiveNodeWait
<1>3. ASSUME NEW d \in A PROVE Mapped(Added(A), d, f[d]) /\ (d.kind = "Job" => f[d] = d)
  <2>1. IsDoc(d)
    BY DEF AreDocs
  <2>2. ASSUME d.kind = "SolrCloud" PROVE Mapped(Added(A), d, f[d])
    <3> DEFINE g == [c \in d.containers |-> [c EXCEPT !.probes = "eased"]]
               S == {g[c] : c \in d.containers}
               T == S \cup {LiveNodeWait}
    <3>1. I(d) = [d EXCEPT !.containers = S]
      BY DEF Inside, Each, All
    <3>2. \A c \in d.containers : IsContainer(g[c])
      BY <2>1, ContainerChanges DEF IsDoc
    <3> HIDE DEF g
    <3>3. \A c \in T : IsContainer(c)
      BY <1>2, <3>2
    <3> HIDE DEF S
    <3>4. f[d] = [d EXCEPT !.containers = T]
      BY <2>1, <2>2, <3>1 DEF IsDoc, IsRecord
    <3>5. PICK none : none = {}
      OBVIOUS
    <3>6. d.kind # "ConfigMap" /\ ~HasPod(d)
      BY <2>2 DEF HasPod, PodKinds
    <3> HIDE DEF T, f
    <3>7. Mapped(Added(A), d, [d EXCEPT !.containers = T])
      BY <2>1, <3>3, <3>5, <3>6, InnerMapped
    <3>. QED BY <3>4, <3>7
  <2>. QED BY <2>1, <2>2, Itself
<1> HIDE DEF f
<1>4. Plain(A, {f[d] : d \in A}) /\ JobsIn({f[d] : d \in A}) = JobsIn(A)
  BY <1>3, MapOthers
<1>. QED BY <1>1, <1>4

LEMMA MountPlain ==
  ASSUME NEW A, AreDocs(A)
  PROVE  Plain(A, MountZaakbrugRoleMapping(A)) /\ JobsIn(MountZaakbrugRoleMapping(A)) = JobsIn(A)
<1> DEFINE V == {RoleMapping}
           Mounts(c) == [c EXCEPT !.mounts = @ \cup V]
           f == [d \in A |-> IF Has(A, "ConfigMap", RoleMapping) /\ IsA(d, "Deployment", "zaakbrug")
                             THEN [Inside(d, All, Mounts) EXCEPT !.volumes = @ \cup V] ELSE d]
<1>1. MountZaakbrugRoleMapping(A) = {f[d] : d \in A}
  BY DEF MountZaakbrugRoleMapping, Each
<1>2. Has(A, "ConfigMap", RoleMapping) => V \subseteq Added(A)
  BY DEF Has, IsA, Added, ConfigsIn
<1>3. ASSUME NEW d \in A PROVE Mapped(Added(A), d, f[d]) /\ (d.kind = "Job" => f[d] = d)
  <2>1. IsDoc(d)
    BY DEF AreDocs
  <2> DEFINE g == [c \in d.containers |-> [c EXCEPT !.mounts = c.mounts \cup V]]
  <2>2. ASSUME NEW c \in d.containers PROVE IsContainer(g[c]) /\ g[c].from = c.from
    <3> DEFINE m == c.mounts \cup V
    <3>1. g[c] = [c EXCEPT !.mounts = m]
      OBVIOUS
    <3> HIDE DEF m, g
    <3>2. IsContainer([c EXCEPT !.mounts = m]) /\ [c EXCEPT !.mounts = m].from = c.from
      BY <2>1, ContainerChanges DEF IsDoc
    <3>. QED BY <3>1, <3>2
  <2> DEFINE e == [d EXCEPT !.containers = {g[c] : c \in d.containers}]
  <2>3. f[d] = IF Has(A, "ConfigMap", RoleMapping) /\ IsA(d, "Deployment", "zaakbrug")
               THEN [e EXCEPT !.volumes = @ \cup V] ELSE d
    BY DEF Inside, Each, All
  <2> HIDE DEF g, f
  <2>4. Has(A, "ConfigMap", RoleMapping) /\ d.kind = "Deployment"
          => Mapped(Added(A), d, [e EXCEPT !.volumes = @ \cup V])
    <3> HIDE DEF V
    <3>. QED BY <1>2, <2>1, <2>2, InsideMapped
  <2> HIDE DEF e, V
  <2>. QED BY <2>1, <2>3, <2>4, Itself DEF IsA
<1> HIDE DEF f
<1>4. Plain(A, {f[d] : d \in A}) /\ JobsIn({f[d] : d \in A}) = JobsIn(A)
  BY <1>3, MapOthers
<1>. QED BY <1>1, <1>4

Limited(d) ==
  LET Limit(c) == LET tuned == AddEnv(c, Capacity)
                  IN IF c.memory THEN AddEnv(tuned, [GOMEMLIMIT |-> "limits.memory"]) ELSE tuned
  IN IF Runtime(d) THEN Inside(Override(d), All, Limit) ELSE d

LEMMA LimitPlain ==
  ASSUME NEW A, AreDocs(A)
  PROVE  Plain(A, LimitRuntimes(A)) /\ JobsIn(LimitRuntimes(A)) = {Limited(d) : d \in JobsIn(A)}
<1> DEFINE f == [d \in A |-> Limited(d)]
<1>1. LimitRuntimes(A) = {f[d] : d \in A}
  BY DEF LimitRuntimes, Limited, Each
<1>2. JobsIn(A) \subseteq A /\ \A d \in JobsIn(A) : f[d] = Limited(d)
  BY DEF JobsIn
<1>3. ASSUME NEW d \in A PROVE Mapped(Added(A), d, f[d])
  <2> DEFINE N == Added(A)
             e == Override(d)
             v == [GOMEMLIMIT |-> "limits.memory"]
             Limit(c) == LET tuned == AddEnv(c, Capacity) IN IF c.memory THEN AddEnv(tuned, v) ELSE tuned
  <2>1. IsDoc(d)
    BY DEF AreDocs
  <2>2. CASE Runtime(d)
    <3>1. Mapped(N, d, e) /\ d.kind # "ConfigMap"
      BY <2>1, <2>2, Overridden DEF Runtime, HasPod, PodKinds
    <3>2. IsDoc(e) /\ e.kind # "ConfigMap"
      BY <3>1 DEF Mapped
    <3> DEFINE g == [c \in e.containers |-> Limit(c)]
    <3>3. f[d] = [e EXCEPT !.containers = {g[c] : c \in e.containers}]
      BY <2>2 DEF Limited, Inside, Each, All
    <3>4. ASSUME NEW c \in e.containers PROVE IsContainer(g[c]) /\ g[c].from = c.from
      <4> DEFINE tuned == AddEnv(c, Capacity)
      <4>1. IsContainer(tuned) /\ tuned.from = c.from
        BY <3>2, EnvAdded DEF IsDoc
      <4>2. g[c] = tuned \/ g[c] = AddEnv(tuned, v)
        OBVIOUS
      <4> HIDE DEF tuned, g, v
      <4>3. IsContainer(AddEnv(tuned, v)) /\ AddEnv(tuned, v).from = tuned.from
        BY <4>1, EnvAdded
      <4>. QED BY <4>1, <4>2, <4>3
    <3> HIDE DEF g, e, f
    <3>5. PICK none : none = {}
      OBVIOUS
    <3>6. Mapped(N, e, [e EXCEPT !.containers = {g[c] : c \in e.containers}])
      BY <3>2, <3>4, <3>5, InsideMapped
    <3>. QED BY <3>1, <3>3, <3>6, MappedTrans
  <2>3. CASE ~Runtime(d)
    BY <2>1, <2>3, Itself DEF Limited
  <2>. QED BY <2>2, <2>3
<1> HIDE DEF f
<1>4. Plain(A, {f[d] : d \in A})
  BY <1>3, MapPlain
<1>5. JobsIn({f[d] : d \in A}) = {f[d] : d \in JobsIn(A)}
  BY <1>3, MapJobs
<1>. QED BY <1>1, <1>2, <1>4, <1>5

Trusting(d) ==
  LET Trust(c) == AddEnv([c EXCEPT !.mounts = @ \cup {"ca"}], [SSL_CERT_FILE |-> "ours"])
  IN [Inside(d, All, Trust) EXCEPT !.volumes = @ \cup {"ca"}]

LEMMA TrustPlain ==
  ASSUME NEW A, AreDocs(A)
  PROVE  Plain(A, TrustCa(A)) /\ JobsIn(TrustCa(A)) = {Trusting(d) : d \in JobsIn(A)}
<1> DEFINE f == [d \in A |-> IF HasPod(d) THEN Trusting(d) ELSE d]
<1>1. TrustCa(A) = {f[d] : d \in A}
  BY DEF TrustCa, Trusting, Each
<1>2. JobsIn(A) \subseteq A /\ \A d \in JobsIn(A) : f[d] = Trusting(d)
  BY DEF JobsIn, HasPod
<1>3. ASSUME NEW d \in A PROVE Mapped(Added(A), d, f[d])
  <2> DEFINE V == {"ca"}
             v == [SSL_CERT_FILE |-> "ours"]
             g == [c \in d.containers |-> AddEnv([c EXCEPT !.mounts = @ \cup V], v)]
             e == [d EXCEPT !.containers = {g[c] : c \in d.containers}]
  <2>1. IsDoc(d) /\ V \subseteq Added(A)
    BY DEF AreDocs, Added
  <2>2. ASSUME NEW c \in d.containers PROVE IsContainer(g[c]) /\ g[c].from = c.from
    <3> DEFINE m == c.mounts \cup V
               x == [c EXCEPT !.mounts = m]
    <3>1. g[c] = AddEnv(x, v)
      OBVIOUS
    <3> HIDE DEF m, g, v
    <3>2. IsContainer(x) /\ x.from = c.from
      BY <2>1, ContainerChanges DEF IsDoc
    <3> HIDE DEF x
    <3>3. IsContainer(AddEnv(x, v)) /\ AddEnv(x, v).from = x.from
      BY <3>2, EnvAdded
    <3>. QED BY <3>1, <3>2, <3>3
  <2>3. f[d] = IF HasPod(d) THEN [e EXCEPT !.volumes = @ \cup V] ELSE d
    BY DEF Trusting, Inside, Each, All
  <2> HIDE DEF g, f, V
  <2>4. HasPod(d) => d.kind # "ConfigMap"
    BY DEF HasPod, PodKinds
  <2>5. HasPod(d) => Mapped(Added(A), d, [e EXCEPT !.volumes = @ \cup V])
    BY <2>1, <2>2, <2>4, InsideMapped
  <2> HIDE DEF e
  <2>. QED BY <2>1, <2>3, <2>5, Itself
<1> HIDE DEF f
<1>4. Plain(A, {f[d] : d \in A})
  BY <1>3, MapPlain
<1>5. JobsIn({f[d] : d \in A}) = {f[d] : d \in JobsIn(A)}
  BY <1>3, MapJobs
<1>. QED BY <1>1, <1>2, <1>4, <1>5

LEMMA PostgresPlain ==
  ASSUME NEW A, AreDocs(A)
  PROVE  Plain(A, ServePostgresTls(A)) /\ JobsIn(ServePostgresTls(A)) = JobsIn(A)
<1> DEFINE V == {"postgres-tls"}
           Tls(c) == [c EXCEPT !.mounts = @ \cup V,
                               !.command = <<"sh", "-c", "install tls; exec $@", "--">>,
                               !.args = @ \o <<"ssl=on">>]
           Postgres(d) == IsA(d, "Deployment", "postgres")
           f == [d \in A |-> IF Postgres(d) THEN [Inside(d, IsFirst, Tls) EXCEPT !.volumes = @ \cup V] ELSE d]
           new == [Doc EXCEPT !.kind = "Certificate", !.name = "postgres-tls"]
           B == {f[d] : d \in A}
<1>1. ServePostgresTls(A) = B \cup IF \E d \in A : Postgres(d) THEN {new} ELSE {}
  BY DEF ServePostgresTls, Each
<1>2. IsDoc(new) /\ new.kind = "Certificate"
  <2> DEFINE x == [Doc EXCEPT !.kind = "Certificate"]
  <2>1. IsRecord(Doc) /\ Doc.containers = {}
    BY DEF Doc, IsRecord
  <2>2. new = [x EXCEPT !.name = "postgres-tls"]
    BY <2>1 DEF IsRecord
  <2>3. IsRecord(x) /\ x.containers = {} /\ x.kind = "Certificate"
    BY <2>1 DEF IsRecord
  <2> HIDE DEF x, new
  <2>4. IsRecord(new) /\ new.containers = {} /\ new.kind = "Certificate"
    BY <2>2, <2>3 DEF IsRecord
  <2>. QED BY <2>4 DEF IsDoc
<1>3. ASSUME NEW d \in A PROVE Mapped(Added(A), d, f[d]) /\ (d.kind = "Job" => f[d] = d)
  <2> DEFINE g == [c \in d.containers |-> IF c.first THEN Tls(c) ELSE c]
             e == [d EXCEPT !.containers = {g[c] : c \in d.containers}]
  <2>1. IsDoc(d) /\ V \subseteq Added(A)
    BY DEF AreDocs, Added
  <2>2. ASSUME NEW c \in d.containers PROVE IsContainer(g[c]) /\ g[c].from = c.from
    <3> DEFINE m == c.mounts \cup V
               o == <<"sh", "-c", "install tls; exec $@", "--">>
               a == c.args \o <<"ssl=on">>
               x == [c EXCEPT !.mounts = m]
               y == [x EXCEPT !.command = o]
               z == [y EXCEPT !.args = a]
    <3>1. IsContainer(c)
      BY <2>1 DEF IsDoc
    <3>2. g[c] = c \/ g[c] = z
      <4>1. g[c] = c \/ g[c] = [c EXCEPT !.mounts = m, !.command = o, !.args = a]
        OBVIOUS
      <4> HIDE DEF m, o, a, g
      <4>. QED BY <3>1, <4>1 DEF IsContainer
    <3> HIDE DEF m, o, a, g
    <3>3. IsContainer(x) /\ x.from = c.from
      BY <3>1, ContainerChanges
    <3> HIDE DEF x
    <3>4. IsContainer(y) /\ y.from = x.from
      BY <3>3, ContainerChanges
    <3> HIDE DEF y
    <3>5. IsContainer(z) /\ z.from = y.from
      BY <3>4, ContainerChanges
    <3>. QED BY <3>1, <3>2, <3>3, <3>4, <3>5
  <2>3. f[d] = IF Postgres(d) THEN [e EXCEPT !.volumes = @ \cup V] ELSE d
    BY DEF Inside, Each, IsFirst
  <2> HIDE DEF g, f, V
  <2>4. d.kind = "Deployment" => Mapped(Added(A), d, [e EXCEPT !.volumes = @ \cup V])
    BY <2>1, <2>2, InsideMapped
  <2> HIDE DEF e
  <2>. QED BY <2>1, <2>3, <2>4, Itself DEF IsA
<1>4. Plain(A, B) /\ JobsIn(B) = JobsIn(A)
  <2> HIDE DEF f
  <2>. QED BY <1>3, MapOthers
<1> HIDE DEF B, new, Postgres
<1>5. PICK X : X = IF \E d \in A : Postgres(d) THEN {new} ELSE {}
  OBVIOUS
<1>6. \A d \in X : IsDoc(d) /\ d.kind # "ConfigMap" /\ d.kind # "Job" /\ ~HasPod(d)
  BY <1>2, <1>5 DEF HasPod, PodKinds
<1>7. Plain(A, B \cup X)
  BY <1>4, <1>6 DEF Plain, AreDocs, ConfigsIn, Unique
<1>8. JobsIn(B \cup X) = JobsIn(A)
  BY <1>4, <1>6 DEF JobsIn
<1>. QED BY <1>1, <1>5, <1>7, <1>8

(* The fixups that change ConfigMaps. *)

Swapped(c, old, new) == IF old \in c.data THEN [c EXCEPT !.data = (@ \ {old}) \cup {new}] ELSE c

SwapIn(data, old, new) == IF old \in data THEN (data \ {old}) \cup {new} ELSE data

LEMMA SwappedDoc ==
  ASSUME NEW c, NEW old, NEW new, IsDoc(c), c.kind = "ConfigMap"
  PROVE  /\ IsDoc(Swapped(c, old, new)) /\ Swapped(c, old, new).kind = "ConfigMap"
         /\ Swapped(c, old, new).name = c.name /\ Swapped(c, old, new).hook = c.hook
         /\ Swapped(c, old, new).data = SwapIn(c.data, old, new)
<1> DEFINE v == (c.data \ {old}) \cup {new}
           e == [c EXCEPT !.data = v]
<1>1. Swapped(c, old, new) = IF old \in c.data THEN e ELSE c
  BY DEF Swapped
<1> HIDE DEF v
<1>2. IsRecord(e) /\ e.kind = c.kind /\ e.name = c.name /\ e.hook = c.hook /\ e.data = v /\ e.containers = c.containers
  BY DEF IsDoc, IsRecord
<1>3. IsDoc(e)
  <2> HIDE DEF e
  <2>. QED BY <1>2 DEF IsDoc
<1> HIDE DEF e
<1>. QED BY <1>1, <1>2, <1>3 DEF v, SwapIn

\* What RollReaders makes of a set whose ConfigMaps' values are replaced.
Rolled(A, B, old, new, note) ==
  /\ AreDocs(B)
  /\ ConfigsIn(B) = {Swapped(c, old, new) : c \in ConfigsIn(A)}
  /\ JobsIn(B) = JobsIn(A)
  /\ Unique(A) => Unique(B)
  /\ \A d \in B : HasPod(d) => \E e \in A :
       /\ Named(e, d) /\ ConfigMapsUsed(d) = ConfigMapsUsed(e)
       /\ e.notes \subseteq d.notes /\ d.notes \subseteq e.notes \cup {note}
       /\ Workload(e) /\ ConfigMapsUsed(e) \cap NamesWith(A, old) # {} => note \in d.notes

LEMMA Noted ==
  ASSUME NEW d, NEW v, IsDoc(d), d.kind # "ConfigMap"
  PROVE  LET e == [d EXCEPT !.notes = v]
         IN  IsDoc(e) /\ Named(d, e) /\ e.notes = v /\ ConfigMapsUsed(e) = ConfigMapsUsed(d)
<1> DEFINE e == [d EXCEPT !.notes = v]
<1>1. /\ IsRecord(e) /\ Named(d, e) /\ e.notes = v /\ e.containers = d.containers /\ e.volumes = d.volumes
      /\ e.kind = d.kind
  BY DEF IsDoc, IsRecord, Named
<1> HIDE DEF e
<1>2. IsDoc(e) /\ Named(d, e) /\ e.notes = v /\ ConfigMapsUsed(e) = ConfigMapsUsed(d)
  BY <1>1 DEF IsDoc, ConfigMapsUsed
<1>. QED BY <1>2 DEF e

LEMMA Rolls ==
  ASSUME NEW A, AreDocs(A), NEW old, NEW new, NEW note
  PROVE  Rolled(A, RollReaders(Replaced(A, old, new), NamesWith(A, old), note), old, new, note)
<1> DEFINE f == [d \in A |-> IF d \in WithValue(A, old) THEN [d EXCEPT !.data = (@ \ {old}) \cup {new}] ELSE d]
           R == {f[d] : d \in A}
           Reader(d) == d.kind \in PodKinds /\ ConfigMapsUsed(d) \cap NamesWith(A, old) # {}
           h(d) == IF Reader(d) THEN [d EXCEPT !.notes = @ \cup {note}] ELSE d
           B == {h(d) : d \in R}
<1>1. RollReaders(Replaced(A, old, new), NamesWith(A, old), note) = B
  <2>1. R = Replaced(A, old, new)
    BY DEF Replaced, Each
  <2> HIDE DEF R
  <2>2. B = RollReaders(R, NamesWith(A, old), note)
    BY DEF RollReaders, Each
  <2>. QED BY <2>1, <2>2
<1>2. ASSUME NEW d \in A
      PROVE  /\ IsDoc(f[d]) /\ f[d].kind = d.kind
             /\ d.kind = "ConfigMap" => f[d] = Swapped(d, old, new)
             /\ d.kind # "ConfigMap" => f[d] = d
  <2>1. IsDoc(d)
    BY DEF AreDocs
  <2>2. d.kind = "ConfigMap" => f[d] = Swapped(d, old, new)
    BY DEF WithValue, Swapped
  <2>3. d.kind # "ConfigMap" => f[d] = d
    BY DEF WithValue
  <2> HIDE DEF f
  <2>4. d.kind = "ConfigMap" => IsDoc(Swapped(d, old, new)) /\ Swapped(d, old, new).kind = "ConfigMap"
    BY <2>1, SwappedDoc
  <2>. QED BY <2>1, <2>2, <2>3, <2>4
<1> HIDE DEF f
<1>3. ASSUME NEW d \in R
      PROVE  /\ IsDoc(h(d)) /\ h(d).kind = d.kind
             /\ d.kind \notin PodKinds => h(d) = d
             /\ HasPod(d) => /\ Named(d, h(d)) /\ ConfigMapsUsed(h(d)) = ConfigMapsUsed(d)
                             /\ h(d).notes = d.notes \cup (IF Reader(d) THEN {note} ELSE {})
  <2>1. IsDoc(d)
    BY <1>2
  <2>2. CASE Reader(d)
    <3> DEFINE v == d.notes \cup {note}
    <3>1. h(d) = [d EXCEPT !.notes = v]
      BY <2>2
    <3>2. d.kind # "ConfigMap"
      BY <2>2 DEF PodKinds
    <3> HIDE DEF v, h
    <3>3. /\ IsDoc([d EXCEPT !.notes = v]) /\ Named(d, [d EXCEPT !.notes = v])
          /\ [d EXCEPT !.notes = v].notes = v /\ ConfigMapsUsed([d EXCEPT !.notes = v]) = ConfigMapsUsed(d)
      BY <2>1, <3>2, Noted
    <3>4. IsDoc(h(d)) /\ Named(d, h(d)) /\ h(d).notes = v /\ ConfigMapsUsed(h(d)) = ConfigMapsUsed(d)
      BY <3>1, <3>3
    <3>. QED BY <2>2, <3>4 DEF Named, v
  <2>3. CASE ~Reader(d)
    <3>1. h(d) = d
      BY <2>3
    <3> HIDE DEF h
    <3>. QED BY <2>1, <2>3, <3>1 DEF Named
  <2>. QED BY <2>2, <2>3
<1>4. AreDocs(B)
  <2> HIDE DEF h
  <2>. QED BY <1>3 DEF AreDocs
<1>5. ConfigsIn(B) = {Swapped(c, old, new) : c \in ConfigsIn(A)}
  <2> HIDE DEF h, R
  <2>1. ConfigsIn(B) = ConfigsIn(R)
    BY <1>3 DEF ConfigsIn, PodKinds
  <2>2. ConfigsIn(R) = {Swapped(c, old, new) : c \in ConfigsIn(A)}
    BY <1>2 DEF ConfigsIn, R
  <2>. QED BY <2>1, <2>2
<1>6. JobsIn(B) = JobsIn(A)
  <2> HIDE DEF h, R
  <2>1. JobsIn(B) = JobsIn(R)
    BY <1>3 DEF JobsIn, PodKinds
  <2>2. JobsIn(R) = JobsIn(A)
    BY <1>2 DEF JobsIn, R
  <2>. QED BY <2>1, <2>2
<1>7. ASSUME NEW d \in B, HasPod(d)
      PROVE  \E e \in A :
               /\ Named(e, d) /\ ConfigMapsUsed(d) = ConfigMapsUsed(e)
               /\ e.notes \subseteq d.notes /\ d.notes \subseteq e.notes \cup {note}
               /\ Workload(e) /\ ConfigMapsUsed(e) \cap NamesWith(A, old) # {} => note \in d.notes
  <2>1. PICK e \in R : d = h(e)
    BY <1>7
  <2> HIDE DEF h
  <2>2. e.kind = d.kind
    BY <1>3, <2>1
  <2>3. HasPod(e) /\ e.kind # "ConfigMap"
    BY <1>7, <2>2 DEF HasPod, PodKinds
  <2>4. e \in A
    BY <1>2, <2>3
  <2>5. Named(e, d) /\ ConfigMapsUsed(d) = ConfigMapsUsed(e) /\ d.notes = e.notes \cup (IF Reader(e) THEN {note} ELSE {})
    BY <1>3, <2>1, <2>3
  <2>. QED BY <2>4, <2>5 DEF Workload
<1>8. Unique(A) => Unique(B)
  <2>1. \A d \in R : HasPod(d) => d \in A
    BY <1>2 DEF HasPod, PodKinds
  <2> HIDE DEF h, R
  <2>2. \A d \in R : HasPod(h(d)) => HasPod(d) /\ Key(d) = Key(h(d))
    BY <1>3 DEF Named, HasPod, Key
  <2>. QED BY <2>1, <2>2 DEF Unique
<1> HIDE DEF B
<1>. QED BY <1>1, <1>4, <1>5, <1>6, <1>7, <1>8 DEF Rolled

Merged(m, c) ==
  IF m /\ c.name = "objecten-configuration"
  THEN [c EXCEPT !.data = (@ \ {"service_identifier"}) \cup {"superuser token"}] ELSE c

LEMMA MergedDoc ==
  ASSUME NEW c, NEW m, IsDoc(c), c.kind = "ConfigMap"
  PROVE  /\ IsDoc(Merged(m, c)) /\ Merged(m, c).kind = "ConfigMap" /\ Merged(m, c).name = c.name /\ Merged(m, c).hook = c.hook
         /\ Merged(m, c).data = IF m /\ c.name = "objecten-configuration"
                                THEN (c.data \ {"service_identifier"}) \cup {"superuser token"} ELSE c.data
<1> DEFINE v == (c.data \ {"service_identifier"}) \cup {"superuser token"}
           e == [c EXCEPT !.data = v]
<1>1. Merged(m, c) = IF m /\ c.name = "objecten-configuration" THEN e ELSE c
  BY DEF Merged
<1> HIDE DEF v
<1>2. IsRecord(e) /\ e.kind = c.kind /\ e.name = c.name /\ e.hook = c.hook /\ e.data = v /\ e.containers = c.containers
  BY DEF IsDoc, IsRecord
<1>3. IsDoc(e)
  <2> HIDE DEF e
  <2>. QED BY <1>2 DEF IsDoc
<1> HIDE DEF e
<1>. QED BY <1>1, <1>2, <1>3 DEF v

LEMMA Merges ==
  ASSUME NEW A, NEW m, AreDocs(A)
  PROVE  /\ AreDocs(MergeObjecten(A, m))
         /\ ConfigsIn(MergeObjecten(A, m)) = {Merged(m, c) : c \in ConfigsIn(A)}
         /\ JobsIn(MergeObjecten(A, m)) = JobsIn(A)
         /\ \A d \in MergeObjecten(A, m) : HasPod(d) => d \in A
<1> DEFINE f == [d \in A |-> IF m /\ IsA(d, "ConfigMap", "objecten-configuration") THEN Merged(m, d) ELSE d]
           B == {f[d] : d \in A}
<1>1. MergeObjecten(A, m) = B
  BY DEF MergeObjecten, Each, Merged, IsA
<1>2. ASSUME NEW d \in A
      PROVE  /\ IsDoc(f[d]) /\ f[d].kind = d.kind
             /\ d.kind = "ConfigMap" => f[d] = Merged(m, d)
             /\ d.kind # "ConfigMap" => f[d] = d
  BY MergedDoc DEF IsA, AreDocs, Merged
<1> HIDE DEF f
<1>3. AreDocs(B)
  BY <1>2 DEF AreDocs
<1>4. ConfigsIn(B) = {Merged(m, c) : c \in ConfigsIn(A)}
  BY <1>2 DEF ConfigsIn
<1>5. JobsIn(B) = JobsIn(A)
  BY <1>2 DEF JobsIn
<1>6. \A d \in B : HasPod(d) => d \in A
  BY <1>2 DEF HasPod, PodKinds
<1> HIDE DEF B
<1>. QED BY <1>1, <1>3, <1>4, <1>5, <1>6

Loaded(d) ==
  [Inside(d, All, LAMBDA c : [c EXCEPT !.digest = "none"])
     EXCEPT !.notes = @ \cup IF d.kind \in {"Job", "Pod"} THEN {} ELSE Digests(d)]

LEMMA LoadedDoc ==
  ASSUME NEW d, IsDoc(d)
  PROVE  /\ IsDoc(Loaded(d)) /\ Named(d, Loaded(d)) /\ ConfigMapsUsed(Loaded(d)) = ConfigMapsUsed(d)
         /\ d.notes \subseteq Loaded(d).notes
         /\ \A n \in Loaded(d).notes : n \in d.notes \/ n[1] = "digests"
         /\ d.kind = "ConfigMap" => Loaded(d) = d
<1> DEFINE g == [c \in d.containers |-> [c EXCEPT !.digest = "none"]]
           S == {g[c] : c \in d.containers}
           e == [d EXCEPT !.containers = S]
           X == IF d.kind \in {"Job", "Pod"} THEN {} ELSE Digests(d)
           v == d.notes \cup X
           x == [e EXCEPT !.notes = v]
<1>1. /\ \A c \in d.containers : IsContainer(g[c]) /\ g[c].from = c.from
      /\ d.kind = "ConfigMap" => d.containers = {}
  BY ContainerChanges DEF IsDoc
<1>2. IsRecord(e) /\ Named(d, e) /\ e.containers = S /\ e.notes = d.notes /\ e.volumes = d.volumes
  <2>1. e = [d EXCEPT !.containers = S]
    OBVIOUS
  <2> HIDE DEF S, e
  <2>. QED BY <2>1, Inner
<1>3. Loaded(d) = x
  <2>1. Inside(d, All, LAMBDA c : [c EXCEPT !.digest = "none"]) = e
    BY DEF Inside, Each, All
  <2> HIDE DEF e
  <2>. QED BY <1>2, <2>1 DEF Loaded
<1>4. \A n \in X : n[1] = "digests"
  BY DEF Digests
<1>5. d.kind = "ConfigMap" => X = {} /\ S = {}
  <2> HIDE DEF g
  <2>. QED BY <1>1 DEF Digests
<1>6. \A c \in S : IsContainer(c)
  <2> HIDE DEF g
  <2>. QED BY <1>1
<1>7. ConfigMapsUsed(e) = ConfigMapsUsed(d)
  <2> HIDE DEF g, e
  <2>. QED BY <1>1, <1>2 DEF ConfigMapsUsed
<1> HIDE DEF g, S, X
<1>8. d.kind = "ConfigMap" => e = d /\ x = d
  <2>1. d.kind = "ConfigMap" => e = d
    BY <1>1, <1>5 DEF IsDoc, IsRecord
  <2>2. d.kind = "ConfigMap" => v = d.notes
    BY <1>5
  <2> HIDE DEF e, v
  <2>3. [d EXCEPT !.notes = d.notes] = d
    BY DEF IsDoc, IsRecord
  <2>. QED BY <2>1, <2>2, <2>3
<1>9. x.notes = v /\ d.notes \subseteq v /\ \A n \in v : n \in d.notes \/ n[1] = "digests"
  <2>1. x.notes = v
    <3> HIDE DEF e, v
    <3>. QED BY <1>2 DEF IsRecord
  <2>. QED BY <1>4, <2>1
<1> HIDE DEF v
<1>10. IsDoc(x) /\ Named(d, x) /\ ConfigMapsUsed(x) = ConfigMapsUsed(d)
  <2>1. IsRecord(x) /\ x.containers = e.containers /\ x.volumes = e.volumes /\ Named(e, x)
    <3> HIDE DEF e
    <3>. QED BY <1>2 DEF IsRecord, Named
  <2> HIDE DEF e, x
  <2>2. ConfigMapsUsed(x) = ConfigMapsUsed(e)
    BY <2>1 DEF ConfigMapsUsed
  <2>3. d.kind = "ConfigMap" => x.containers = {}
    BY <1>2, <1>5, <2>1
  <2>. QED BY <1>2, <1>6, <1>7, <2>1, <2>2, <2>3 DEF IsDoc, Named
<1> HIDE DEF e, x
<1>. QED BY <1>3, <1>8, <1>9, <1>10

LEMMA Loads ==
  ASSUME NEW A, AreDocs(A)
  PROVE  /\ Load(A) = {Loaded(d) : d \in A} /\ AreDocs(Load(A))
         /\ ConfigsIn(Load(A)) = ConfigsIn(A)
         /\ JobsIn(Load(A)) = {Loaded(d) : d \in JobsIn(A)}
         /\ Unique(A) => Unique(Load(A))
<1>1. Load(A) = {Loaded(d) : d \in A}
  BY DEF Load, Loaded
<1>2. \A d \in A : IsDoc(Loaded(d)) /\ Loaded(d).kind = d.kind /\ (d.kind = "ConfigMap" => Loaded(d) = d)
  BY LoadedDoc DEF AreDocs, Named
<1>3. \A d \in A : HasPod(Loaded(d)) => HasPod(d) /\ Key(d) = Key(Loaded(d))
  BY LoadedDoc DEF AreDocs, Named, HasPod, Key
<1>. QED BY <1>1, <1>2, <1>3 DEF AreDocs, ConfigsIn, JobsIn, Unique

-----------------------------------------------------------------------------
(* All fixups. *)

JobFixed(d) == Trusting(Limited(Retrying(Kcadm(Deduped(d)))))
ConfigFixed(T, m, c) == Merged(m, Swapped(Swapped(c, "api-proxy", T), "workers auto", "workers 1"))

\* T is where the charts' URL of the outbound proxy points after the fixups.
Outcome(T, m, A, B) ==
  /\ AreDocs(B) /\ (Unique(A) => Unique(B))
  /\ ConfigsIn(B) = {ConfigFixed(T, m, c) : c \in ConfigsIn(A)}
  /\ \A d \in B : HasPod(d) => \E e \in A :
       /\ Named(e, d) /\ Reads(Added(A), e, d)
       /\ e.notes \subseteq d.notes /\ d.notes \subseteq e.notes \cup {<<"outbound", T>>, <<"nginx-workers", "1">>}
       /\ Workload(e) /\ ConfigMapsUsed(e) \cap NamesWith(A, "api-proxy") # {} => <<"outbound", T>> \in d.notes

LEMMA Rendering ==
  ASSUME NEW A, AreDocs(A), NEW hold, NEW m
  PROVE  /\ \E T : Outcome(T, m, A, PostRender(A, hold, m))
         /\ JobsIn(PostRender(A, hold, m)) = {JobFixed(d) : d \in JobsIn(A)}
<1> DEFINE A1 == DropCollector(A)
           A2 == HoldZac(A1, hold)
           A3 == DisableServiceLinks(A2)
           A4 == AllowRollingUpdates(A3)
           A5 == DropDuplicateEnv(A4)
           T  == Target(A5)
           B  == RouteOutbound(A5)
           C  == LimitNginxWorkers(B)
           C1 == RouteThroughNginx(C)
           C2 == TuneKeycloak(C1)
           C3 == TuneKcadm(C2)
           C4 == SpeedUpKeycloakStart(C3)
           C5 == RetryInContainer(C4)
           C6 == TuneSolr(C5)
           C7 == EaseSolrStart(C6)
           C8 == MountZaakbrugRoleMapping(C7)
           C9 == LimitRuntimes(C8)
           C10 == TrustCa(C9)
           C11 == ServePostgresTls(C10)
           D  == MergeObjecten(C11, m)
           note == <<"outbound", T>>
           nginx == <<"nginx-workers", "1">>
<1>1. PostRender(A, hold, m) = D
  BY DEF PostRender
<1>2. AreDocs(A5) /\ Plain(A, A5) /\ JobsIn(A5) = {Deduped(d) : d \in JobsIn(A)}
  <2> HIDE DEF A1, A2, A3, A4, A5
  <2>1. Plain(A, A1) /\ JobsIn(A1) = JobsIn(A)
    BY DropCollectorPlain DEF A1
  <2>2. Plain(A1, A2) /\ JobsIn(A2) = JobsIn(A1)
    BY <2>1, HoldZacPlain DEF A2, Plain
  <2>3. Plain(A2, A3) /\ JobsIn(A3) = JobsIn(A2)
    BY <2>2, LinksPlain DEF A3, Plain
  <2>4. Plain(A3, A4) /\ JobsIn(A4) = JobsIn(A3)
    BY <2>3, UpdatesPlain DEF A4, Plain
  <2>5. Plain(A4, A5) /\ JobsIn(A5) = {Deduped(d) : d \in JobsIn(A4)}
    BY <2>4, DedupPlain DEF A5, Plain
  <2>6. Plain(A, A3)
    BY <2>1, <2>2, <2>3, PlainTrans
  <2>7. Plain(A, A5)
    BY <2>4, <2>5, <2>6, PlainTrans
  <2>. QED BY <2>1, <2>2, <2>3, <2>4, <2>5, <2>7 DEF Plain
<1> HIDE DEF A5
<1>3. Rolled(A5, B, "api-proxy", T, note)
  BY <1>2, Rolls DEF RouteOutbound
<1> HIDE DEF T, B
<1>4. Rolled(B, C, "workers auto", "workers 1", nginx)
  <2>1. AreDocs(B)
    BY <1>3 DEF Rolled
  <2>. QED BY <2>1, Rolls DEF LimitNginxWorkers
<1> HIDE DEF C
<1>5. /\ AreDocs(C11) /\ Plain(C, C11)
      /\ JobsIn(C11) = {Trusting(Limited(Retrying(Kcadm(d)))) : d \in JobsIn(C)}
  <2> HIDE DEF C1, C2, C3, C4, C5, C6, C7, C8, C9, C10, C11
  <2>0. AreDocs(C)
    BY <1>4 DEF Rolled
  <2>1. Plain(C, C1) /\ JobsIn(C1) = JobsIn(C)
    BY <2>0, NginxPlain DEF C1
  <2>2. Plain(C1, C2) /\ JobsIn(C2) = JobsIn(C1)
    BY <2>1, KeycloakPlain DEF C2, Plain
  <2>3. Plain(C2, C3) /\ JobsIn(C3) = {Kcadm(d) : d \in JobsIn(C2)}
    BY <2>2, KcadmPlain DEF C3, Plain
  <2>4. Plain(C3, C4) /\ JobsIn(C4) = JobsIn(C3)
    BY <2>3, SpeedPlain DEF C4, Plain
  <2>5. Plain(C4, C5) /\ JobsIn(C5) = {Retrying(d) : d \in JobsIn(C4)}
    BY <2>4, RetryPlain DEF C5, Plain
  <2>6. Plain(C5, C6) /\ JobsIn(C6) = JobsIn(C5)
    BY <2>5, SolrPlain DEF C6, Plain
  <2>7. Plain(C6, C7) /\ JobsIn(C7) = JobsIn(C6)
    BY <2>6, SolrStartPlain DEF C7, Plain
  <2>8. Plain(C7, C8) /\ JobsIn(C8) = JobsIn(C7)
    BY <2>7, MountPlain DEF C8, Plain
  <2>9. Plain(C8, C9) /\ JobsIn(C9) = {Limited(d) : d \in JobsIn(C8)}
    BY <2>8, LimitPlain DEF C9, Plain
  <2>10. Plain(C9, C10) /\ JobsIn(C10) = {Trusting(d) : d \in JobsIn(C9)}
    BY <2>9, TrustPlain DEF C10, Plain
  <2>11. Plain(C10, C11) /\ JobsIn(C11) = JobsIn(C10)
    BY <2>10, PostgresPlain DEF C11, Plain
  <2>12. Plain(C, C4)
    <3>1. Plain(C, C2)
      BY <2>1, <2>2, PlainTrans
    <3>. QED BY <2>3, <2>4, <3>1, PlainTrans
  <2>13. Plain(C, C8)
    <3>1. Plain(C, C6)
      BY <2>5, <2>6, <2>12, PlainTrans
    <3>. QED BY <2>7, <2>8, <3>1, PlainTrans
  <2>14. Plain(C, C11)
    <3>1. Plain(C, C10)
      BY <2>9, <2>10, <2>13, PlainTrans
    <3>. QED BY <2>11, <3>1, PlainTrans
  <2>15. JobsIn(C11) = {Trusting(Limited(Retrying(Kcadm(d)))) : d \in JobsIn(C)}
    <3>1. JobsIn(C5) = {Retrying(Kcadm(d)) : d \in JobsIn(C)}
      BY <2>1, <2>2, <2>3, <2>4, <2>5
    <3>2. JobsIn(C9) = {Limited(Retrying(Kcadm(d))) : d \in JobsIn(C)}
      BY <2>6, <2>7, <2>8, <2>9, <3>1
    <3>. QED BY <2>10, <2>11, <3>2
  <2>. QED BY <2>11, <2>14, <2>15 DEF Plain
<1> HIDE DEF C11
<1>6. /\ AreDocs(D) /\ ConfigsIn(D) = {Merged(m, c) : c \in ConfigsIn(C11)} /\ JobsIn(D) = JobsIn(C11)
      /\ \A d \in D : HasPod(d) => d \in C11
  BY <1>5, Merges
<1> HIDE DEF D, note, nginx
<1>7. JobsIn(D) = {JobFixed(d) : d \in JobsIn(A)}
  <2>1. JobsIn(C) = {Deduped(d) : d \in JobsIn(A)}
    BY <1>2, <1>3, <1>4 DEF Rolled
  <2>. QED BY <1>5, <1>6, <2>1 DEF JobFixed
<1>8. ConfigsIn(D) = {ConfigFixed(T, m, c) : c \in ConfigsIn(A)}
  <2>1. ConfigsIn(B) = {Swapped(c, "api-proxy", T) : c \in ConfigsIn(A)}
    BY <1>2, <1>3 DEF Rolled, Plain
  <2>2. ConfigsIn(C11) = {Swapped(c, "workers auto", "workers 1") : c \in ConfigsIn(B)}
    BY <1>4, <1>5 DEF Rolled, Plain
  <2>3. ConfigsIn(C11) = {Swapped(Swapped(c, "api-proxy", T), "workers auto", "workers 1") : c \in ConfigsIn(A)}
    BY <2>1, <2>2
  <2>. QED BY <1>6, <2>3 DEF ConfigFixed
<1>9. Added(C) = Added(A)
  <2>1. \A c \in ConfigsIn(A5) : IsDoc(c) /\ c.kind = "ConfigMap"
    BY <1>2 DEF AreDocs, ConfigsIn
  <2>2. \A c \in ConfigsIn(B) : IsDoc(c) /\ c.kind = "ConfigMap"
    BY <1>3 DEF Rolled, AreDocs, ConfigsIn
  <2>3. \A n : (\E c \in ConfigsIn(B) : c.name = n) <=> \E c \in ConfigsIn(A5) : c.name = n
    <3>1. \A c \in ConfigsIn(A5) : Swapped(c, "api-proxy", T).name = c.name
      BY <2>1, SwappedDoc
    <3>. QED BY <1>3, <3>1 DEF Rolled
  <2>4. \A n : (\E c \in ConfigsIn(C) : c.name = n) <=> \E c \in ConfigsIn(B) : c.name = n
    <3> DEFINE auto == "workers auto"
               one == "workers 1"
    <3>1. Rolled(B, C, auto, one, nginx)
      BY <1>4
    <3> HIDE DEF auto, one
    <3>2. \A c \in ConfigsIn(B) : Swapped(c, auto, one).name = c.name
      BY <2>2, SwappedDoc
    <3>. QED BY <3>1, <3>2 DEF Rolled
  <2>. QED BY <1>2, <2>3, <2>4 DEF Added, Plain
<1>10. ASSUME NEW d \in D, HasPod(d)
       PROVE  \E e \in A :
                /\ Named(e, d) /\ Reads(Added(A), e, d)
                /\ e.notes \subseteq d.notes /\ d.notes \subseteq e.notes \cup {note, nginx}
                /\ Workload(e) /\ ConfigMapsUsed(e) \cap NamesWith(A, "api-proxy") # {} => note \in d.notes
  <2>1. PICK c \in C : Alike(Added(C), c, d)
    BY <1>5, <1>6, <1>10 DEF Plain
  <2>2. HasPod(c)
    BY <1>10, <2>1 DEF Alike, Named, HasPod
  <2>3. PICK b \in B : Named(b, c) /\ ConfigMapsUsed(c) = ConfigMapsUsed(b)
                         /\ b.notes \subseteq c.notes /\ c.notes \subseteq b.notes \cup {nginx}
    BY <1>4, <2>2 DEF Rolled
  <2>4. HasPod(b)
    BY <2>2, <2>3 DEF Named, HasPod
  <2>5. PICK a \in A5 :
          /\ Named(a, b) /\ ConfigMapsUsed(b) = ConfigMapsUsed(a)
          /\ a.notes \subseteq b.notes /\ b.notes \subseteq a.notes \cup {note}
          /\ Workload(a) /\ ConfigMapsUsed(a) \cap NamesWith(A5, "api-proxy") # {} => note \in b.notes
    BY <1>3, <2>4 DEF Rolled
  <2>6. HasPod(a)
    BY <2>4, <2>5 DEF Named, HasPod
  <2>7. PICK e \in A : Alike(Added(A), e, a)
    BY <1>2, <2>6 DEF Plain
  <2>8. Named(e, d)
    BY <2>1, <2>3, <2>5, <2>7 DEF Alike, Named
  <2>9. Reads(Added(A), e, d)
    BY <1>9, <2>1, <2>3, <2>5, <2>7 DEF Alike, Reads
  <2>10. e.notes \subseteq d.notes /\ d.notes \subseteq e.notes \cup {note, nginx}
    BY <2>1, <2>3, <2>5, <2>7 DEF Alike
  <2>11. ASSUME Workload(e), ConfigMapsUsed(e) \cap NamesWith(A, "api-proxy") # {}
         PROVE  note \in d.notes
    <3>1. NamesWith(A5, "api-proxy") = NamesWith(A, "api-proxy")
      <4>1. ConfigsIn(A5) = ConfigsIn(A)
        BY <1>2 DEF Plain
      <4>2. WithValue(A5, "api-proxy") = WithValue(A, "api-proxy")
        BY <4>1 DEF WithValue, ConfigsIn
      <4>. QED BY <4>2 DEF NamesWith
    <3>2. Workload(a)
      BY <2>7, <2>11 DEF Alike, Named, Workload
    <3>3. ConfigMapsUsed(a) \cap NamesWith(A5, "api-proxy") # {}
      BY <2>7, <2>11, <3>1 DEF Alike, Reads
    <3>4. note \in b.notes
      BY <2>5, <3>2, <3>3
    <3>. QED BY <2>1, <2>3, <3>4 DEF Alike
  <2>. QED BY <2>8, <2>9, <2>10, <2>11
<1>11. Unique(A) => Unique(D)
  BY <1>2, <1>3, <1>4, <1>5, <1>6 DEF Plain, Rolled, Unique
<1>12. Outcome(T, m, A, D)
  BY <1>6, <1>8, <1>10, <1>11 DEF Outcome, note, nginx
<1>. QED BY <1>1, <1>7, <1>12
-----------------------------------------------------------------------------
(* Invariants. *)

\* What a deploy installs.
Installs(t, hold) == {d \in PostRender(Load(Rendered(t)), hold, ObjectenMerged(t)) : d.hook = "none"}

WantRendered ==
  /\ step \in {"idle", "settings", "workloads"}
  /\ \/ want = {} /\ step = "idle" /\ ~finished
     \/ \E t \in Toggled, hold \in BOOLEAN : want = Installs(t, hold)
  /\ finished => step = "idle" /\ cluster = want

\* What is on the cluster is from some deploy.
ClusterRendered ==
  /\ \A d \in cluster : HasPod(d) \/ d.kind = "ConfigMap" =>
       \E t \in Toggled, hold \in BOOLEAN : d \in Installs(t, hold)
  /\ Unique(cluster)

\* A Job that is there is the one that the upgrade wants.
JobsAgree ==
  step # "idle" => \A d \in JobsIn(want), e \in JobsIn(cluster) : d.name = e.name => d = e

\* Once they are installed, the ConfigMaps of the upgrade are there, and no other of their names.
ConfigsThere ==
  step = "workloads" =>
    /\ ConfigsIn(want) \subseteq cluster
    /\ \A c \in ConfigsIn(cluster), x \in ConfigsIn(want) : c.name = x.name => c \in want

\* What the pods of a workload read when they start during a deploy that renders it so.
Due(d, values) ==
  \E t \in Toggled, hold \in BOOLEAN : d \in Installs(t, hold) /\ values = Values(Installs(t, hold), d)

\* A pod has read what its template was rendered with, or if pods restart, what the upgrade installed.
PodsRead(restarts) ==
  \A d \in cluster : Workload(d) =>
    /\ Key(d) \in DOMAIN pods
    /\ \/ Due(d, pods[Key(d)])
       \/ restarts /\ step = "workloads" /\ pods[Key(d)] = Values(cluster, d)

\* Outside an upgrade that changes workloads the ConfigMaps are those that the workloads were rendered with.
Whole ==
  step # "workloads" => \A d \in cluster : Workload(d) => Due(d, Values(cluster, d))

Common == WantRendered /\ ClusterRendered /\ JobsAgree /\ ConfigsThere

-----------------------------------------------------------------------------
(* What a deploy wants. *)

LEMMA JobNamed == \A d : IsDoc(d) /\ d.kind = "Job" => Named(d, JobFixed(d))
<1> SUFFICES ASSUME NEW d, IsDoc(d), d.kind = "Job" PROVE Named(d, JobFixed(d))
  OBVIOUS
<1>1. AreDocs({d}) /\ JobsIn({d}) = {d}
  BY DEF AreDocs, JobsIn
<1>2. JobsIn(PostRender({d}, FALSE, FALSE)) = {JobFixed(d)} /\ \E T : Outcome(T, FALSE, {d}, PostRender({d}, FALSE, FALSE))
  <2>1. JobsIn(PostRender({d}, FALSE, FALSE)) = {JobFixed(x) : x \in JobsIn({d})}
    BY <1>1, Rendering
  <2>2. \E T : Outcome(T, FALSE, {d}, PostRender({d}, FALSE, FALSE))
    BY <1>1, Rendering
  <2>. QED BY <1>1, <2>1, <2>2
<1>3. JobFixed(d) \in PostRender({d}, FALSE, FALSE) /\ HasPod(JobFixed(d))
  BY <1>2 DEF JobsIn, HasPod
<1>. QED BY <1>2, <1>3 DEF Outcome

\* How a document of a deploy comes from its chart's.
Comes(t, T, r, d) ==
  /\ Named(r, d)
  /\ ConfigMapsUsed(r) \subseteq ConfigMapsUsed(d)
  /\ ConfigMapsUsed(d) \subseteq ConfigMapsUsed(r) \cup Added(Rendered(t))
  /\ r.notes \subseteq d.notes
  /\ \A n \in d.notes : n \in r.notes \/ n[1] \in {"digests", "nginx-workers"} \/ n = <<"outbound", T>>
  /\ Workload(r) /\ ConfigMapsUsed(r) \cap NamesWith(Rendered(t), "api-proxy") # {} => <<"outbound", T>> \in d.notes

LEMMA WantedIs ==
  ASSUME WellFormed, NEW t \in Toggled, NEW hold
  PROVE  LET W == Installs(t, hold)
             R == Rendered(t)
         IN  /\ AreDocs(W) /\ Unique(W)
             /\ JobsIn(W) = {d \in {JobFixed(Loaded(r)) : r \in JobsIn(R)} : d.hook = "none"}
             /\ \E T : /\ ConfigsIn(W) = {d \in {ConfigFixed(T, ObjectenMerged(t), c) : c \in ConfigsIn(R)} : d.hook = "none"}
                       /\ \A d \in W : HasPod(d) => \E r \in R : Comes(t, T, r, d)
<1> DEFINE R == Rendered(t)
           A == Load(R)
           P == PostRender(A, hold, ObjectenMerged(t))
           W == Installs(t, hold)
<1>1. AreDocs(R) /\ Unique(R)
  BY DEF WellFormed
<1>2. /\ A = {Loaded(d) : d \in R} /\ AreDocs(A) /\ Unique(A)
      /\ ConfigsIn(A) = ConfigsIn(R) /\ JobsIn(A) = {Loaded(d) : d \in JobsIn(R)}
  BY <1>1, Loads
<1> HIDE DEF A
<1>3. PICK T : Outcome(T, ObjectenMerged(t), A, P)
  BY <1>2, Rendering
<1>4. JobsIn(P) = {JobFixed(d) : d \in JobsIn(A)}
  BY <1>2, Rendering
<1>5. W = {d \in P : d.hook = "none"}
  BY DEF Installs, A
<1> HIDE DEF P, W
<1>6. AreDocs(W) /\ Unique(W)
  BY <1>2, <1>3, <1>5 DEF Outcome, AreDocs, Unique
<1>7. JobsIn(W) = {d \in {JobFixed(Loaded(r)) : r \in JobsIn(R)} : d.hook = "none"}
  BY <1>2, <1>4, <1>5 DEF JobsIn
<1>8. ConfigsIn(W) = {d \in {ConfigFixed(T, ObjectenMerged(t), c) : c \in ConfigsIn(R)} : d.hook = "none"}
  BY <1>2, <1>3, <1>5 DEF Outcome, ConfigsIn
<1>9. ASSUME NEW d \in W, HasPod(d) PROVE \E r \in R : Comes(t, T, r, d)
  <2>1. PICK l \in A :
          /\ Named(l, d) /\ Reads(Added(A), l, d)
          /\ l.notes \subseteq d.notes /\ d.notes \subseteq l.notes \cup {<<"outbound", T>>, <<"nginx-workers", "1">>}
          /\ Workload(l) /\ ConfigMapsUsed(l) \cap NamesWith(A, "api-proxy") # {} => <<"outbound", T>> \in d.notes
    BY <1>3, <1>5, <1>9 DEF Outcome
  <2>2. PICK r \in R : l = Loaded(r)
    BY <1>2
  <2>3. /\ Named(r, l) /\ ConfigMapsUsed(l) = ConfigMapsUsed(r) /\ r.notes \subseteq l.notes
        /\ \A n \in l.notes : n \in r.notes \/ n[1] = "digests"
    BY <1>1, <2>2, LoadedDoc DEF AreDocs
  <2>4. Added(A) = Added(R)
    BY <1>2 DEF Added
  <2>5. NamesWith(A, "api-proxy") = NamesWith(R, "api-proxy")
    <3>1. WithValue(A, "api-proxy") = WithValue(R, "api-proxy")
      BY <1>2 DEF WithValue, ConfigsIn
    <3>. QED BY <3>1 DEF NamesWith
  <2>6. \A n \in d.notes : n \in r.notes \/ n[1] \in {"digests", "nginx-workers"} \/ n = <<"outbound", T>>
    BY <2>1, <2>3
  <2>7. Named(r, d) /\ ConfigMapsUsed(r) \subseteq ConfigMapsUsed(d)
        /\ ConfigMapsUsed(d) \subseteq ConfigMapsUsed(r) \cup Added(R) /\ r.notes \subseteq d.notes
    BY <2>1, <2>3, <2>4 DEF Named, Reads
  <2>8. Workload(r) /\ ConfigMapsUsed(r) \cap NamesWith(R, "api-proxy") # {} => <<"outbound", T>> \in d.notes
    BY <2>1, <2>3, <2>5 DEF Workload, Named
  <2>. QED BY <2>6, <2>7, <2>8 DEF Comes
<1> HIDE DEF R
<1>10. /\ AreDocs(W) /\ Unique(W)
       /\ JobsIn(W) = {d \in {JobFixed(Loaded(r)) : r \in JobsIn(R)} : d.hook = "none"}
       /\ \E x : /\ ConfigsIn(W) = {d \in {ConfigFixed(x, ObjectenMerged(t), c) : c \in ConfigsIn(R)} : d.hook = "none"}
                 /\ \A d \in W : HasPod(d) => \E r \in R : Comes(t, x, r, d)
  BY <1>6, <1>7, <1>8, <1>9
<1>. QED BY <1>10 DEF W, R

\* A Job of the cluster that a deploy wants is either the same or one that it deletes first.
LEMMA JobsMatch ==
  ASSUME WellFormed, JobsStay, NEW t \in Toggled, NEW u \in Toggled, NEW hold, NEW held,
         NEW d \in JobsIn(Installs(t, hold)), NEW e \in JobsIn(Installs(u, held)), d.name = e.name
  PROVE  d = e \/ d.name \in Jobs(FixUp(Rendered(t), ObjectenMerged(t))) \cap ExternalsJobs
<1>1. PICK r \in JobsIn(Rendered(t)) : d = JobFixed(Loaded(r)) /\ d.hook = "none"
  BY WantedIs
<1>2. PICK s \in JobsIn(Rendered(u)) : e = JobFixed(Loaded(s)) /\ e.hook = "none"
  BY WantedIs
<1>3. AreDocs(Rendered(t)) /\ IsDoc(r) /\ IsDoc(s) /\ r.kind = "Job" /\ s.kind = "Job" /\ ~r.large
  BY DEF WellFormed, AreDocs, JobsIn
<1>4. IsDoc(Loaded(r)) /\ Named(r, Loaded(r)) /\ IsDoc(Loaded(s)) /\ Named(s, Loaded(s))
  BY <1>3, LoadedDoc
<1>5. Named(Loaded(r), d) /\ Named(Loaded(s), e)
  BY <1>1, <1>2, <1>3, <1>4, JobNamed DEF Named
<1>6. r.name = s.name /\ d.name = r.name
  BY <1>4, <1>5 DEF Named
<1>7. CASE Load({r}) = Load({s})
  <2>1. Load({r}) = {Loaded(r)} /\ Load({s}) = {Loaded(s)}
    BY DEF Load, Loaded
  <2>2. Loaded(r) = Loaded(s)
    BY <1>7, <2>1
  <2>. QED BY <1>1, <1>2, <2>2
<1>8. CASE r.name \in ExternalsJobs
  <2> DEFINE A == Load(Rendered(t))
             B == {x \in A : x.hook \notin {"test", "delete"}}
  <2>1. Loaded(r) \in JobsIn(A) /\ AreDocs(A)
    BY <1>3, Loads
  <2>2. Loaded(r).hook = "none" /\ ~d.large /\ d.kind = "Job"
    BY <1>1, <1>3, <1>4, <1>5 DEF Named
  <2>3. Loaded(r) \in JobsIn(B) /\ AreDocs(B)
    BY <2>1, <2>2 DEF JobsIn, AreDocs
  <2> HIDE DEF B
  <2>4. JobsIn(PostRender(B, FALSE, ObjectenMerged(t))) = {JobFixed(x) : x \in JobsIn(B)}
    BY <2>3, Rendering
  <2>5. d \in PostRender(B, FALSE, ObjectenMerged(t))
    BY <1>1, <2>3, <2>4 DEF JobsIn
  <2>6. d \in FixUp(Rendered(t), ObjectenMerged(t))
    BY <2>2, <2>5 DEF FixUp, B
  <2>7. d.name \in Jobs(FixUp(Rendered(t), ObjectenMerged(t)))
    BY <2>2, <2>6 DEF Jobs
  <2>. QED BY <1>6, <1>8, <2>7
<1>. QED BY <1>6, <1>7, <1>8 DEF JobsStay

-----------------------------------------------------------------------------
(* No deploy is refused over a Job. *)

LEMMA PutIs == \A new, d : d \in Put(new) <=> d \in new \/ (d \in cluster /\ \A e \in new : Key(d) # Key(e))
<1> SUFFICES ASSUME NEW new, NEW d
             PROVE  d \in Put(new) <=> d \in new \/ (d \in cluster /\ \A e \in new : Key(d) # Key(e))
  OBVIOUS
<1>1. Key(d) \in {Key(e) : e \in new} <=> \E e \in new : Key(d) = Key(e)
  OBVIOUS
<1>. QED BY <1>1 DEF Put

LEMMA CommonInit == RolloutInit => Common
BY DEF RolloutInit, Common, WantRendered, ClusterRendered, JobsAgree, ConfigsThere, JobsIn, Unique

\* A set of the wanted workloads and Jobs is put in place of those of their names.
LEMMA PutPods ==
  ASSUME Common, Unique(want), step = "workloads", NEW new, new \subseteq Pods
  PROVE  /\ \A d \in Put(new) : HasPod(d) \/ d.kind = "ConfigMap" =>
              \E t \in Toggled, hold \in BOOLEAN : d \in Installs(t, hold)
         /\ Unique(Put(new))
         /\ ConfigsIn(Put(new)) = ConfigsIn(cluster)
         /\ \A d \in JobsIn(want), e \in JobsIn(Put(new)) : d.name = e.name => d = e
<1>1. PICK t \in Toggled, hold \in BOOLEAN : want = Installs(t, hold)
  BY DEF Common, WantRendered
<1>2. \A d \in new : d \in want /\ HasPod(d) /\ d.kind # "ConfigMap"
  BY DEF Pods, HasPod, PodKinds
<1>3. \A d \in Put(new) : HasPod(d) \/ d.kind = "ConfigMap" => \E u \in Toggled, held \in BOOLEAN : d \in Installs(u, held)
  BY <1>1, <1>2, PutIs DEF Common, ClusterRendered
<1>4. Unique(Put(new))
  BY <1>2, PutIs DEF Unique, Common, ClusterRendered
<1>5. ConfigsIn(Put(new)) = ConfigsIn(cluster)
  BY <1>2, PutIs DEF ConfigsIn, Key
<1>6. ASSUME NEW d \in JobsIn(want), NEW e \in JobsIn(Put(new)), d.name = e.name PROVE d = e
  <2>1. CASE e \in cluster
    BY <1>6, <2>1 DEF Common, JobsAgree, JobsIn
  <2>2. CASE e \in new
    BY <1>2, <1>6, <2>2 DEF Unique, JobsIn, HasPod, Key
  <2>. QED BY <2>1, <2>2, PutIs DEF JobsIn
<1>. QED BY <1>3, <1>4, <1>5, <1>6

LEMMA WantUnique ==
  ASSUME WellFormed, Common PROVE AreDocs(want) /\ Unique(want)
<1>1. CASE want = {}
  BY <1>1 DEF AreDocs, Unique
<1>2. CASE \E t \in Toggled, hold \in BOOLEAN : want = Installs(t, hold)
  BY <1>2, WantedIs
<1>. QED BY <1>1, <1>2 DEF Common, WantRendered

LEMMA CommonNext ==
  ASSUME WellFormed, JobsStay, Common, [RolloutNext]_rolloutVars
  PROVE  Common'
<1> USE DEF Common
<1>1. ASSUME NEW t \in SUBSET Toggles, Deploy(t) PROVE Common'
  <2> DEFINE jobs == Jobs(FixUp(Rendered(t), ObjectenMerged(t)))
             hold == jobs \cap ZacJobs # {} /\ ~Has(cluster, "Deployment", "zac")
             again == jobs \cap ExternalsJobs
  <2>1. /\ want' = Installs(t, hold) /\ hold \in BOOLEAN /\ t \in Toggled
        /\ cluster' = {d \in cluster : ~(d.kind = "Job" /\ d.name \in again)}
        /\ step' = "settings" /\ finished' = FALSE
    BY <1>1 DEF Deploy, Installs, Toggled
  <2> HIDE DEF hold
  <2>2. WantRendered'
    BY <2>1 DEF WantRendered
  <2>3. ClusterRendered'
    BY <2>1 DEF ClusterRendered, Unique
  <2>4. JobsAgree'
    <3> SUFFICES ASSUME NEW d \in JobsIn(want'), NEW e \in JobsIn(cluster'), d.name = e.name PROVE d = e
      BY <2>1 DEF JobsAgree
    <3>1. e \in cluster /\ HasPod(e) /\ e.name \notin again
      BY <2>1 DEF JobsIn, HasPod
    <3>2. PICK u \in Toggled, held \in BOOLEAN : e \in Installs(u, held)
      BY <3>1 DEF ClusterRendered
    <3>3. d \in JobsIn(Installs(t, hold)) /\ e \in JobsIn(Installs(u, held))
      BY <2>1, <3>2 DEF JobsIn
    <3>. QED BY <2>1, <3>1, <3>3, JobsMatch
  <2>5. ConfigsThere'
    BY <2>1 DEF ConfigsThere
  <2>. QED BY <2>2, <2>3, <2>4, <2>5
<1>2. CASE Settings
  <2> DEFINE N == {d \in want : ~HasPod(d)}
  <2>1. cluster' = Put(N) /\ step = "settings" /\ step' = "workloads" /\ want' = want /\ finished' = finished
    BY <1>2 DEF Settings
  <2>2. WantRendered'
    BY <2>1 DEF WantRendered
  <2>3. \A d \in cluster' : HasPod(d) => d \in cluster
    BY <2>1, PutIs
  <2>4. ClusterRendered'
    <3>1. \A d \in cluster' : d \in cluster \/ d \in want
      BY <2>1, PutIs
    <3>. QED BY <2>1, <2>3, <3>1 DEF ClusterRendered, WantRendered, Unique
  <2>5. JobsAgree'
    BY <2>1, <2>3 DEF JobsAgree, JobsIn, HasPod
  <2>6. ConfigsThere'
    <3>1. \A c \in ConfigsIn(want) : c \in N
      BY DEF ConfigsIn, HasPod, PodKinds
    <3>2. ConfigsIn(want) \subseteq cluster'
      <4> HIDE DEF N
      <4>1. N \subseteq Put(N)
        BY PutIs
      <4>. QED BY <2>1, <3>1, <4>1
    <3>3. ASSUME NEW c \in ConfigsIn(cluster'), NEW x \in ConfigsIn(want), c.name = x.name PROVE c \in want
      <4>1. x \in N /\ Key(c) = Key(x) /\ c \in Put(N)
        BY <2>1, <3>1, <3>3 DEF ConfigsIn, Key
      <4>. QED BY <4>1, PutIs
    <3>. QED BY <2>1, <3>2, <3>3 DEF ConfigsThere
  <2>. QED BY <2>2, <2>4, <2>5, <2>6
<1>3. CASE Create
  <2> DEFINE new == {d \in Pods : Live(d) = {}}
  <2>1. /\ cluster' = Put(new) /\ new \subseteq Pods /\ step = "workloads" /\ step' = step /\ want' = want
        /\ finished' = finished
    BY <1>3 DEF Create
  <2> HIDE DEF new
  <2>2. /\ \A d \in Put(new) : HasPod(d) \/ d.kind = "ConfigMap" =>
             \E t \in Toggled, hold \in BOOLEAN : d \in Installs(t, hold)
        /\ Unique(Put(new))
        /\ ConfigsIn(Put(new)) = ConfigsIn(cluster)
        /\ \A d \in JobsIn(want), e \in JobsIn(Put(new)) : d.name = e.name => d = e
    BY <2>1, WantUnique, PutPods
  <2>3. WantRendered'
    BY <2>1 DEF WantRendered
  <2>4. ClusterRendered'
    BY <2>1, <2>2 DEF ClusterRendered
  <2>5. JobsAgree'
    BY <2>1, <2>2 DEF JobsAgree
  <2>6. ConfigsThere'
    BY <2>1, <2>2 DEF ConfigsThere, ConfigsIn
  <2>. QED BY <2>3, <2>4, <2>5, <2>6
<1>4. CASE Finish
  <2>1. step = "workloads" /\ step' = "idle" /\ cluster' = want /\ want' = want /\ finished' = TRUE
    BY <1>4 DEF Finish
  <2>2. WantRendered'
    BY <2>1 DEF WantRendered
  <2>3. ClusterRendered'
    BY <2>1, WantUnique DEF ClusterRendered, WantRendered
  <2>4. JobsAgree' /\ ConfigsThere'
    BY <2>1 DEF JobsAgree, ConfigsThere
  <2>. QED BY <2>2, <2>3, <2>4
<1>5. CASE Cut
  BY <1>5 DEF Cut, WantRendered, ClusterRendered, JobsAgree, ConfigsThere
<1>6. ASSUME NEW d \in want, Patch(d) PROVE Common'
  <2>1. step = "workloads" /\ d \in Pods \ cluster /\ want' = want /\ finished' = finished
    BY <1>6 DEF Patch
  <2>2. Workload(d)
    <3>1. PICK e \in cluster : Key(e) = Key(d)
      BY <1>6 DEF Patch, Live
    <3>2. ~Workload(d) => d \in JobsIn(want) /\ e \in JobsIn(cluster) /\ e.name = d.name
      BY <2>1, <3>1 DEF Pods, HasPod, Workload, JobsIn, Key
    <3>. QED BY <2>1, <3>2 DEF JobsAgree
  <2>3. cluster' = Put({d}) /\ step' = step /\ {d} \subseteq Pods
    BY <1>6, <2>1, <2>2 DEF Patch
  <2>4. /\ \A e \in Put({d}) : HasPod(e) \/ e.kind = "ConfigMap" =>
             \E t \in Toggled, hold \in BOOLEAN : e \in Installs(t, hold)
        /\ Unique(Put({d}))
        /\ ConfigsIn(Put({d})) = ConfigsIn(cluster)
        /\ \A x \in JobsIn(want), e \in JobsIn(Put({d})) : x.name = e.name => x = e
    BY <2>1, <2>3, WantUnique, PutPods
  <2>5. WantRendered'
    BY <2>1, <2>3 DEF WantRendered
  <2>6. ClusterRendered'
    BY <2>3, <2>4 DEF ClusterRendered
  <2>7. JobsAgree'
    BY <2>1, <2>3, <2>4 DEF JobsAgree
  <2>8. ConfigsThere'
    BY <2>1, <2>3, <2>4 DEF ConfigsThere, ConfigsIn
  <2>. QED BY <2>5, <2>6, <2>7, <2>8
<1>7. ASSUME NEW d \in cluster, PodRestarts(d) PROVE Common'
  BY <1>7 DEF PodRestarts, WantRendered, ClusterRendered, JobsAgree, ConfigsThere
<1>8. CASE UNCHANGED rolloutVars
  BY <1>8 DEF rolloutVars, WantRendered, ClusterRendered, JobsAgree, ConfigsThere
<1>. QED BY <1>1, <1>2, <1>3, <1>4, <1>5, <1>6, <1>7, <1>8 DEF RolloutNext

\* No deploy is refused over a Job that an earlier deploy left, whatever parts of the chart are turned
\* on and off and wherever deploys are cut off: the fixups make a Job of the chart's Job alone, and
\* digests reach no Job (post_render, release.py and deploy.py: what deploy deletes first).
THEOREM NoJobIsRefused ==
  ASSUME WellFormed, JobsStay
  PROVE  RolloutSpec => []JobsAccepted
<1>1. Common => JobsAccepted
  BY DEF Common, WantRendered, JobsAccepted
<1>2. Common /\ [RolloutNext]_rolloutVars => Common'
  BY CommonNext
<1>. QED BY <1>1, <1>2, CommonInit, PTL DEF RolloutSpec

-----------------------------------------------------------------------------
(* Pods run with their ConfigMaps as they are. *)

LEMMA ConfigFixedIs ==
  ASSUME NEW c, NEW e, NEW T, NEW U, IsDoc(c), IsDoc(e), c.kind = "ConfigMap", e.kind = "ConfigMap",
         c.name = e.name, c.data = e.data, "api-proxy" \in c.data => T = U,
         NEW m, NEW n, c.name = "objecten-configuration" => m = n
  PROVE  /\ ConfigFixed(T, m, c).data = ConfigFixed(U, n, e).data
         /\ ConfigFixed(T, m, c).name = c.name /\ ConfigFixed(T, m, c).kind = "ConfigMap"
         /\ ConfigFixed(T, m, c).hook = c.hook
<1> DEFINE auto == "workers auto"
           one == "workers 1"
           c1 == Swapped(c, "api-proxy", T)
           e1 == Swapped(e, "api-proxy", U)
           c2 == Swapped(c1, auto, one)
           e2 == Swapped(e1, auto, one)
           Merge(k, x) == IF k /\ x.name = "objecten-configuration"
                          THEN (x.data \ {"service_identifier"}) \cup {"superuser token"} ELSE x.data
<1>1. /\ IsDoc(c1) /\ c1.kind = "ConfigMap" /\ c1.name = c.name /\ c1.hook = c.hook
      /\ c1.data = SwapIn(c.data, "api-proxy", T)
  BY SwappedDoc
<1>2. IsDoc(e1) /\ e1.kind = "ConfigMap" /\ e1.name = e.name /\ e1.data = SwapIn(e.data, "api-proxy", U)
  BY SwappedDoc
<1>3. c1.data = e1.data
  BY <1>1, <1>2 DEF SwapIn
<1> HIDE DEF c1, e1, auto, one
<1>4. /\ IsDoc(c2) /\ c2.kind = "ConfigMap" /\ c2.name = c1.name /\ c2.hook = c1.hook
      /\ c2.data = SwapIn(c1.data, auto, one)
  BY <1>1, SwappedDoc
<1>5. /\ IsDoc(e2) /\ e2.kind = "ConfigMap" /\ e2.name = e1.name
      /\ e2.data = SwapIn(e1.data, auto, one)
  BY <1>2, SwappedDoc
<1> HIDE DEF c2, e2
<1>6. /\ Merged(m, c2).kind = "ConfigMap" /\ Merged(m, c2).name = c2.name /\ Merged(m, c2).hook = c2.hook
      /\ Merged(m, c2).data = Merge(m, c2)
  BY <1>4, MergedDoc
<1>7. Merged(n, e2).data = Merge(n, e2)
  BY <1>5, MergedDoc
<1>8. ConfigFixed(T, m, c) = Merged(m, c2) /\ ConfigFixed(U, n, e) = Merged(n, e2)
  BY DEF ConfigFixed, c1, c2, e1, e2, auto, one
<1>9. c2.data = e2.data /\ c2.name = e2.name
  BY <1>1, <1>2, <1>3, <1>4, <1>5
<1>10. c2.name = c.name
  BY <1>1, <1>4
<1>11. Merged(m, c2).data = Merged(n, e2).data
  <2>1. CASE c.name = "objecten-configuration"
    <3>1. m = n
      BY <2>1
    <3>. QED BY <1>6, <1>7, <1>9, <3>1
  <2>2. CASE c.name # "objecten-configuration"
    BY <1>6, <1>7, <1>9, <1>10, <2>2
  <2>. QED BY <2>1, <2>2
<1> HIDE DEF Merge
<1>12. Merged(m, c2).kind = "ConfigMap" /\ Merged(m, c2).name = c.name /\ Merged(m, c2).hook = c.hook
  BY <1>1, <1>4, <1>6
<1>. QED BY <1>8, <1>11, <1>12

LEMMA TemplateIs ==
  ASSUME NEW d, NEW e, IsDoc(d), IsDoc(e), Template(d) = Template(e)
  PROVE  /\ Key(d) = Key(e) /\ d.notes = e.notes /\ ConfigMapsUsed(d) = ConfigMapsUsed(e)
         /\ \A docs : Values(docs, d) = Values(docs, e)
<1> DEFINE x == Template(d)
           y == Template(e)
<1>1. x.kind = d.kind /\ x.name = d.name /\ x.notes = d.notes /\ x.volumes = d.volumes /\ x.containers = d.containers
  BY DEF Template, IsDoc, IsRecord
<1>2. y.kind = e.kind /\ y.name = e.name /\ y.notes = e.notes /\ y.volumes = e.volumes /\ y.containers = e.containers
  BY DEF Template, IsDoc, IsRecord
<1> HIDE DEF x, y
<1>3. /\ d.kind = e.kind /\ d.name = e.name /\ d.notes = e.notes /\ d.volumes = e.volumes
      /\ d.containers = e.containers
  BY <1>1, <1>2 DEF x, y
<1>4. ConfigMapsUsed(d) = ConfigMapsUsed(e)
  BY <1>3 DEF ConfigMapsUsed
<1>. QED BY <1>3, <1>4 DEF Key, Values

\* What a workload's template says decides what its pods read in a deploy that renders it so.
LEMMA ReadsAlike ==
  ASSUME WellFormed, ConfigsApart, ConfigsBelong, ConfigsStay,
         NEW t \in Toggled, NEW u \in Toggled, NEW hold, NEW held,
         NEW d \in Installs(t, hold), NEW e \in Installs(u, held), Workload(d), Template(d) = Template(e)
  PROVE  Values(Installs(t, hold), d) \subseteq Values(Installs(u, held), e)
<1> DEFINE W == Installs(t, hold)
           X == Installs(u, held)
           R == Rendered(t)
           S == Rendered(u)
<1>1. AreDocs(R) /\ AreDocs(S) /\ AreDocs(W) /\ AreDocs(X)
  BY WantedIs DEF WellFormed
<1>2. /\ Key(d) = Key(e) /\ d.notes = e.notes /\ ConfigMapsUsed(d) = ConfigMapsUsed(e)
      /\ HasPod(d) /\ HasPod(e) /\ Workload(e)
  BY <1>1, TemplateIs DEF AreDocs, Key, HasPod, Workload
<1>3. PICK T : /\ ConfigsIn(W) = {x \in {ConfigFixed(T, ObjectenMerged(t), c) : c \in ConfigsIn(R)} : x.hook = "none"}
               /\ \A x \in W : HasPod(x) => \E r \in R : Comes(t, T, r, x)
  BY WantedIs
<1>4. PICK U : /\ ConfigsIn(X) = {x \in {ConfigFixed(U, ObjectenMerged(u), c) : c \in ConfigsIn(S)} : x.hook = "none"}
               /\ \A x \in X : HasPod(x) => \E r \in S : Comes(u, U, r, x)
  BY WantedIs
<1>5. PICK r \in R : Comes(t, T, r, d)
  BY <1>2, <1>3
<1>6. PICK s \in S : Comes(u, U, s, e)
  BY <1>2, <1>4
<1>7. Workload(r) /\ Workload(s) /\ Key(r) = Key(s)
  BY <1>2, <1>5, <1>6 DEF Comes, Named, Workload, Key
<1>8. /\ \A n \in r.notes : n[1] \notin {"outbound", "nginx-workers", "digests"}
      /\ \A n \in s.notes : n[1] \notin {"outbound", "nginx-workers", "digests"}
  BY <1>7 DEF ConfigsApart
<1>9. r.notes = s.notes
  <2>1. <<"outbound", T>>[1] = "outbound" /\ <<"outbound", U>>[1] = "outbound"
    OBVIOUS
  <2>2. ASSUME NEW n \in r.notes PROVE n \in s.notes
    BY <1>2, <1>5, <1>6, <1>8, <2>1 DEF Comes
  <2>3. ASSUME NEW n \in s.notes PROVE n \in r.notes
    BY <1>2, <1>5, <1>6, <1>8, <2>1 DEF Comes
  <2>. QED BY <2>2, <2>3
<1> HIDE DEF W, X, R, S
<1>10. SUFFICES ASSUME NEW b \in W, b.kind = "ConfigMap", b.name \in ConfigMapsUsed(d), NEW v \in b.data
                PROVE  \E x \in X : x.kind = "ConfigMap" /\ x.name \in ConfigMapsUsed(e) /\ v \in x.data
  <2>1. \A v \in Values(W, d) : \E b \in W : b.kind = "ConfigMap" /\ b.name \in ConfigMapsUsed(d) /\ v \in b.data
    BY DEF Values
  <2>2. \A v : (\E x \in X : x.kind = "ConfigMap" /\ x.name \in ConfigMapsUsed(e) /\ v \in x.data)
                 => v \in Values(X, e)
    BY DEF Values
  <2>. QED BY <1>10, <2>1, <2>2 DEF W, X
<1>11. PICK c \in ConfigsIn(R) : b = ConfigFixed(T, ObjectenMerged(t), c)
  BY <1>3, <1>10 DEF ConfigsIn
<1>12. IsDoc(c) /\ c.kind = "ConfigMap" /\ b.name = c.name
  <2>1. IsDoc(c) /\ c.kind = "ConfigMap"
    BY <1>1 DEF AreDocs, ConfigsIn
  <2>. QED BY <1>11, <2>1, ConfigFixedIs
<1>13. c.name \notin {"ca", "postgres-tls"} /\ (c.name = RoleMapping => "api-proxy" \notin c.data)
  BY DEF ConfigsApart, R
<1>14. c.name \in ConfigMapsUsed(r) \cup {RoleMapping} /\ c.name \in ConfigMapsUsed(s) \cup {RoleMapping}
  BY <1>2, <1>5, <1>6, <1>10, <1>12, <1>13 DEF Comes, Added
<1>15. PICK x \in ConfigsIn(S) : x.name = c.name
  <2>1. CASE c.name \in ConfigMapsUsed(s)
    BY <1>7, <2>1 DEF ConfigsBelong, R, S
  <2>2. CASE c.name \in Added(S)
    BY <1>13, <2>2 DEF Added
  <2>. QED BY <1>2, <1>6, <1>10, <1>12, <2>1, <2>2 DEF Comes, S
<1>16. IsDoc(x) /\ x.kind = "ConfigMap" /\ x.hook = "none"
  BY <1>1 DEF AreDocs, ConfigsIn, ConfigsApart, S
<1>17. c.data = x.data /\ (c.name = "objecten-configuration" => ObjectenMerged(t) = ObjectenMerged(u))
  BY <1>7, <1>9, <1>14, <1>15 DEF ConfigsStay, R, S
<1>18. ASSUME "api-proxy" \in c.data PROVE T = U
  <2>1. c.name \in ConfigMapsUsed(r) /\ c.name \in ConfigMapsUsed(s)
    BY <1>13, <1>14, <1>18
  <2>2. c.name \in NamesWith(R, "api-proxy") /\ x.name \in NamesWith(S, "api-proxy")
    BY <1>17, <1>18 DEF NamesWith, WithValue, ConfigsIn
  <2>3. <<"outbound", T>> \in d.notes /\ <<"outbound", U>> \in e.notes
    BY <1>5, <1>6, <1>7, <1>15, <2>1, <2>2 DEF Comes, R, S
  <2>4. <<"outbound", U>> \in r.notes \/ <<"outbound", U>>[1] \in {"digests", "nginx-workers"}
          \/ <<"outbound", U>> = <<"outbound", T>>
    BY <1>2, <1>5, <2>3 DEF Comes
  <2>5. <<"outbound", U>>[1] = "outbound"
    OBVIOUS
  <2>6. <<"outbound", U>> = <<"outbound", T>>
    BY <1>8, <2>4, <2>5
  <2>. QED BY <2>6
<1>19. /\ ConfigFixed(T, ObjectenMerged(t), c).data = ConfigFixed(U, ObjectenMerged(u), x).data
       /\ ConfigFixed(U, ObjectenMerged(u), x).name = x.name /\ ConfigFixed(U, ObjectenMerged(u), x).kind = "ConfigMap" /\ ConfigFixed(U, ObjectenMerged(u), x).hook = "none"
  BY <1>12, <1>15, <1>16, <1>17, <1>18, ConfigFixedIs
<1>20. ConfigFixed(U, ObjectenMerged(u), x) \in ConfigsIn(X)
  BY <1>4, <1>19
<1>. QED BY <1>2, <1>10, <1>11, <1>12, <1>15, <1>19, <1>20 DEF ConfigsIn

LEMMA ReadsSame ==
  ASSUME WellFormed, ConfigsApart, ConfigsBelong, ConfigsStay,
         NEW t \in Toggled, NEW u \in Toggled, NEW hold, NEW held,
         NEW d \in Installs(t, hold), NEW e \in Installs(u, held), Workload(d), Template(d) = Template(e)
  PROVE  Values(Installs(t, hold), d) = Values(Installs(u, held), e)
<1>1. IsDoc(d) /\ IsDoc(e)
  BY WantedIs DEF AreDocs
<1>2. Workload(e)
  BY <1>1, TemplateIs DEF Key, Workload
<1>3. Values(Installs(t, hold), d) \subseteq Values(Installs(u, held), e)
  BY ReadsAlike
<1>4. Values(Installs(u, held), e) \subseteq Values(Installs(t, hold), d)
  BY <1>2, ReadsAlike
<1>. QED BY <1>3, <1>4

LEMMA DueIs ==
  ASSUME WellFormed, ConfigsApart, ConfigsBelong, ConfigsStay,
         NEW t \in Toggled, NEW hold \in BOOLEAN, NEW d \in Installs(t, hold), Workload(d), NEW v
  PROVE  /\ Due(d, v) <=> v = Values(Installs(t, hold), d)
         /\ \A e : Due(e, v) /\ Template(d) = Template(e) => Due(d, v)
<1>1. ASSUME NEW e, Due(e, v), Template(d) = Template(e) PROVE v = Values(Installs(t, hold), d)
  <2>1. PICK u \in Toggled, held \in BOOLEAN : e \in Installs(u, held) /\ v = Values(Installs(u, held), e)
    BY <1>1 DEF Due
  <2>. QED BY <1>1, <2>1, ReadsSame
<1>2. v = Values(Installs(t, hold), d) => Due(d, v)
  BY DEF Due
<1>. QED BY <1>1, <1>2

\* During an upgrade a wanted workload finds its own ConfigMaps.
LEMMA ReadsItsOwn ==
  ASSUME WellFormed, ConfigsApart, ConfigsBelong, Common, step = "workloads", NEW d \in want, Workload(d)
  PROVE  Values(cluster, d) = Values(want, d)
<1>1. PICK t \in Toggled, hold \in BOOLEAN : want = Installs(t, hold)
  BY DEF Common, WantRendered
<1>2. PICK T : /\ ConfigsIn(want) = {x \in {ConfigFixed(T, ObjectenMerged(t), c) : c \in ConfigsIn(Rendered(t))} : x.hook = "none"}
               /\ \A x \in want : HasPod(x) => \E r \in Rendered(t) : Comes(t, T, r, x)
  BY <1>1, WantedIs
<1>3. PICK r \in Rendered(t) : Comes(t, T, r, d)
  BY <1>2 DEF Workload, HasPod
<1>4. Workload(r)
  BY <1>3 DEF Comes, Named, Workload
<1>5. ASSUME NEW c \in cluster, c.kind = "ConfigMap", c.name \in ConfigMapsUsed(d) PROVE c \in want
  <2>1. PICK u \in Toggled, held \in BOOLEAN : c \in Installs(u, held)
    BY <1>5 DEF Common, ClusterRendered
  <2>2. PICK U : ConfigsIn(Installs(u, held))
                   = {x \in {ConfigFixed(U, ObjectenMerged(u), y) : y \in ConfigsIn(Rendered(u))} : x.hook = "none"}
    BY WantedIs
  <2>3. PICK y \in ConfigsIn(Rendered(u)) : c = ConfigFixed(U, ObjectenMerged(u), y)
    BY <1>5, <2>1, <2>2 DEF ConfigsIn
  <2>4. IsDoc(y) /\ y.kind = "ConfigMap"
    BY DEF WellFormed, AreDocs, ConfigsIn
  <2>5. y.name = c.name
    BY <2>3, <2>4, ConfigFixedIs
  <2>6. y.name \notin {"ca", "postgres-tls"}
    BY DEF ConfigsApart
  <2>7. PICK x \in ConfigsIn(Rendered(t)) : x.name = y.name
    <3>1. CASE y.name \in ConfigMapsUsed(r)
      BY <1>4, <3>1 DEF ConfigsBelong
    <3>2. CASE y.name \in Added(Rendered(t))
      BY <2>6, <3>2 DEF Added
    <3>. QED BY <1>3, <1>5, <2>5, <3>1, <3>2 DEF Comes
  <2>8. IsDoc(x) /\ x.kind = "ConfigMap" /\ x.hook = "none"
    BY DEF WellFormed, AreDocs, ConfigsIn, ConfigsApart
  <2>9. /\ ConfigFixed(T, ObjectenMerged(t), x).name = x.name /\ ConfigFixed(T, ObjectenMerged(t), x).kind = "ConfigMap"
        /\ ConfigFixed(T, ObjectenMerged(t), x).hook = "none"
    BY <2>8, ConfigFixedIs
  <2>10. ConfigFixed(T, ObjectenMerged(t), x) \in ConfigsIn(want)
    BY <1>2, <2>9
  <2>. QED BY <1>5, <2>5, <2>7, <2>9, <2>10 DEF Common, ConfigsThere, ConfigsIn
<1>6. \A c \in want : c.kind = "ConfigMap" => c \in cluster
  BY DEF Common, ConfigsThere, ConfigsIn
<1>. QED BY <1>5, <1>6 DEF Values

LEMMA ReadsConfigs == \A A, B, d : ConfigsIn(A) = ConfigsIn(B) => Values(A, d) = Values(B, d)
<1> SUFFICES ASSUME NEW A, NEW B, NEW d, ConfigsIn(A) = ConfigsIn(B) PROVE Values(A, d) = Values(B, d)
  OBVIOUS
<1>1. {e \in A : e.kind = "ConfigMap" /\ e.name \in ConfigMapsUsed(d)}
        = {e \in B : e.kind = "ConfigMap" /\ e.name \in ConfigMapsUsed(d)}
  BY DEF ConfigsIn
<1>. QED BY <1>1 DEF Values

PodInv(restarts) == Common /\ PodsRead(restarts) /\ (restarts => Whole)

LEMMA PodInit == \A restarts \in BOOLEAN : RolloutInit => PodInv(restarts)
BY CommonInit DEF RolloutInit, PodInv, PodsRead, Whole

\* One workload of the cluster.
PodRead(restarts, d) ==
  /\ Key(d) \in DOMAIN pods
  /\ \/ Due(d, pods[Key(d)])
     \/ restarts /\ step = "workloads" /\ pods[Key(d)] = Values(cluster, d)

LEMMA PodNext ==
  ASSUME WellFormed, JobsStay, ConfigsApart, ConfigsBelong, ConfigsStay,
         NEW restarts \in BOOLEAN, PodInv(restarts), [RolloutNext]_rolloutVars,
         restarts => ~Cut, ~restarts => ~\E d \in cluster : PodRestarts(d)
  PROVE  PodInv(restarts)'
<1>0. Common /\ Common' /\ PodsRead(restarts) /\ (restarts => Whole)
  BY CommonNext DEF PodInv
<1>1. SUFFICES PodsRead(restarts)' /\ (restarts => Whole')
  BY <1>0 DEF PodInv
<1>2. ASSUME NEW d \in cluster, Workload(d) PROVE PodRead(restarts, d)
  BY <1>0, <1>2 DEF PodsRead, PodRead
<1>3. SUFFICES /\ \A d \in cluster' : Workload(d) => PodRead(restarts, d)'
               /\ restarts => Whole'
  BY DEF PodsRead, PodRead
<1>4. Unique(want) /\ Unique(cluster)
  BY <1>0, WantUnique DEF Common, ClusterRendered
<1>5. ASSUME NEW t \in SUBSET Toggles, Deploy(t)
      PROVE  (\A d \in cluster' : Workload(d) => PodRead(restarts, d)') /\ (restarts => Whole')
  <2>1. cluster' \subseteq cluster /\ pods' = pods /\ step = "idle" /\ step' = "settings"
    BY <1>5 DEF Deploy
  <2>2. ConfigsIn(cluster') = ConfigsIn(cluster)
    BY <1>5 DEF Deploy, ConfigsIn
  <2>3. ASSUME NEW d \in cluster', Workload(d) PROVE PodRead(restarts, d)'
    BY <1>2, <2>1, <2>3 DEF PodRead
  <2>4. restarts => Whole'
    BY <1>0, <2>1, <2>2, ReadsConfigs DEF Whole
  <2>. QED BY <2>3, <2>4
<1>6. ASSUME Settings
      PROVE  (\A d \in cluster' : Workload(d) => PodRead(restarts, d)') /\ (restarts => Whole')
  <2>1. /\ pods' = pods /\ step = "settings" /\ step' = "workloads"
        /\ cluster' = Put({d \in want : ~HasPod(d)})
    BY <1>6 DEF Settings
  <2>2. \A d \in cluster' : Workload(d) => d \in cluster
    BY <2>1, PutIs DEF Workload, HasPod
  <2>3. ASSUME NEW d \in cluster', Workload(d) PROVE PodRead(restarts, d)'
    BY <1>2, <2>1, <2>2, <2>3 DEF PodRead
  <2>. QED BY <2>1, <2>3 DEF Whole
<1>7. ASSUME Create
      PROVE  (\A d \in cluster' : Workload(d) => PodRead(restarts, d)') /\ (restarts => Whole')
  <2> DEFINE new == {d \in Pods : Live(d) = {}}
             made == {Key(d) : d \in {e \in new : Workload(e)}}
  <2>1. /\ cluster' = Put(new) /\ step = "workloads" /\ step' = step /\ want' = want
        /\ pods' = [k \in DOMAIN pods \cup made |->
                     IF k \in made THEN Values(cluster, CHOOSE d \in new : Key(d) = k) ELSE pods[k]]
    BY <1>7 DEF Create
  <2>2. \A d \in new : d \in want /\ HasPod(d)
    BY DEF Pods
  <2>3. ConfigsIn(cluster') = ConfigsIn(cluster)
    BY <1>0, <1>4, <2>1, PutPods
  <2>4. \A d \in new : Workload(d) => Key(d) \in made
    OBVIOUS
  <2>5. \A k \in made : \E d \in new : Key(d) = k
    OBVIOUS
  <2> HIDE DEF new, made
  <2>6. ASSUME NEW d \in cluster', Workload(d) PROVE PodRead(restarts, d)'
    <3>1. CASE d \in new
      <4>1. (CHOOSE x \in new : Key(x) = Key(d)) = d
        BY <1>4, <2>2, <3>1 DEF Unique
      <4>2. Key(d) \in DOMAIN pods' /\ pods'[Key(d)] = Values(cluster, d)
        BY <2>1, <2>4, <2>6, <3>1, <4>1
      <4>3. Values(cluster, d) = Values(want, d) /\ d \in want
        BY <1>0, <2>1, <2>2, <2>6, <3>1, ReadsItsOwn
      <4>4. Due(d, Values(want, d))
        BY <1>0, <2>1, <4>3 DEF Due, Common, WantRendered
      <4>. QED BY <4>2, <4>3, <4>4 DEF PodRead
    <3>2. CASE d \in cluster /\ \A e \in new : Key(d) # Key(e)
      <4>1. Key(d) \notin made
        BY <2>5, <3>2
      <4>2. PodRead(restarts, d)
        BY <1>2, <2>6, <3>2
      <4>3. Key(d) \in DOMAIN pods' /\ pods'[Key(d)] = pods[Key(d)]
        BY <2>1, <4>1, <4>2 DEF PodRead
      <4>4. Values(cluster', d) = Values(cluster, d)
        BY <2>3, ReadsConfigs
      <4>. QED BY <2>1, <4>2, <4>3, <4>4 DEF PodRead
    <3>. QED BY <2>1, <2>6, <3>1, <3>2, PutIs
  <2>. QED BY <2>1, <2>6 DEF Whole
<1>8. ASSUME Finish
      PROVE  (\A d \in cluster' : Workload(d) => PodRead(restarts, d)') /\ (restarts => Whole')
  <2>1. /\ step = "workloads" /\ step' = "idle" /\ cluster' = want /\ want' = want /\ Pods \subseteq cluster
        /\ pods' = [k \in DOMAIN pods \cap {Key(d) : d \in want} |-> pods[k]]
    BY <1>8 DEF Finish
  <2>2. PICK t \in Toggled, hold \in BOOLEAN : want = Installs(t, hold)
    BY <1>0, <2>1 DEF Common, WantRendered
  <2>3. ASSUME NEW d \in cluster', Workload(d) PROVE PodRead(restarts, d)' /\ Due(d, Values(want, d))
    <3>1. d \in want /\ d \in cluster
      BY <2>1, <2>3 DEF Pods, Workload, HasPod
    <3>2. PodRead(restarts, d)
      BY <1>2, <2>3, <3>1
    <3>3. Values(cluster, d) = Values(want, d)
      BY <1>0, <2>1, <2>3, <3>1, ReadsItsOwn
    <3>4. Due(d, Values(want, d))
      BY <2>2, <3>1 DEF Due
    <3>5. Due(d, pods[Key(d)])
      BY <3>2, <3>3, <3>4 DEF PodRead
    <3>6. Key(d) \in DOMAIN pods' /\ pods'[Key(d)] = pods[Key(d)]
      BY <2>1, <3>1, <3>2 DEF PodRead
    <3>. QED BY <3>4, <3>5, <3>6 DEF PodRead
  <2>4. Whole'
    BY <2>1, <2>3 DEF Whole
  <2>. QED BY <2>3, <2>4
<1>9. ASSUME NEW w \in want, Patch(w)
      PROVE  (\A d \in cluster' : Workload(d) => PodRead(restarts, d)') /\ (restarts => Whole')
  <2>1. /\ step = "workloads" /\ w \in Pods \ cluster /\ want' = want /\ HasPod(w)
        /\ \E e \in cluster : Key(e) = Key(w)
    BY <1>9 DEF Patch, Pods, Live
  <2>2. Workload(w)
    <3>1. step' # "refused"
      BY <1>0 DEF Common, WantRendered
    <3>. QED BY <1>9, <3>1 DEF Patch
  <2>3. /\ cluster' = Put({w}) /\ step' = step /\ {w} \subseteq Pods
        /\ pods' = IF ~\E e \in Live(w) : Template(e) = Template(w)
                   THEN [pods EXCEPT ![Key(w)] = Values(cluster, w)] ELSE pods
    BY <1>9, <2>1, <2>2 DEF Patch
  <2>4. ConfigsIn(cluster') = ConfigsIn(cluster)
    BY <1>0, <1>4, <2>1, <2>3, PutPods
  <2>5. PICK t \in Toggled, hold \in BOOLEAN : want = Installs(t, hold)
    BY <1>0, <2>1 DEF Common, WantRendered
  <2>6. Values(cluster, w) = Values(want, w) /\ Due(w, Values(want, w))
    BY <1>0, <2>1, <2>2, <2>5, ReadsItsOwn DEF Due
  <2>7. PICK l \in cluster : Key(l) = Key(w)
    BY <2>1
  <2>8. Workload(l) /\ PodRead(restarts, l) /\ Live(w) = {l}
    <3>1. Workload(l)
      BY <2>2, <2>7 DEF Workload, Key
    <3>2. Live(w) = {l}
      BY <1>4, <2>7, <3>1 DEF Live, Unique, Workload, HasPod, Key
    <3>. QED BY <1>2, <3>1, <3>2
  <2>9. PodRead(restarts, w)'
    <3>1. CASE Template(l) = Template(w)
      <4>1. pods' = pods
        BY <2>3, <2>8, <3>1
      <4>2. IsDoc(l) /\ IsDoc(w)
        <5>1. IsDoc(w)
          BY <1>0, WantUnique DEF AreDocs
        <5>2. PICK u \in Toggled, held \in BOOLEAN : l \in Installs(u, held)
          BY <1>0, <2>8 DEF Common, ClusterRendered, Workload, HasPod
        <5>3. IsDoc(l)
          BY <5>2, WantedIs DEF AreDocs
        <5>. QED BY <5>1, <5>3
      <4>3. Values(cluster, l) = Values(cluster, w)
        BY <3>1, <4>2, TemplateIs
      <4>4. CASE Due(l, pods[Key(l)])
        <5>1. Due(w, pods[Key(w)])
          BY <2>2, <2>5, <2>7, <3>1, <4>4, DueIs
        <5>. QED BY <2>7, <2>8, <4>1, <5>1 DEF PodRead
      <4>5. CASE pods[Key(l)] = Values(cluster, l)
        BY <2>6, <2>7, <2>8, <4>1, <4>3, <4>5 DEF PodRead
      <4>. QED BY <2>8, <4>4, <4>5 DEF PodRead
    <3>2. CASE Template(l) # Template(w)
      <4>1. pods' = [pods EXCEPT ![Key(w)] = Values(cluster, w)]
        BY <2>3, <2>8, <3>2
      <4>2. Key(w) \in DOMAIN pods
        BY <2>7, <2>8 DEF PodRead
      <4>3. Key(w) \in DOMAIN pods' /\ pods'[Key(w)] = Values(want, w)
        BY <2>6, <4>1, <4>2
      <4>. QED BY <2>6, <4>3 DEF PodRead
    <3>. QED BY <3>1, <3>2
  <2>10. ASSUME NEW d \in cluster, Workload(d), Key(d) # Key(w) PROVE PodRead(restarts, d)'
    <3>1. PodRead(restarts, d)
      BY <1>2, <2>10
    <3>2. Key(d) \in DOMAIN pods' /\ pods'[Key(d)] = pods[Key(d)]
      BY <2>3, <2>10, <3>1 DEF PodRead
    <3>3. Values(cluster', d) = Values(cluster, d)
      BY <2>4, ReadsConfigs
    <3>. QED BY <2>3, <3>1, <3>2, <3>3 DEF PodRead
  <2>11. \A d \in cluster' : d = w \/ (d \in cluster /\ Key(d) # Key(w))
    BY <2>3, PutIs
  <2>. QED BY <2>1, <2>3, <2>9, <2>10, <2>11 DEF Whole
<1>10. ASSUME Cut
       PROVE  (\A d \in cluster' : Workload(d) => PodRead(restarts, d)') /\ (restarts => Whole')
  <2>1. ~restarts
    BY <1>10
  <2>2. cluster' = cluster /\ pods' = pods
    BY <1>10 DEF Cut
  <2>. QED BY <1>2, <2>1, <2>2 DEF PodRead
<1>11. ASSUME NEW p \in cluster, PodRestarts(p)
       PROVE  (\A d \in cluster' : Workload(d) => PodRead(restarts, d)') /\ (restarts => Whole')
  <2>1. restarts
    BY <1>11
  <2>2. /\ Workload(p) /\ Key(p) \in DOMAIN pods /\ cluster' = cluster /\ step' = step
        /\ pods' = [pods EXCEPT ![Key(p)] = Values(cluster, p)]
    BY <1>11 DEF PodRestarts
  <2>3. ASSUME NEW d \in cluster', Workload(d) PROVE PodRead(restarts, d)'
    <3>1. PodRead(restarts, d)
      BY <1>2, <2>2, <2>3
    <3>2. CASE d = p
      <4>1. Key(d) \in DOMAIN pods' /\ pods'[Key(d)] = Values(cluster, d)
        BY <2>2, <3>2
      <4>2. step = "workloads" \/ Due(d, Values(cluster, d))
        BY <1>0, <2>1, <2>2, <2>3 DEF Whole
      <4>. QED BY <2>1, <2>2, <4>1, <4>2 DEF PodRead
    <3>3. CASE d # p
      <4>1. Key(d) # Key(p)
        BY <1>4, <2>2, <2>3, <3>3 DEF Unique, Workload, HasPod
      <4>2. Key(d) \in DOMAIN pods' /\ pods'[Key(d)] = pods[Key(d)]
        BY <2>2, <3>1, <4>1 DEF PodRead
      <4>. QED BY <2>2, <3>1, <4>2 DEF PodRead
    <3>. QED BY <3>2, <3>3
  <2>. QED BY <1>0, <2>2, <2>3 DEF Whole
<1>12. ASSUME UNCHANGED rolloutVars
       PROVE  (\A d \in cluster' : Workload(d) => PodRead(restarts, d)') /\ (restarts => Whole')
  BY <1>0, <1>2, <1>12 DEF rolloutVars, PodRead, Whole
<1>. QED BY <1>5, <1>6, <1>7, <1>8, <1>9, <1>10, <1>11, <1>12 DEF RolloutNext

LEMMA PodsAreCurrent ==
  ASSUME WellFormed, ConfigsApart, ConfigsBelong, ConfigsStay, NEW restarts \in BOOLEAN, PodInv(restarts)
  PROVE  PodsRunCurrent
<1> SUFFICES ASSUME finished, NEW d \in cluster, Workload(d) PROVE pods[Key(d)] = Values(cluster, d)
  BY DEF PodsRunCurrent
<1>1. cluster = want /\ step = "idle"
  BY DEF PodInv, Common, WantRendered
<1>2. PICK t \in Toggled, hold \in BOOLEAN : want = Installs(t, hold)
  BY DEF PodInv, Common, WantRendered
<1>3. Due(d, pods[Key(d)])
  BY <1>1 DEF PodInv, PodsRead
<1>. QED BY <1>1, <1>2, <1>3, DueIs

\* After a deploy that ends well every pod runs with its ConfigMaps as they are, whatever parts of the
\* chart were turned on and off before, if in between only deploys were cut off ...
THEOREM CutsLeaveNoneStale ==
  ASSUME WellFormed, JobsStay, ConfigsApart, ConfigsBelong, ConfigsStay
  PROVE  RolloutSpec /\ [][~\E d \in cluster : PodRestarts(d)]_rolloutVars => []PodsRunCurrent
<1>1. RolloutInit => PodInv(FALSE)
  BY PodInit
<1>2. PodInv(FALSE) /\ [RolloutNext]_rolloutVars /\ [~\E d \in cluster : PodRestarts(d)]_rolloutVars => PodInv(FALSE)'
  <2>1. CASE UNCHANGED rolloutVars
    BY <2>1 DEF rolloutVars, PodInv, Common, WantRendered, ClusterRendered, JobsAgree, ConfigsThere, PodsRead
  <2>2. CASE ~UNCHANGED rolloutVars
    BY <2>2, PodNext
  <2>. QED BY <2>1, <2>2
<1>3. PodInv(FALSE) => PodsRunCurrent
  BY PodsAreCurrent
<1>. QED BY <1>1, <1>2, <1>3, PTL DEF RolloutSpec

\* ... or if only pods restarted by themselves.
THEOREM RestartsLeaveNoneStale ==
  ASSUME WellFormed, JobsStay, ConfigsApart, ConfigsBelong, ConfigsStay
  PROVE  RolloutSpec /\ [][~Cut]_rolloutVars => []PodsRunCurrent
<1>1. RolloutInit => PodInv(TRUE)
  BY PodInit
<1>2. PodInv(TRUE) /\ [RolloutNext]_rolloutVars /\ [~Cut]_rolloutVars => PodInv(TRUE)'
  <2>1. CASE UNCHANGED rolloutVars
    BY <2>1 DEF rolloutVars, PodInv, Common, WantRendered, ClusterRendered, JobsAgree, ConfigsThere, PodsRead, Whole
  <2>2. CASE ~UNCHANGED rolloutVars
    BY <2>2, PodNext
  <2>. QED BY <2>1, <2>2
<1>3. PodInv(TRUE) => PodsRunCurrent
  BY PodsAreCurrent
<1>. QED BY <1>1, <1>2, <1>3, PTL DEF RolloutSpec

-----------------------------------------------------------------------------
(* Lists of variables. *)

LEMMA ListOf == \A S : \A s \in Seq(S) : IsList(s)
<1> SUFFICES ASSUME NEW S, NEW s \in Seq(S) PROVE s \in Seq(Range(s))
  BY DEF IsList
<1>1. Len(s) \in Nat /\ s \in [1..Len(s) -> Range(s)]
  BY DEF Range
<1>. QED BY <1>1

LEMMA Lists == \A s, t : IsList(s) /\ IsList(t) => IsList(s \o t)
<1> SUFFICES ASSUME NEW s, NEW t, IsList(s), IsList(t) PROVE IsList(s \o t)
  OBVIOUS
<1> DEFINE S == Range(s) \cup Range(t)
<1>1. s \in Seq(S) /\ t \in Seq(S)
  BY DEF IsList
<1>2. s \o t \in Seq(S)
  BY <1>1
<1>. QED BY <1>2, ListOf

\* Each name is there once.
Once(env) == \A i, j \in DOMAIN env : env[i][1] = env[j][1] => i = j

\* An env that has every variable of another, with its value.
EnvKeeps(old, new) ==
  /\ IsEnv(new)
  /\ Once(old) => Once(new)
  /\ \A name \in Names(old) : name \in Names(new) /\ ValueOf(new, name) = ValueOf(old, name)

\* A set in some order: each element once.
LEMMA SetInOrder ==
  ASSUME NEW S, IsFiniteSet(S)
  PROVE  /\ SetToSeq(S) \in Seq(S) /\ Len(SetToSeq(S)) = Cardinality(S)
         /\ \A i, j \in DOMAIN SetToSeq(S) : SetToSeq(S)[i] = SetToSeq(S)[j] => i = j
         /\ \A x \in S : \E i \in DOMAIN SetToSeq(S) : SetToSeq(S)[i] = x
<1> DEFINE n == Cardinality(S)
           f == SetToSeq(S)
<1>1. n \in Nat /\ \E g : g \in Bijection(1..n, S)
  BY FS_CardinalityType DEF ExistsBijection
<1>2. \E g \in [1..n -> S] : IsInjective(g)
  BY <1>1 DEF Bijection, Injection
<1>3. f \in [1..n -> S] /\ IsInjective(f)
  BY <1>2 DEF SetToSeq
<1>4. f \in Injection(1..n, S)
  BY <1>3 DEF Injection
<1>5. IsFiniteSet(1..n) /\ Cardinality(1..n) = n
  BY <1>1, FS_Interval
<1> HIDE DEF f, n
<1>6. f \in Surjection(1..n, S)
  BY <1>4, <1>5, FS_Injection DEF n
<1>7. \A x \in S : \E i \in 1..n : f[i] = x
  BY <1>6 DEF Surjection
<1>8. f \in Seq(S) /\ Len(f) = n /\ DOMAIN f = 1..n
  BY <1>1, <1>3
<1>. QED BY <1>3, <1>7, <1>8 DEF f, n, IsInjective

\* A set of places has a last one: how many of them follow a place is another number for each.
LEMMA LastPlace ==
  ASSUME NEW n \in Nat, NEW T, T \subseteq 1..n, T # {}
  PROVE  \E i \in T : \A j \in T : j <= i
<1> DEFINE After(i) == {j \in T : j > i}
           m == Cardinality(T)
           c == [i \in T |-> Cardinality(After(i))]
<1>0. T \subseteq Int
  OBVIOUS
<1>1. IsFiniteSet(T) /\ m \in Nat
  <2>1. IsFiniteSet(1..n)
    BY FS_Interval
  <2>2. IsFiniteSet(T)
    BY <2>1, FS_Subset
  <2>. QED BY <2>2, FS_CardinalityType
<1>2. ASSUME NEW i \in T
      PROVE  IsFiniteSet(After(i)) /\ c[i] \in Nat /\ c[i] = Cardinality(After(i)) /\ c[i] <= m /\ c[i] # m
  <2>1. After(i) \in SUBSET T /\ i \notin After(i)
    OBVIOUS
  <2>2. c[i] = Cardinality(After(i))
    OBVIOUS
  <2> HIDE DEF After, c
  <2>3. IsFiniteSet(After(i)) /\ Cardinality(After(i)) <= m /\ (m = Cardinality(After(i)) => T = After(i))
    BY <1>1, <2>1, FS_Subset
  <2>. QED BY <2>1, <2>2, <2>3, FS_CardinalityType
<1> HIDE DEF m
<1>3. ASSUME NEW i \in T, NEW j \in T, i < j PROVE c[j] # c[i]
  <2>1. After(j) \in SUBSET After(i) /\ j \in After(i) /\ j \notin After(j)
    <3>1. \A x \in T : x > j => x > i
      BY <1>0, <1>3
    <3>2. j > i /\ ~(j > j)
      BY <1>0, <1>3
    <3>. QED BY <3>1, <3>2
  <2> HIDE DEF After, c
  <2>2. Cardinality(After(i)) = Cardinality(After(j)) => After(i) = After(j)
    BY <1>2, <2>1, FS_Subset
  <2>. QED BY <1>2, <2>1, <2>2
<1>4. c \in [T -> 0..(m - 1)]
  <2>1. \A i \in T : c[i] \in 0..(m - 1)
    <3> HIDE DEF c, After
    <3>. QED BY <1>1, <1>2
  <2>. QED BY <2>1
<1>5. \A i, j \in T : c[i] = c[j] => i = j
  <2> HIDE DEF c
  <2>. QED BY <1>0, <1>3
<1>6. c \in Injection(T, 0..(m - 1))
  BY <1>4, <1>5 DEF Injection, IsInjective
<1>7. m > 0
  BY <1>1, FS_EmptySet DEF m
<1>8. IsFiniteSet(0..(m - 1)) /\ Cardinality(0..(m - 1)) = m
  BY <1>1, <1>7, FS_Interval
<1> HIDE DEF c
<1>9. c \in Surjection(T, 0..(m - 1))
  BY <1>6, <1>8, FS_Injection DEF m
<1>10. PICK i \in T : c[i] = 0
  BY <1>1, <1>7, <1>9 DEF Surjection
<1>11. After(i) = {}
  <2> HIDE DEF After
  <2>. QED BY <1>2, <1>10, FS_EmptySet
<1>. QED BY <1>11

\* Each name of an env is set a last time.
LEMMA LastSet ==
  ASSUME NEW Items, NEW env \in Seq(Items), NEW name \in Names(env)
  PROVE  \E i \in DOMAIN env : env[i][1] = name /\ IsLast(env, i)
<1> DEFINE places == {i \in DOMAIN env : env[i][1] = name}
<1>1. Len(env) \in Nat /\ DOMAIN env = 1..Len(env)
  OBVIOUS
<1>2. places \subseteq 1..Len(env) /\ places # {}
  BY <1>1 DEF Names
<1>3. PICK i \in places : \A j \in places : j <= i
  <2> HIDE DEF places
  <2>. QED BY <1>1, <1>2, LastPlace
<1>. QED BY <1>1, <1>3 DEF IsLast

\* The last one is the value.
LEMMA LastIsValue ==
  ASSUME NEW Items, NEW env \in Seq(Items), NEW i \in DOMAIN env, IsLast(env, i)
  PROVE  ValueOf(env, env[i][1]) = env[i][2]
<1> DEFINE places == {j \in DOMAIN env : env[j][1] = env[i][1]}
           top == CHOOSE k \in places : \A j \in places : j <= k
<1>1. DOMAIN env \subseteq Int
  OBVIOUS
<1>2. i \in places /\ \A j \in places : j <= i
  BY <1>1 DEF IsLast
<1>3. top \in places /\ \A j \in places : j <= top
  BY <1>2
<1> HIDE DEF top
<1>4. top = i
  BY <1>1, <1>2, <1>3
<1>. QED BY <1>4 DEF ValueOf, top

LEMMA OnceIsLast ==
  ASSUME NEW Items, NEW env \in Seq(Items), NEW i \in DOMAIN env, Once(env)
  PROVE  IsLast(env, i) /\ ValueOf(env, env[i][1]) = env[i][2]
<1>1. IsLast(env, i)
  BY DEF Once, IsLast
<1>. QED BY <1>1, LastIsValue

\* As many entries as names.
LEMMA OnceCounts ==
  ASSUME NEW Items, NEW env \in Seq(Items), Once(env)
  PROVE  Len(env) = Cardinality(Names(env))
<1> DEFINE f == [i \in 1..Len(env) |-> env[i][1]]
<1>1. Len(env) \in Nat /\ DOMAIN env = 1..Len(env)
  OBVIOUS
<1>2. f \in [1..Len(env) -> Names(env)]
  BY <1>1 DEF Names
<1>3. f \in Injection(1..Len(env), Names(env))
  BY <1>1, <1>2 DEF Injection, IsInjective, Once
<1>4. f \in Surjection(1..Len(env), Names(env))
  BY <1>1, <1>2 DEF Surjection, Names
<1>5. ExistsBijection(1..Len(env), Names(env))
  BY <1>3, <1>4 DEF ExistsBijection, Bijection
<1>. QED BY <1>1, <1>5, FS_CountingElements

LEMMA EnvItself == \A env : IsEnv(env) => EnvKeeps(env, env)
BY DEF EnvKeeps

LEMMA EnvTrans == \A a, b, c : EnvKeeps(a, b) /\ EnvKeeps(b, c) => EnvKeeps(a, c)
BY DEF EnvKeeps

\* What is added to an env: each new name with its value, once.
LEMMA EnvAppended ==
  ASSUME NEW Items, \A x \in Items : x = <<x[1], x[2]>>, NEW env \in Seq(Items), NEW added \in Seq(Items),
         \A i \in DOMAIN added : added[i][1] \notin Names(env),
         \A i, j \in DOMAIN added : added[i][1] = added[j][1] => i = j
  PROVE  /\ EnvKeeps(env, env \o added)
         /\ \A i \in DOMAIN added : added[i][1] \in Names(env \o added)
<1> DEFINE m == env \o added
           n == Len(env)
<1>1. /\ n \in Nat /\ Len(added) \in Nat /\ m \in Seq(Items) /\ Len(m) = n + Len(added)
      /\ DOMAIN env = 1..n /\ DOMAIN added = 1..Len(added) /\ DOMAIN m = 1..Len(m)
  OBVIOUS
<1>2. \A i \in 1..n : m[i] = env[i]
  OBVIOUS
<1>3. \A i \in 1..Len(m) : i > n => i - n \in DOMAIN added /\ m[i] = added[i - n]
  OBVIOUS
<1>4. \A i \in DOMAIN added : n + i \in 1..Len(m) /\ m[n + i] = added[i]
  OBVIOUS
<1> HIDE DEF m, n
<1>5. \A i \in DOMAIN env : i \in DOMAIN m /\ m[i] = env[i] /\ env[i][1] \in Names(env)
  BY <1>1, <1>2 DEF Names
<1>6. ASSUME NEW name \in Names(env)
      PROVE  name \in Names(m) /\ ValueOf(m, name) = ValueOf(env, name)
  <2>1. PICK i \in DOMAIN env : env[i][1] = name /\ IsLast(env, i)
    BY LastSet
  <2>2. IsLast(m, i)
    <3> SUFFICES ASSUME NEW j \in DOMAIN m, j > i PROVE m[j][1] # m[i][1]
      BY DEF IsLast
    <3>1. CASE j <= n
      BY <1>1, <1>2, <2>1, <3>1 DEF IsLast
    <3>2. CASE j > n
      <4>1. j - n \in DOMAIN added /\ m[j] = added[j - n]
        BY <1>1, <1>3, <3>2
      <4>. QED BY <1>5, <2>1, <4>1
    <3>. QED BY <1>1, <3>1, <3>2
  <2>3. i \in DOMAIN m /\ m[i] = env[i]
    BY <1>5, <2>1
  <2>4. ValueOf(m, m[i][1]) = m[i][2]
    BY <1>1, <2>2, <2>3, LastIsValue
  <2>5. ValueOf(env, env[i][1]) = env[i][2]
    BY <2>1, LastIsValue
  <2>6. name \in Names(m)
    BY <2>1, <2>3 DEF Names
  <2>. QED BY <2>1, <2>3, <2>4, <2>5, <2>6
<1>7. Once(env) => Once(m)
  <2> SUFFICES ASSUME Once(env), NEW i \in DOMAIN m, NEW j \in DOMAIN m, m[i][1] = m[j][1] PROVE i = j
    BY DEF Once
  <2>1. CASE i <= n /\ j <= n
    <3>1. i \in DOMAIN env /\ j \in DOMAIN env
      BY <1>1, <2>1
    <3>. QED BY <1>5, <3>1 DEF Once
  <2>2. CASE i > n /\ j > n
    <3>1. /\ i - n \in DOMAIN added /\ m[i] = added[i - n]
          /\ j - n \in DOMAIN added /\ m[j] = added[j - n]
      BY <1>1, <1>3, <2>2
    <3>2. i - n = j - n
      BY <3>1
    <3>. QED BY <1>1, <3>2
  <2>3. CASE i <= n /\ j > n
    <3>1. i \in DOMAIN env
      BY <1>1, <2>3
    <3>2. j - n \in DOMAIN added /\ m[j] = added[j - n]
      BY <1>1, <1>3, <2>3
    <3>. QED BY <1>5, <3>1, <3>2
  <2>4. CASE i > n /\ j <= n
    <3>1. j \in DOMAIN env
      BY <1>1, <2>4
    <3>2. i - n \in DOMAIN added /\ m[i] = added[i - n]
      BY <1>1, <1>3, <2>4
    <3>. QED BY <1>5, <3>1, <3>2
  <2>. QED BY <1>1, <2>1, <2>2, <2>3, <2>4
<1>8. \A i \in DOMAIN added : added[i][1] \in Names(m)
  BY <1>1, <1>4 DEF Names
<1>9. IsEnv(m)
  BY <1>1, ListOf DEF IsEnv
<1>. QED BY <1>6, <1>7, <1>8, <1>9 DEF EnvKeeps, m

\* What _merge_env makes of an env.
LEMMA EnvMerged ==
  ASSUME NEW env, IsEnv(env), NEW values, IsFiniteSet(DOMAIN values)
  PROVE  EnvKeeps(env, MergeEnv(env, values)) /\ DOMAIN values \subseteq Names(MergeEnv(env, values))
<1> DEFINE D == DOMAIN values \ Names(env)
           S == {<<name, values[name]>> : name \in D}
           added == SetToSeq(S)
           f == [name \in D |-> <<name, values[name]>>]
           Items == Range(env) \cup S
<1>1. MergeEnv(env, values) = env \o added
  BY DEF MergeEnv
<1>0. env \in Seq(Range(env)) /\ \A x \in Range(env) : x = <<x[1], x[2]>>
  BY DEF IsEnv, IsList, Range
<1>2. \A x \in S : x[1] \in D /\ x = <<x[1], values[x[1]]>>
  OBVIOUS
<1>3. IsFiniteSet(S)
  <2>1. IsFiniteSet(D)
    BY FS_Subset
  <2>2. f \in Surjection(D, S)
    BY DEF Surjection
  <2> HIDE DEF f, D, S
  <2>. QED BY <2>1, <2>2, FS_Surjection
<1>4. \A name \in D : <<name, values[name]>> \in S
  OBVIOUS
<1> HIDE DEF S
<1>5. /\ added \in Seq(S) /\ \A i, j \in DOMAIN added : added[i] = added[j] => i = j
      /\ \A x \in S : \E i \in DOMAIN added : added[i] = x
  BY <1>3, SetInOrder
<1> HIDE DEF added
<1>6. /\ env \in Seq(Items) /\ added \in Seq(Items) /\ \A x \in Items : x = <<x[1], x[2]>>
      /\ \A i \in DOMAIN added : added[i] \in S
  BY <1>0, <1>2, <1>5
<1> HIDE DEF Items
<1>7. \A i \in DOMAIN added : added[i][1] \notin Names(env)
  BY <1>2, <1>6
<1>8. \A i, j \in DOMAIN added : added[i][1] = added[j][1] => i = j
  BY <1>2, <1>5, <1>6
<1>9. EnvKeeps(env, env \o added) /\ \A i \in DOMAIN added : added[i][1] \in Names(env \o added)
  BY <1>6, <1>7, <1>8, EnvAppended
<1>10. ASSUME NEW name \in DOMAIN values PROVE name \in Names(env \o added)
  <2>1. CASE name \in Names(env)
    BY <1>9, <2>1 DEF EnvKeeps
  <2>2. CASE name \in D
    <3>1. PICK i \in DOMAIN added : added[i] = <<name, values[name]>>
      BY <1>4, <1>5, <2>2
    <3>. QED BY <1>9, <3>1
  <2>. QED BY <2>1, <2>2
<1>. QED BY <1>1, <1>9, <1>10

\* What drop_duplicate_env makes of an env.
LEMMA EnvDeduped ==
  ASSUME NEW env, IsEnv(env)
  PROVE  EnvKeeps(env, LastOnly(env)) /\ Once(LastOnly(env))
<1> DEFINE D == {i \in DOMAIN env : IsLast(env, i)}
           S == {env[i] : i \in D}
           m == SetToSeq(S)
           f == [i \in D |-> env[i]]
           Items == Range(env)
<1>1. LastOnly(env) = m
  BY DEF LastOnly
<1>2. env \in Seq(Items) /\ S \subseteq Items /\ \A x \in Items : x = <<x[1], x[2]>>
  BY DEF IsEnv, IsList, Range
<1> HIDE DEF Items
<1>3. IsFiniteSet(S)
  <2>1. DOMAIN env = 1..Len(env) /\ Len(env) \in Nat
    BY <1>2
  <2>2. IsFiniteSet(D)
    <3>1. D \in SUBSET (1..Len(env)) /\ IsFiniteSet(1..Len(env))
      BY <2>1, FS_Interval
    <3>. QED BY <3>1, FS_Subset
  <2>3. f \in Surjection(D, S)
    BY DEF Surjection
  <2> HIDE DEF f, D, S
  <2>. QED BY <2>2, <2>3, FS_Surjection
<1>4. \A x \in S : \E i \in D : x = env[i]
  OBVIOUS
<1>5. \A i \in D : env[i] \in S
  OBVIOUS
<1>6. \A x \in S : x[1] \in Names(env) /\ ValueOf(env, x[1]) = x[2]
  BY <1>2, <1>4, LastIsValue DEF Names
<1>7. \A x, y \in S : x[1] = y[1] => x = y
  BY <1>2, <1>6
<1> HIDE DEF S
<1>8. /\ m \in Seq(S) /\ \A i, j \in DOMAIN m : m[i] = m[j] => i = j
      /\ \A x \in S : \E i \in DOMAIN m : m[i] = x
  BY <1>3, SetInOrder
<1> HIDE DEF m
<1>9. m \in Seq(Items) /\ \A i \in DOMAIN m : m[i] \in S
  BY <1>2, <1>8
<1>10. Once(m)
  BY <1>7, <1>8, <1>9 DEF Once
<1>11. ASSUME NEW name \in Names(env)
       PROVE  name \in Names(m) /\ ValueOf(m, name) = ValueOf(env, name)
  <2>1. PICK i \in DOMAIN env : env[i][1] = name /\ IsLast(env, i)
    BY <1>2, LastSet
  <2>2. PICK k \in DOMAIN m : m[k] = env[i]
    BY <1>5, <1>8, <2>1
  <2>3. ValueOf(m, m[k][1]) = m[k][2]
    BY <1>9, <1>10, OnceIsLast
  <2>4. ValueOf(env, env[i][1]) = env[i][2]
    BY <1>2, <2>1, LastIsValue
  <2>5. name \in Names(m)
    BY <2>1, <2>2 DEF Names
  <2>. QED BY <2>1, <2>2, <2>3, <2>4, <2>5
<1>12. IsEnv(m)
  BY <1>2, <1>9, ListOf DEF IsEnv
<1>. QED BY <1>1, <1>10, <1>11, <1>12 DEF EnvKeeps

-----------------------------------------------------------------------------
(* What a fixup makes of containers. *)

\* What the fixups make of a container: its variables stay, its limit too unless Keycloak's resources
\* replace it, and it runs the same but for a loop.
SameRun(b, c) == c.image = b.image /\ c.command = b.command /\ c.args = b.args /\ c.first = b.first
Looped(e, b, c) ==
  /\ HasPod(e) /\ IsRetried(e, b) /\ Knows(b) /\ ~Wraps(CommandOf(b))
  /\ c.image = b.image /\ c.command = Loop \o <<"retry">> \o CommandOf(b) \o b.args /\ c.args = <<>>
Raised(e, b) == e.kind = "Keycloak" /\ e.resources = "limited" /\ b.name = "keycloak"
Lowered(e, b) == e.kind = "Keycloak" /\ e.resources \notin {"none", "limited"} /\ b.name = "keycloak"
Follows(e, b, c) ==
  /\ IsTyped(b) /\ IsTyped(c) /\ c.name = b.name /\ c.first = b.first
  /\ EnvKeeps(b.env, c.env)
  /\ b.memory => c.memory \/ Lowered(e, b)
  /\ c.memory => b.memory \/ Raised(e, b)
  /\ SameRun(b, c) \/ Looped(e, b, c) \/ (Serves(e, b) /\ c.command # <<>>)

\* The container that an operator builds is added to its override.
Fresh(e, c) ==
  /\ e.kind = "Prometheus" /\ c.name = "prometheus" /\ \A b \in e.containers : b.name # "prometheus"
  /\ IsTyped(c) /\ Once(c.env) /\ (e.resources = "limited" => c.memory)

Twin(e, d) == d.kind = e.kind /\ d.name = e.name /\ d.base = e.base /\ d.resources = e.resources
Grows(e, d) ==
  /\ Twin(e, d)
  /\ \A c \in d.containers : Fresh(e, c) \/ \E b \in e.containers : Follows(e, b, c)
  /\ \A b \in e.containers : \E c \in d.containers : Follows(e, b, c)

\* The same, of a chart's documents.
Typed(A) == \A d \in A : Runtime(d) => \A c \in d.containers : IsTyped(c)
Kept(A, B) == \A d \in B : Runtime(d) => \E e \in A : Grows(e, d)

LEMMA KeptTyped == \A A, B : Kept(A, B) => Typed(B)
BY DEF Kept, Typed, Grows, Fresh, Follows

Preceded(l, x, y) ==
  /\ (l \o x) \o y = l \o (x \o y) /\ l \o (x \o y) # <<>> /\ (l \o (x \o y)) \o <<>> = l \o (x \o y)
  /\ Len(l \o (x \o y)) > 2 /\ (l \o (x \o y))[3] = l[3]

LEMMA Prefixed ==
  ASSUME NEW S, NEW l \in Seq(S), NEW x \in Seq(S), NEW y \in Seq(S), Len(l) = 4
  PROVE  Preceded(l, x, y)
<1>1. (l \o x) \o y = l \o (x \o y)
  OBVIOUS
<1>2. x \o y \in Seq(S)
  OBVIOUS
<1> DEFINE r == x \o y
<1> HIDE DEF r
<1>3. r \in Seq(S)
  BY <1>2 DEF r
<1>4. l \o r \in Seq(S) /\ Len(l \o r) > 2 /\ (l \o r)[3] = l[3]
  <2>1. /\ l \o r \in Seq(S) /\ Len(l \o r) = Len(l) + Len(r)
        /\ \A i \in 1..(Len(l) + Len(r)) : (l \o r)[i] = IF i <= Len(l) THEN l[i] ELSE r[i - Len(l)]
    BY <1>3, ConcatProperties
  <2>2. Len(r) \in Nat
    BY <1>3
  <2>. QED BY <2>1, <2>2
<1>5. l \o r # <<>> /\ (l \o r) \o <<>> = l \o r
  BY <1>4
<1>. QED BY <1>1, <1>4, <1>5 DEF r, Preceded

\* The loop is there once it is made.
LEMMA LoopWraps ==
  ASSUME NEW e, NEW b, NEW c, IsTyped(b), Looped(e, b, c)
  PROVE  /\ Wraps(CommandOf(c)) /\ Argv(c) = Loop \o <<"retry">> \o (CommandOf(b) \o b.args)
         /\ IsList(CommandOf(b) \o b.args) /\ c.command # <<>>
<1> DEFINE x == CommandOf(b)
           m == Loop \o <<"retry">> \o x \o b.args
<1>1. IsList(x) /\ IsList(b.args)
  BY PostRenderAssumption DEF IsTyped, IsList, CommandOf, Looped, Knows
<1>3. c.command = m /\ c.args = <<>>
  BY DEF Looped
<1> HIDE DEF x
<1>2. PICK S : x \in Seq(S) /\ b.args \in Seq(S) /\ {"sh", "-c", "retry", Until} \subseteq S
  <2> DEFINE S == Range(x) \cup Range(b.args) \cup {"sh", "-c", "retry", Until}
  <2>1. x \in Seq(S) /\ b.args \in Seq(S)
    BY <1>1 DEF IsList
  <2>. QED BY <2>1
<1>4. m # <<>> /\ m \o <<>> = m /\ Len(m) > 2 /\ m[3] = Until /\ m = Loop \o <<"retry">> \o (x \o b.args)
  <2> DEFINE l == Loop \o <<"retry">>
  <2>1. Loop \in Seq(S) /\ Len(Loop) = 3 /\ Loop[3] = Until
    BY <1>2 DEF Loop
  <2>2. <<"retry">> \in Seq(S) /\ Len(<<"retry">>) = 1
    BY <1>2
  <2>3. l \in Seq(S) /\ Len(l) = 4 /\ l[3] = Until
    <3>. PICK q : q = <<"retry">>
      OBVIOUS
    <3>1. q \in Seq(S) /\ Len(q) = 1
      BY <2>2
    <3>2. /\ Loop \o q \in Seq(S) /\ Len(Loop \o q) = Len(Loop) + Len(q)
          /\ \A i \in 1..(Len(Loop) + Len(q)) :
               (Loop \o q)[i] = IF i <= Len(Loop) THEN Loop[i] ELSE q[i - Len(Loop)]
      BY <2>1, <3>1, ConcatProperties
    <3>. QED BY <2>1, <3>1, <3>2
  <2> HIDE DEF l
  <2>4. m = (l \o x) \o b.args
    BY DEF l
  <2> HIDE DEF m
  <2>5. PICK k, v, w : k = l /\ v = x /\ w = b.args
    OBVIOUS
  <2>6. k \in Seq(S) /\ v \in Seq(S) /\ w \in Seq(S) /\ Len(k) = 4 /\ k[3] = Until
    BY <1>2, <2>3, <2>5
  <2>7. Preceded(k, v, w)
    BY <2>6, Prefixed
  <2>8. (k \o v) \o w = k \o (v \o w) /\ Len(k \o (v \o w)) > 2 /\ (k \o (v \o w))[3] = k[3]
        /\ k \o (v \o w) # <<>> /\ (k \o (v \o w)) \o <<>> = k \o (v \o w)
    BY <2>7 DEF Preceded
  <2>9. m = k \o (v \o w)
    BY <2>4, <2>5, <2>8
  <2>. QED BY <2>5, <2>6, <2>8, <2>9 DEF l
<1> HIDE DEF m
<1>5. m # <<>> /\ m \o <<>> = m
  BY <1>4
<1>6. CommandOf(c) = m
  BY <1>3, <1>5 DEF CommandOf
<1>7. Wraps(CommandOf(c))
  <2>1. Len(m) > 2 /\ m[3] = Until
    BY <1>4
  <2>. QED BY <1>6, <2>1 DEF Wraps
<1>8. Argv(c) = m
  BY <1>3, <1>5 DEF Argv
<1>9. IsList(x \o b.args)
  BY <1>1, Lists
<1>. QED BY <1>3, <1>4, <1>7, <1>8, <1>9 DEF x

LEMMA FollowsTrans ==
  ASSUME NEW e, NEW d, NEW a, NEW b, NEW c, Twin(e, d), Follows(e, a, b), Follows(d, b, c)
  PROVE  Follows(e, a, c)
<1>1. EnvKeeps(a.env, c.env)
  BY EnvTrans DEF Follows
<1>2. (a.memory => c.memory \/ Lowered(e, a)) /\ (c.memory => a.memory \/ Raised(e, a))
  BY DEF Follows, Raised, Lowered, Twin
<1>3. ASSUME ~Serves(e, a) PROVE SameRun(a, c) \/ Looped(e, a, c)
  <2>1. (SameRun(a, b) \/ Looped(e, a, b)) /\ (SameRun(b, c) \/ Looped(d, b, c))
    BY <1>3 DEF Follows, Twin, Serves, IsA
  <2>2. SameRun(a, b) => CommandOf(b) = CommandOf(a) /\ (Knows(b) => Knows(a))
    BY DEF SameRun, CommandOf, Knows, Follows
  <2>3. CASE SameRun(a, b) /\ SameRun(b, c)
    BY <2>3 DEF SameRun
  <2>4. CASE Looped(e, a, b) /\ SameRun(b, c)
    BY <2>4 DEF SameRun, Looped
  <2>5. CASE SameRun(a, b) /\ Looped(d, b, c)
    <3>1. HasPod(e) /\ IsRetried(e, a)
      BY <2>5 DEF Looped, Twin, HasPod, IsRetried, Follows
    <3>. QED BY <2>2, <2>5, <3>1 DEF SameRun, Looped
  <2>6. CASE Looped(e, a, b) /\ Looped(d, b, c)
    <3>1. Wraps(CommandOf(b))
      BY <2>6, LoopWraps DEF Follows
    <3>. QED BY <2>6, <3>1 DEF Looped
  <2>. QED BY <2>1, <2>3, <2>4, <2>5, <2>6
<1>4. ASSUME Serves(e, a), c.command = <<>> PROVE SameRun(a, c)
  <2>1. SameRun(b, c)
    BY <1>4, LoopWraps DEF Follows
  <2>2. SameRun(a, b)
    BY <1>4, <2>1, LoopWraps DEF Follows, SameRun
  <2>. QED BY <2>1, <2>2 DEF SameRun
<1>. QED BY <1>1, <1>2, <1>3, <1>4 DEF Follows

LEMMA GrowsTrans == \A e, d, x : Grows(e, d) /\ Grows(d, x) => Grows(e, x)
<1> SUFFICES ASSUME NEW e, NEW d, NEW x, Grows(e, d), Grows(d, x) PROVE Grows(e, x)
  OBVIOUS
<1>1. Twin(e, d) /\ Twin(e, x)
  BY DEF Grows, Twin
<1>2. ASSUME NEW c \in x.containers
      PROVE  Fresh(e, c) \/ \E b \in e.containers : Follows(e, b, c)
  <2>1. CASE Fresh(d, c)
    <3>1. ASSUME NEW b \in e.containers, b.name = "prometheus" PROVE FALSE
      <4>1. PICK a \in d.containers : Follows(e, b, a)
        BY DEF Grows
      <4>. QED BY <2>1, <3>1, <4>1 DEF Follows, Fresh
    <3>. QED BY <1>1, <2>1, <3>1 DEF Fresh, Twin
  <2>2. ASSUME NEW b \in d.containers, Follows(d, b, c)
        PROVE  Fresh(e, c) \/ \E a \in e.containers : Follows(e, a, c)
    <3>1. CASE Fresh(e, b)
      BY <1>1, <2>2, <3>1 DEF Fresh, Follows, EnvKeeps, Lowered, Twin
    <3>2. ASSUME NEW a \in e.containers, Follows(e, a, b) PROVE Follows(e, a, c)
      BY <1>1, <2>2, <3>2, FollowsTrans
    <3>. QED BY <3>1, <3>2 DEF Grows
  <2>. QED BY <2>1, <2>2 DEF Grows
<1>3. ASSUME NEW b \in e.containers PROVE \E c \in x.containers : Follows(e, b, c)
  <2>1. PICK a \in d.containers : Follows(e, b, a)
    BY DEF Grows
  <2>2. PICK c \in x.containers : Follows(d, a, c)
    BY DEF Grows
  <2>. QED BY <1>1, <2>1, <2>2, FollowsTrans
<1>. QED BY <1>1, <1>2, <1>3 DEF Grows

LEMMA KeptTrans == \A A, B, C : Kept(A, B) /\ Kept(B, C) => Kept(A, C)
<1> SUFFICES ASSUME NEW A, NEW B, NEW C, Kept(A, B), Kept(B, C), NEW x \in C, Runtime(x)
             PROVE  \E e \in A : Grows(e, x)
  BY DEF Kept
<1>1. PICK d \in B : Grows(d, x)
  BY DEF Kept
<1>2. Runtime(d)
  BY <1>1 DEF Grows, Twin, Runtime, HasPod
<1>3. PICK e \in A : Grows(e, d)
  BY <1>2 DEF Kept
<1>. QED BY <1>1, <1>3, GrowsTrans

(* Steps that the fixups share. *)

LEMMA FollowsItself ==
  ASSUME NEW e, NEW b, NEW c, IsTyped(b), c.name = b.name, c.env = b.env, c.memory = b.memory, SameRun(b, c)
  PROVE  Follows(e, b, c)
<1>1. EnvKeeps(b.env, c.env)
  BY EnvItself DEF IsTyped
<1>. QED BY <1>1 DEF Follows, SameRun, IsTyped

\* The document's containers are left alone.
LEMMA SameGrows ==
  ASSUME NEW e, NEW d, Twin(e, d), d.containers = e.containers, \A c \in e.containers : IsTyped(c)
  PROVE  Grows(e, d)
<1>1. \A c \in e.containers : Follows(e, c, c)
  BY FollowsItself DEF SameRun
<1>. QED BY <1>1 DEF Grows

LEMMA InsideGrows ==
  ASSUME NEW e, NEW d, NEW g, Twin(e, d), d.containers = {g[c] : c \in e.containers},
         \A c \in e.containers : Follows(e, c, g[c])
  PROVE  Grows(e, d)
BY DEF Grows

LEMMA MapKept ==
  ASSUME NEW A, NEW f, \A d \in A : Runtime(d) => Grows(d, f[d]),
         \A d \in A : Runtime(f[d]) => Runtime(d)
  PROVE  Kept(A, {f[d] : d \in A})
BY DEF Kept

LEMMA EnvFollows ==
  ASSUME NEW e, NEW b, NEW values, IsContainer(b), IsTyped(b), IsFiniteSet(DOMAIN values)
  PROVE  /\ Follows(e, b, AddEnv(b, values)) /\ DOMAIN values \subseteq Names(AddEnv(b, values).env)
         /\ AddEnv(b, values).memory = b.memory
<1> DEFINE m == MergeEnv(b.env, values)
           c == [b EXCEPT !.env = m]
<1>1. EnvKeeps(b.env, m) /\ DOMAIN values \subseteq Names(m)
  BY EnvMerged DEF IsTyped
<1> HIDE DEF m
<1>2. c.env = m /\ c.name = b.name /\ c.memory = b.memory /\ SameRun(b, c)
  BY DEF IsContainer, SameRun
<1>3. AddEnv(b, values) = c
  BY DEF AddEnv, m
<1> HIDE DEF c
<1>4. IsTyped(c)
  BY <1>1, <1>2 DEF IsTyped, SameRun, EnvKeeps
<1>5. Follows(e, b, c)
  BY <1>1, <1>2, <1>4 DEF Follows, SameRun
<1>. QED BY <1>1, <1>2, <1>3, <1>5

LEMMA ChangedGrows ==
  ASSUME NEW d, NEW e, NEW S, IsDoc(d), e = [d EXCEPT !.containers = S]
  PROVE  Twin(d, e) /\ e.containers = S
BY DEF IsDoc, IsRecord, Twin

LEMMA InsideKept ==
  ASSUME NEW d, NEW g, NEW V, IsDoc(d), \A c \in d.containers : Follows(d, c, g[c])
  PROVE  LET e == [d EXCEPT !.containers = {g[c] : c \in d.containers}]
         IN  Grows(d, e) /\ Grows(d, [e EXCEPT !.volumes = @ \cup V])
<1> DEFINE S == {g[c] : c \in d.containers}
           e == [d EXCEPT !.containers = S]
           W == e.volumes \cup V
           x == [e EXCEPT !.volumes = W]
<1>1. \A c \in S : \E b \in d.containers : Follows(d, b, c)
  OBVIOUS
<1>2. \A b \in d.containers : \E c \in S : Follows(d, b, c)
  OBVIOUS
<1>3. e = [d EXCEPT !.containers = S] /\ x = [e EXCEPT !.volumes = W]
  OBVIOUS
<1> HIDE DEF S, e, W, x
<1>4. Twin(d, e) /\ e.containers = S /\ IsRecord(e)
  BY <1>3, ChangedGrows, Inner
<1>5. Twin(e, x) /\ x.containers = e.containers
  BY <1>3, <1>4 DEF IsRecord, Twin
<1>6. Grows(d, e) /\ Grows(d, x)
  BY <1>1, <1>2, <1>4, <1>5 DEF Grows, Twin
<1>. QED BY <1>6 DEF S, e, W, x

LEMMA MadeKept ==
  ASSUME NEW d, NEW g, IsDoc(d), \A c \in d.containers : Follows(d, c, g[c])
  PROVE  Grows(d, [d EXCEPT !.containers = {g[c] : c \in d.containers}])
<1> DEFINE e == [d EXCEPT !.containers = {g[c] : c \in d.containers}]
<1>1. PICK none : none = {}
  OBVIOUS
<1>2. Grows(d, e) /\ Grows(d, [e EXCEPT !.volumes = @ \cup none])
  BY <1>1, InsideKept
<1>. QED BY <1>2

LEMMA FieldKept ==
  ASSUME NEW d, NEW v, IsDoc(d), \A c \in d.containers : IsTyped(c)
  PROVE  /\ Grows(d, d)
         /\ Grows(d, [d EXCEPT !.replicas = v]) /\ Grows(d, [d EXCEPT !.links = v])
         /\ Grows(d, [d EXCEPT !.alone = v]) /\ Grows(d, [d EXCEPT !.notes = v])
<1>1. ASSUME NEW e, Twin(d, e), e.containers = d.containers PROVE Grows(d, e)
  BY <1>1, SameGrows
<1>2. Grows(d, d)
  BY <1>1 DEF Twin
<1>3. Grows(d, [d EXCEPT !.replicas = v])
  <2> DEFINE e == [d EXCEPT !.replicas = v]
  <2>1. Twin(d, e) /\ e.containers = d.containers
    BY DEF IsDoc, IsRecord, Twin
  <2> HIDE DEF e
  <2>2. Grows(d, e)
    BY <1>1, <2>1
  <2>. QED BY <2>2 DEF e
<1>4. Grows(d, [d EXCEPT !.links = v])
  <2> DEFINE e == [d EXCEPT !.links = v]
  <2>1. Twin(d, e) /\ e.containers = d.containers
    BY DEF IsDoc, IsRecord, Twin
  <2> HIDE DEF e
  <2>2. Grows(d, e)
    BY <1>1, <2>1
  <2>. QED BY <2>2 DEF e
<1>5. Grows(d, [d EXCEPT !.alone = v])
  <2> DEFINE e == [d EXCEPT !.alone = v]
  <2>1. Twin(d, e) /\ e.containers = d.containers
    BY DEF IsDoc, IsRecord, Twin
  <2> HIDE DEF e
  <2>2. Grows(d, e)
    BY <1>1, <2>1
  <2>. QED BY <2>2 DEF e
<1>6. Grows(d, [d EXCEPT !.notes = v])
  <2> DEFINE e == [d EXCEPT !.notes = v]
  <2>1. Twin(d, e) /\ e.containers = d.containers
    BY DEF IsDoc, IsRecord, Twin
  <2> HIDE DEF e
  <2>2. Grows(d, e)
    BY <1>1, <2>1
  <2>. QED BY <2>2 DEF e
<1>. QED BY <1>2, <1>3, <1>4, <1>5, <1>6

\* A fixup that leaves some documents as they are, and keeps the kind of the others.
LEMMA PartKept ==
  ASSUME NEW A, NEW f, AreDocs(A), Typed(A),
         \A d \in A : f[d] = d \/ (Runtime(d) /\ Grows(d, f[d])) \/ (~Runtime(d) /\ f[d].kind = d.kind)
  PROVE  Kept(A, {f[d] : d \in A})
<1>1. ASSUME NEW d \in A PROVE (Runtime(d) => Grows(d, f[d])) /\ (Runtime(f[d]) => Runtime(d))
  <2>1. CASE f[d] = d
    <3>1. Runtime(d) => Grows(d, d)
      BY FieldKept DEF Typed, AreDocs
    <3>. QED BY <2>1, <3>1
  <2>2. CASE Runtime(d) /\ Grows(d, f[d])
    BY <2>2
  <2>3. CASE ~Runtime(d) /\ f[d].kind = d.kind
    BY <2>3 DEF Runtime, HasPod
  <2>. QED BY <2>1, <2>2, <2>3
<1>. QED BY <1>1, MapKept

LEMMA DropCollectorKept == \A A : AreDocs(A) /\ Typed(A) => Kept(A, DropCollector(A))
BY FieldKept DEF DropCollector, Kept, Typed, AreDocs

LEMMA HoldZacKept ==
  ASSUME NEW A, NEW hold, AreDocs(A), Typed(A) PROVE Kept(A, HoldZac(A, hold))
<1> DEFINE f == [d \in A |-> IF hold /\ IsA(d, "Deployment", "zac") THEN [d EXCEPT !.replicas = 0] ELSE d]
<1>1. HoldZac(A, hold) = {f[d] : d \in A}
  BY DEF HoldZac, Each
<1>2. ASSUME NEW d \in A PROVE f[d] = d \/ (Runtime(d) /\ Grows(d, f[d]))
  <2>1. Runtime(d) => Grows(d, [d EXCEPT !.replicas = 0])
    BY FieldKept DEF AreDocs, Typed
  <2>2. IsA(d, "Deployment", "zac") => Runtime(d)
    BY DEF IsA, Runtime, HasPod, PodKinds
  <2>. QED BY <2>1, <2>2
<1> HIDE DEF f
<1>3. Kept(A, {f[d] : d \in A})
  BY <1>2, PartKept
<1>. QED BY <1>1, <1>3

LEMMA LinksKept ==
  ASSUME NEW A, AreDocs(A), Typed(A) PROVE Kept(A, DisableServiceLinks(A))
<1> DEFINE f == [d \in A |-> IF d.kind \in PodKinds THEN [d EXCEPT !.links = FALSE] ELSE d]
<1>1. DisableServiceLinks(A) = {f[d] : d \in A}
  BY DEF DisableServiceLinks, Each
<1>2. ASSUME NEW d \in A PROVE f[d] = d \/ (Runtime(d) /\ Grows(d, f[d]))
  <2>1. Runtime(d) => Grows(d, [d EXCEPT !.links = FALSE])
    BY FieldKept DEF AreDocs, Typed
  <2>2. d.kind \in PodKinds => Runtime(d)
    BY DEF Runtime, HasPod
  <2>. QED BY <2>1, <2>2
<1> HIDE DEF f
<1>3. Kept(A, {f[d] : d \in A})
  BY <1>2, PartKept
<1>. QED BY <1>1, <1>3

LEMMA UpdatesKept ==
  ASSUME NEW A, AreDocs(A), Typed(A) PROVE Kept(A, AllowRollingUpdates(A))
<1> DEFINE f == [d \in A |-> IF d.kind = "Deployment" THEN [d EXCEPT !.alone = FALSE] ELSE d]
<1>1. AllowRollingUpdates(A) = {f[d] : d \in A}
  BY DEF AllowRollingUpdates, Each
<1>2. ASSUME NEW d \in A PROVE f[d] = d \/ (Runtime(d) /\ Grows(d, f[d]))
  <2>1. Runtime(d) => Grows(d, [d EXCEPT !.alone = FALSE])
    BY FieldKept DEF AreDocs, Typed
  <2>2. d.kind = "Deployment" => Runtime(d)
    BY DEF Runtime, HasPod, PodKinds
  <2>. QED BY <2>1, <2>2
<1> HIDE DEF f
<1>3. Kept(A, {f[d] : d \in A})
  BY <1>2, PartKept
<1>. QED BY <1>1, <1>3

LEMMA NginxKept ==
  ASSUME NEW A, AreDocs(A), Typed(A) PROVE Kept(A, RouteThroughNginx(A))
<1> DEFINE g(d) == (d.backends \ {"zac"}) \cup {"zac-nginx"}
           f == [d \in A |-> IF d.kind = "Ingress" /\ "zac" \in d.backends /\ Has(A, "Service", "zac-nginx")
                             THEN [d EXCEPT !.backends = g(d)] ELSE d]
<1>1. RouteThroughNginx(A) = {f[d] : d \in A}
  BY DEF RouteThroughNginx, Each
<1>2. ASSUME NEW d \in A PROVE f[d] = d \/ (~Runtime(d) /\ f[d].kind = d.kind)
  <2>1. [d EXCEPT !.backends = g(d)].kind = d.kind
    <3> HIDE DEF g
    <3>. QED BY DEF AreDocs, IsDoc, IsRecord
  <2>2. d.kind = "Ingress" => ~Runtime(d)
    BY DEF Runtime, HasPod, PodKinds
  <2> HIDE DEF g
  <2>. QED BY <2>1, <2>2
<1> HIDE DEF f
<1>3. Kept(A, {f[d] : d \in A})
  BY <1>2, PartKept
<1>. QED BY <1>1, <1>3

LEMMA RollsKept ==
  ASSUME NEW A, AreDocs(A), Typed(A), NEW old, NEW new, NEW note
  PROVE  Kept(A, RollReaders(Replaced(A, old, new), NamesWith(A, old), note))
<1> DEFINE f == [d \in A |-> IF d \in WithValue(A, old) THEN [d EXCEPT !.data = (@ \ {old}) \cup {new}] ELSE d]
           R == {f[d] : d \in A}
           Reader(d) == d.kind \in PodKinds /\ ConfigMapsUsed(d) \cap NamesWith(A, old) # {}
           h(d) == IF Reader(d) THEN [d EXCEPT !.notes = @ \cup {note}] ELSE d
           B == {h(d) : d \in R}
<1>1. RollReaders(Replaced(A, old, new), NamesWith(A, old), note) = B
  <2>1. R = Replaced(A, old, new)
    BY DEF Replaced, Each
  <2> HIDE DEF R
  <2>2. B = RollReaders(R, NamesWith(A, old), note)
    BY DEF RollReaders, Each
  <2>. QED BY <2>1, <2>2
<1>2. ASSUME NEW d \in A PROVE f[d] = d \/ (f[d].kind = "ConfigMap" /\ d.kind = "ConfigMap")
  <2> DEFINE v == (d.data \ {old}) \cup {new}
  <2>1. f[d] = IF d \in WithValue(A, old) THEN [d EXCEPT !.data = v] ELSE d
    OBVIOUS
  <2> HIDE DEF v, f
  <2>2. [d EXCEPT !.data = v].kind = d.kind
    BY DEF AreDocs, IsDoc, IsRecord
  <2>. QED BY <2>1, <2>2 DEF WithValue
<1>3. "ConfigMap" \notin PodKinds
  BY DEF PodKinds
<1> HIDE DEF f
<1>4. ASSUME NEW d \in R, Runtime(h(d)) PROVE \E e \in A : Grows(e, h(d))
  <2>1. CASE d.kind = "ConfigMap"
    <3>1. h(d) = d
      BY <1>3, <2>1
    <3> HIDE DEF h
    <3>. QED BY <1>4, <2>1, <3>1 DEF Runtime, HasPod, PodKinds
  <2>2. CASE d.kind # "ConfigMap"
    <3> DEFINE v == d.notes \cup {note}
    <3>1. d \in A
      BY <1>2, <2>2
    <3>2. h(d) = IF Reader(d) THEN [d EXCEPT !.notes = v] ELSE d
      OBVIOUS
    <3>3. Reader(d) => Runtime(d)
      BY DEF Runtime, HasPod
    <3> HIDE DEF h, v, Reader
    <3>4. Runtime(d)
      BY <1>4, <3>2, <3>3
    <3>5. Grows(d, d) /\ Grows(d, [d EXCEPT !.notes = v])
      BY <3>1, <3>4, FieldKept DEF AreDocs, Typed
    <3>. QED BY <3>1, <3>2, <3>5
  <2>. QED BY <2>1, <2>2
<1>5. Kept(A, B)
  <2> HIDE DEF h, R
  <2>. QED BY <1>4 DEF Kept
<1>. QED BY <1>1, <1>5

\* What some fixups establish.
AllOnce(A) == \A d \in A : Runtime(d) => \A c \in d.containers : Once(c.env)
Operated(A) == \A d \in A : d.kind = "Prometheus" => \E c \in d.containers : c.name = "prometheus"
Told(A) ==
  \A d \in A : d.kind = "Keycloak" /\ d.resources = "limited" =>
    \A c \in d.containers : c.name = "keycloak" => c.memory
AllRetried(A) ==
  \A d \in A : HasPod(d) => \A c \in d.containers : IsRetried(d, c) /\ ~Serves(d, c) => Wraps(CommandOf(c))
AllLimited(A) ==
  \A d \in A : Runtime(d) => \A c \in d.containers : c.memory => "GOMEMLIMIT" \in Names(c.env)

LEMMA EnvSet ==
  ASSUME NEW e, NEW c, NEW env, IsContainer(c), IsTyped(c), EnvKeeps(c.env, env)
  PROVE  Follows(e, c, [c EXCEPT !.env = env]) /\ [c EXCEPT !.env = env].env = env
<1> DEFINE b == [c EXCEPT !.env = env]
<1>1. b.env = env /\ b.name = c.name /\ b.memory = c.memory /\ SameRun(c, b)
  BY DEF IsContainer, SameRun
<1> HIDE DEF b
<1>2. IsTyped(b)
  BY <1>1 DEF IsTyped, SameRun, EnvKeeps
<1>3. Follows(e, c, b)
  BY <1>1, <1>2 DEF Follows, SameRun
<1>. QED BY <1>1, <1>3 DEF b

LEMMA OverrideGrows ==
  ASSUME NEW d, IsDoc(d), \A c \in d.containers : IsTyped(c)
  PROVE  /\ Grows(d, Override(d)) /\ IsDoc(Override(d))
         /\ \A c \in Override(d).containers : IsTyped(c)
         /\ d.kind = "Prometheus" => \E c \in Override(d).containers : c.name = "prometheus"
<1> DEFINE new == [Container EXCEPT !.name = "prometheus", !.memory = d.resources = "limited"]
           S == d.containers \cup {new}
           e == [d EXCEPT !.containers = S]
<1>1. new.name = "prometheus" /\ (d.resources = "limited" => new.memory) /\ new.env = <<>> /\ new.command = <<>> /\ new.args = <<>>
  BY DEF Container
<1> HIDE DEF new
<1>2. IsList(<<>>) /\ IsEnv(<<>>) /\ Once(<<>>)
  <2>1. \A U : <<>> \in Seq(U)
    OBVIOUS
  <2>. QED BY <2>1 DEF IsList, IsEnv, Once
<1>3. IsTyped(new) /\ Once(new.env)
  BY <1>1, <1>2 DEF IsTyped
<1>4. IsDoc(Override(d))
  BY Overridden DEF Mapped
<1>5. CASE d.kind = "Prometheus" /\ \A c \in d.containers : c.name # "prometheus"
  <2>1. Override(d) = e
    BY <1>5 DEF Override, new
  <2>2. Twin(d, e) /\ e.containers = S
    <3>1. e = [d EXCEPT !.containers = S]
      OBVIOUS
    <3> HIDE DEF S, e
    <3>. QED BY <3>1, ChangedGrows
  <2> HIDE DEF e
  <2>3. Fresh(d, new)
    BY <1>1, <1>3, <1>5 DEF Fresh
  <2>4. \A c \in d.containers : Follows(d, c, c)
    BY FollowsItself DEF SameRun
  <2>5. Grows(d, e)
    BY <2>2, <2>3, <2>4 DEF Grows
  <2>. QED BY <1>1, <1>3, <1>4, <2>1, <2>2, <2>5
<1>6. CASE ~(d.kind = "Prometheus" /\ \A c \in d.containers : c.name # "prometheus")
  <2>1. Override(d) = d
    BY <1>6 DEF Override
  <2>2. Grows(d, d)
    BY FieldKept
  <2>. QED BY <1>6, <2>1, <2>2
<1>. QED BY <1>5, <1>6

LEMMA DedupKept ==
  ASSUME NEW A, AreDocs(A), Typed(A)
  PROVE  Kept(A, DropDuplicateEnv(A)) /\ AllOnce(DropDuplicateEnv(A)) /\ Operated(DropDuplicateEnv(A))
<1> DEFINE f == [d \in A |-> Deduped(d)]
           B == {f[d] : d \in A}
<1>1. DropDuplicateEnv(A) = B
  BY DEF DropDuplicateEnv, Each, Deduped
<1>2. ASSUME NEW d \in A, Runtime(d)
      PROVE  /\ Grows(d, f[d]) /\ \A c \in f[d].containers : Once(c.env)
             /\ d.kind = "Prometheus" => \E c \in f[d].containers : c.name = "prometheus"
  <2> DEFINE e == Override(d)
             g == [c \in e.containers |-> [c EXCEPT !.env = LastOnly(c.env)]]
  <2>1. /\ Grows(d, e) /\ IsDoc(e) /\ \A c \in e.containers : IsTyped(c)
        /\ d.kind = "Prometheus" => \E c \in e.containers : c.name = "prometheus"
    BY <1>2, OverrideGrows DEF AreDocs, Typed
  <2>2. f[d] = [e EXCEPT !.containers = {g[c] : c \in e.containers}]
    BY <1>2 DEF Deduped, Inside, Each, All
  <2> HIDE DEF e
  <2>3. ASSUME NEW c \in e.containers PROVE Follows(e, c, g[c]) /\ Once(g[c].env)
    <3> DEFINE env == LastOnly(c.env)
    <3>1. g[c] = [c EXCEPT !.env = env]
      OBVIOUS
    <3>2. EnvKeeps(c.env, env) /\ Once(env)
      BY <2>1, EnvDeduped DEF IsTyped
    <3> HIDE DEF env, g
    <3>3. Follows(e, c, [c EXCEPT !.env = env]) /\ [c EXCEPT !.env = env].env = env
      BY <2>1, <3>2, EnvSet DEF IsDoc
    <3>. QED BY <3>1, <3>2, <3>3
  <2> HIDE DEF g, f
  <2>4. Grows(e, [e EXCEPT !.containers = {g[c] : c \in e.containers}])
    BY <2>1, <2>3, MadeKept
  <2>5. f[d].containers = {g[c] : c \in e.containers}
    BY <2>1, <2>2 DEF IsDoc, IsRecord
  <2>6. Grows(d, f[d])
    BY <2>1, <2>2, <2>4, GrowsTrans
  <2>7. \A c \in e.containers : g[c].name = c.name
    BY <2>3 DEF Follows
  <2>. QED BY <2>1, <2>3, <2>5, <2>6, <2>7
<1>3. \A d \in A : ~Runtime(d) => f[d] = d
  BY DEF Deduped
<1> HIDE DEF f
<1>4. \A d \in A : Runtime(f[d]) => Runtime(d)
  BY <1>3
<1>5. Kept(A, B)
  BY <1>2, <1>4, MapKept
<1>6. AllOnce(B)
  BY <1>2, <1>4 DEF AllOnce
<1>7. Operated(B)
  <2>1. \A d \in A : f[d].kind = "Prometheus" => d.kind = "Prometheus" /\ Runtime(d)
    <3> SUFFICES ASSUME NEW d \in A, f[d].kind = "Prometheus" PROVE d.kind = "Prometheus" /\ Runtime(d)
      OBVIOUS
    <3>1. Runtime(d)
      BY <1>4 DEF Runtime
    <3>2. Twin(d, f[d])
      BY <1>2, <3>1 DEF Grows
    <3>. QED BY <3>1, <3>2 DEF Twin
  <2>. QED BY <1>2, <2>1 DEF Operated
<1>. QED BY <1>1, <1>5, <1>6, <1>7

LEMMA KeycloakKept ==
  ASSUME NEW A, AreDocs(A), Typed(A)
  PROVE  Kept(A, TuneKeycloak(A)) /\ Told(TuneKeycloak(A))
<1> DEFINE Env(c) == AddEnv(c, [JAVA_OPTS_APPEND |-> "ours"])
           Server(d, c) == [Env(c) EXCEPT !.memory = IF c.name = "keycloak" /\ d.resources # "none"
                                                     THEN d.resources = "limited" ELSE @]
           Operator(c) == AddEnv(c, [JDK_JAVA_OPTIONS |-> "ours"])
           f == [d \in A |-> IF d.kind = "Keycloak" THEN Inside(d, All, LAMBDA c : Server(d, c)) ELSE d]
           B == {f[d] : d \in A}
           h == [d \in B |-> IF IsA(d, "Deployment", "keycloak-operator") THEN Inside(d, All, Operator) ELSE d]
           C == {h[d] : d \in B}
<1>1. TuneKeycloak(A) = C
  <2>1. B = Each(A, LAMBDA d : d.kind = "Keycloak", LAMBDA d : Inside(d, All, LAMBDA c : Server(d, c)))
    BY DEF Each
  <2> HIDE DEF B
  <2>2. C = Each(B, LAMBDA d : IsA(d, "Deployment", "keycloak-operator"), LAMBDA d : Inside(d, All, Operator))
    BY DEF Each
  <2>. QED BY <2>1, <2>2 DEF TuneKeycloak
<1>2. ASSUME NEW d \in A, d.kind = "Keycloak"
      PROVE  /\ Grows(d, f[d]) /\ IsDoc(f[d])
             /\ d.resources = "limited" => \A c \in f[d].containers : c.name = "keycloak" => c.memory
  <2>1. IsDoc(d) /\ \A c \in d.containers : IsTyped(c) /\ IsContainer(c)
    BY <1>2 DEF AreDocs, Typed, Runtime, IsDoc
  <2> DEFINE g == [c \in d.containers |-> Server(d, c)]
  <2>2. ASSUME NEW c \in d.containers
        PROVE  /\ Follows(d, c, g[c]) /\ IsContainer(g[c])
               /\ d.resources = "limited" /\ g[c].name = "keycloak" => g[c].memory
    <3> DEFINE e == Env(c)
               m == IF c.name = "keycloak" /\ d.resources # "none" THEN d.resources = "limited" ELSE e.memory
               x == [e EXCEPT !.memory = m]
    <3>1. IsContainer(e)
      BY <2>1, EnvAdded DEF IsDoc
    <3>2. Follows(d, c, e) /\ e.memory = c.memory
      <4> DEFINE v == [JAVA_OPTS_APPEND |-> "ours"]
      <4>1. IsFiniteSet(DOMAIN v)
        BY FS_Singleton
      <4> HIDE DEF v
      <4>2. Follows(d, c, AddEnv(c, v)) /\ AddEnv(c, v).memory = c.memory
        BY <2>1, <4>1, EnvFollows
      <4>. QED BY <4>2 DEF v
    <3>3. g[c] = x
      OBVIOUS
    <3>4. /\ m => c.memory \/ Raised(d, c)
          /\ c.memory => m \/ Lowered(d, c)
          /\ c.name = "keycloak" /\ d.resources = "limited" => m
      BY <1>2, <3>2 DEF Raised, Lowered
    <3> HIDE DEF e, m
    <3>5. x.memory = m /\ x.name = e.name /\ x.env = e.env /\ SameRun(e, x) /\ IsContainer(x)
      BY <3>1 DEF IsContainer, SameRun
    <3> HIDE DEF x, g
    <3>6. IsTyped(x)
      BY <3>2, <3>5 DEF IsTyped, SameRun, Follows
    <3>7. SameRun(c, x) \/ Looped(d, c, x) \/ (Serves(d, c) /\ x.command # <<>>)
      BY <3>2, <3>5 DEF Follows, SameRun, Looped
    <3>8. Follows(d, c, x)
      BY <3>2, <3>4, <3>5, <3>6, <3>7 DEF Follows, SameRun
    <3>. QED BY <3>3, <3>4, <3>5, <3>8 DEF Follows
  <2>3. f[d] = [d EXCEPT !.containers = {g[c] : c \in d.containers}]
    BY <1>2 DEF Inside, Each, All
  <2> HIDE DEF g, f
  <2>4. Grows(d, [d EXCEPT !.containers = {g[c] : c \in d.containers}])
    BY <2>1, <2>2, MadeKept
  <2>5. f[d].containers = {g[c] : c \in d.containers}
    BY <2>1, <2>3 DEF IsDoc, IsRecord
  <2>6. IsDoc(f[d])
    <3> DEFINE S == {g[c] : c \in d.containers}
    <3>1. \A c \in S : IsContainer(c)
      BY <2>2
    <3> HIDE DEF S
    <3>2. IsRecord([d EXCEPT !.containers = S]) /\ [d EXCEPT !.containers = S].containers = S
          /\ [d EXCEPT !.containers = S].kind = d.kind
      BY <2>1 DEF IsDoc, IsRecord
    <3>. QED BY <1>2, <2>3, <3>1, <3>2 DEF IsDoc, S
  <2>. QED BY <2>2, <2>3, <2>4, <2>5, <2>6
<1>3. \A d \in A : d.kind # "Keycloak" => f[d] = d
  OBVIOUS
<1> HIDE DEF f
<1>4. Kept(A, B) /\ Typed(B) /\ AreDocs(B)
  <2>1. Kept(A, B)
    BY <1>2, <1>3, PartKept DEF Runtime
  <2>2. AreDocs(B)
    BY <1>2, <1>3 DEF AreDocs
  <2>. QED BY <2>1, <2>2, KeptTyped
<1>5. Told(B)
  <2> SUFFICES ASSUME NEW d \in A, f[d].kind = "Keycloak", f[d].resources = "limited",
                      NEW c \in f[d].containers, c.name = "keycloak"
               PROVE  c.memory
    BY DEF Told
  <2>1. d.kind = "Keycloak"
    BY <1>3
  <2>2. d.resources = "limited"
    BY <1>2, <2>1 DEF Grows, Twin
  <2>. QED BY <1>2, <2>1, <2>2
<1> HIDE DEF B
<1>6. ASSUME NEW d \in B, IsA(d, "Deployment", "keycloak-operator") PROVE Runtime(d) /\ Grows(d, h[d])
  <2>1. Runtime(d)
    BY <1>6 DEF IsA, Runtime, HasPod, PodKinds
  <2>2. IsDoc(d) /\ \A c \in d.containers : IsTyped(c) /\ IsContainer(c)
    BY <1>4, <2>1 DEF AreDocs, Typed, IsDoc
  <2> DEFINE g == [c \in d.containers |-> Operator(c)]
  <2>3. ASSUME NEW c \in d.containers PROVE Follows(d, c, g[c])
    <3> DEFINE v == [JDK_JAVA_OPTIONS |-> "ours"]
    <3>1. IsFiniteSet(DOMAIN v)
      BY FS_Singleton
    <3> HIDE DEF v
    <3>2. Follows(d, c, AddEnv(c, v))
      BY <2>2, <3>1, EnvFollows
    <3>. QED BY <3>2 DEF v
  <2>4. h[d] = [d EXCEPT !.containers = {g[c] : c \in d.containers}]
    BY <1>6 DEF Inside, Each, All
  <2> HIDE DEF g, h
  <2>5. Grows(d, [d EXCEPT !.containers = {g[c] : c \in d.containers}])
    BY <2>2, <2>3, MadeKept
  <2>. QED BY <2>1, <2>4, <2>5
<1>7. \A d \in B : ~IsA(d, "Deployment", "keycloak-operator") => h[d] = d
  OBVIOUS
<1> HIDE DEF h
<1>8. Kept(B, C)
  BY <1>4, <1>6, <1>7, PartKept
<1>9. Told(C)
  <2>1. \A d \in B : h[d].kind = "Keycloak" => h[d] = d
    BY <1>6, <1>7 DEF Grows, Twin, IsA
  <2>. QED BY <1>5, <2>1 DEF Told
<1>. QED BY <1>1, <1>4, <1>8, <1>9, KeptTrans

LEMMA SetFollows ==
  ASSUME NEW e, NEW c, NEW name, NEW v, IsContainer(c), IsTyped(c)
  PROVE  /\ IsFiniteSet(DOMAIN [x \in {name} |-> v])
         /\ Follows(e, c, AddEnv(c, [x \in {name} |-> v]))
         /\ name \in Names(AddEnv(c, [x \in {name} |-> v]).env)
         /\ AddEnv(c, [x \in {name} |-> v]).memory = c.memory
<1> DEFINE w == [x \in {name} |-> v]
<1>1. IsFiniteSet(DOMAIN w) /\ name \in DOMAIN w
  BY FS_Singleton
<1> HIDE DEF w
<1>2. /\ Follows(e, c, AddEnv(c, w)) /\ DOMAIN w \subseteq Names(AddEnv(c, w).env)
      /\ AddEnv(c, w).memory = c.memory
  BY <1>1, EnvFollows
<1>3. name \in Names(AddEnv(c, w).env)
  BY <1>1, <1>2
<1>. QED BY <1>1, <1>2, <1>3 DEF w

LEMMA KcadmKept ==
  ASSUME NEW A, AreDocs(A), Typed(A) PROVE Kept(A, TuneKcadm(A))
<1> DEFINE f == [d \in A |-> IF d.kind = "Job" THEN Kcadm(d) ELSE d]
<1>1. TuneKcadm(A) = {f[d] : d \in A}
  BY DEF TuneKcadm, Each, Kcadm
<1>2. ASSUME NEW d \in A PROVE f[d] = d \/ (Runtime(d) /\ Grows(d, f[d]))
  <2> SUFFICES ASSUME d.kind = "Job" PROVE Runtime(d) /\ Grows(d, f[d])
    OBVIOUS
  <2> DEFINE v == [KC_OPTS |-> "ours"]
             g == [c \in d.containers |-> IF c.image = "keycloak" THEN AddEnv(c, v) ELSE c]
  <2>1. Runtime(d)
    BY DEF Runtime, HasPod
  <2>2. IsDoc(d) /\ \A c \in d.containers : IsTyped(c) /\ IsContainer(c)
    BY <2>1 DEF AreDocs, Typed, IsDoc
  <2>3. IsFiniteSet(DOMAIN v)
    BY FS_Singleton
  <2>4. f[d] = [d EXCEPT !.containers = {g[c] : c \in d.containers}]
    BY DEF Kcadm, Inside, Each
  <2> HIDE DEF v
  <2>5. ASSUME NEW c \in d.containers PROVE Follows(d, c, g[c])
    BY <2>2, <2>3, EnvFollows, FollowsItself DEF SameRun
  <2> HIDE DEF f, g
  <2>6. Grows(d, [d EXCEPT !.containers = {g[c] : c \in d.containers}])
    BY <2>2, <2>5, MadeKept
  <2>. QED BY <2>1, <2>4, <2>6
<1> HIDE DEF f
<1>3. Kept(A, {f[d] : d \in A})
  BY <1>2, PartKept
<1>. QED BY <1>1, <1>3

LEMMA SpeedKept ==
  ASSUME NEW A, AreDocs(A), Typed(A) PROVE Kept(A, SpeedUpKeycloakStart(A))
<1> DEFINE Eased(c) == [c EXCEPT !.probes = IF @ = "none" THEN @ ELSE "eased",
                                 !.cpu = IF c.name = "keycloak-builder" THEN 2 ELSE @]
           f == [d \in A |-> IF d.kind = "Keycloak" THEN Inside(d, All, Eased) ELSE d]
<1>1. SpeedUpKeycloakStart(A) = {f[d] : d \in A}
  BY DEF SpeedUpKeycloakStart, Each
<1>2. ASSUME NEW d \in A PROVE f[d] = d \/ (Runtime(d) /\ Grows(d, f[d]))
  <2> SUFFICES ASSUME d.kind = "Keycloak" PROVE Runtime(d) /\ Grows(d, f[d])
    OBVIOUS
  <2> DEFINE g == [c \in d.containers |-> Eased(c)]
  <2>1. Runtime(d)
    BY DEF Runtime
  <2>2. IsDoc(d) /\ \A c \in d.containers : IsTyped(c) /\ IsContainer(c)
    BY <2>1 DEF AreDocs, Typed, IsDoc
  <2>3. f[d] = [d EXCEPT !.containers = {g[c] : c \in d.containers}]
    BY DEF Inside, Each, All
  <2>4. ASSUME NEW c \in d.containers PROVE Follows(d, c, g[c])
    <3> DEFINE p == IF c.probes = "none" THEN c.probes ELSE "eased"
               u == IF c.name = "keycloak-builder" THEN 2 ELSE c.cpu
               e == [c EXCEPT !.probes = p]
               x == [e EXCEPT !.cpu = u]
    <3>1. g[c] = x
      BY <2>2 DEF IsContainer
    <3> HIDE DEF p, u, g
    <3>2. IsContainer(e) /\ e.name = c.name /\ e.env = c.env /\ e.memory = c.memory /\ SameRun(c, e)
      BY <2>2 DEF IsContainer, SameRun
    <3> HIDE DEF e
    <3>3. x.name = e.name /\ x.env = e.env /\ x.memory = e.memory /\ SameRun(e, x)
      BY <3>2 DEF IsContainer, SameRun
    <3> HIDE DEF x
    <3>. QED BY <2>2, <3>1, <3>2, <3>3, FollowsItself DEF SameRun
  <2> HIDE DEF f, g
  <2>5. Grows(d, [d EXCEPT !.containers = {g[c] : c \in d.containers}])
    BY <2>2, <2>4, MadeKept
  <2>. QED BY <2>1, <2>3, <2>5
<1> HIDE DEF f
<1>3. Kept(A, {f[d] : d \in A})
  BY <1>2, PartKept
<1>. QED BY <1>1, <1>3

LEMMA LoopLists == \A c : IsTyped(c) /\ Knows(c) => IsList(Loop \o <<"retry">> \o CommandOf(c) \o c.args)
<1> SUFFICES ASSUME NEW c, IsTyped(c), Knows(c)
             PROVE  IsList(Loop \o <<"retry">> \o CommandOf(c) \o c.args)
  OBVIOUS
<1>2. IsList(CommandOf(c)) /\ IsList(c.args)
  BY PostRenderAssumption DEF IsTyped, IsList, CommandOf, Knows
<1>3. IsList(Loop) /\ IsList(<<"retry">>)
  <2>1. Loop \in Seq({"sh", "-c", Until}) /\ <<"retry">> \in Seq({"retry"})
    BY DEF Loop
  <2>. QED BY <2>1, ListOf
<1> DEFINE l == Loop \o <<"retry">>
           x == CommandOf(c)
           m == l \o x
<1>4. IsList(l)
  BY <1>3, Lists
<1> HIDE DEF l, x
<1>5. IsList(m)
  BY <1>2, <1>4, Lists DEF x
<1> HIDE DEF m
<1>6. IsList(m \o c.args)
  BY <1>2, <1>5, Lists
<1>. QED BY <1>2, <1>6 DEF l, m, x

LEMMA RetryKept ==
  ASSUME NEW A, AreDocs(A), Typed(A), Known(A)
  PROVE  Kept(A, RetryInContainer(A)) /\ AllRetried(RetryInContainer(A))
<1> DEFINE f == [d \in A |-> Retrying(d)]
           B == {f[d] : d \in A}
<1>1. RetryInContainer(A) = B
  BY DEF RetryInContainer, Retrying
<1>2. ASSUME NEW d \in A
      PROVE  /\ IF HasPod(d) THEN Grows(d, f[d]) ELSE f[d] = d
             /\ HasPod(d) => \A c \in f[d].containers : IsRetried(f[d], c) => Wraps(CommandOf(c))
  <2> DEFINE Retry(c) == [c EXCEPT !.command = Loop \o <<"retry">> \o CommandOf(c) \o c.args, !.args = <<>>]
             Wrapped(c) == HasPod(d) /\ IsRetried(d, c) /\ ~Wraps(CommandOf(c))
             g == [c \in d.containers |-> IF Wrapped(c) THEN Retry(c) ELSE c]
  <2>1. IsDoc(d)
    BY DEF AreDocs
  <2>2. f[d] = [d EXCEPT !.containers = {g[c] : c \in d.containers}]
    BY DEF Retrying, Inside, Each
  <2>3. CASE ~HasPod(d)
    <3>1. {g[c] : c \in d.containers} = d.containers
      BY <2>3
    <3> HIDE DEF g, f
    <3>2. [d EXCEPT !.containers = d.containers] = d
      BY <2>1 DEF IsDoc, IsRecord
    <3>. QED BY <2>2, <2>3, <3>1, <3>2
  <2>4. CASE HasPod(d)
    <3>1. \A c \in d.containers : IsTyped(c) /\ IsContainer(c)
      BY <2>1, <2>4 DEF Typed, IsDoc, Runtime
    <3>2. ASSUME NEW c \in d.containers
          PROVE  Follows(d, c, g[c]) /\ (IsRetried(d, c) => Wraps(CommandOf(g[c])))
      <4>1. CASE Wrapped(c)
        <5> DEFINE m == Loop \o <<"retry">> \o CommandOf(c) \o c.args
                   e == [c EXCEPT !.command = m]
                   x == [e EXCEPT !.args = <<>>]
        <5>1. Knows(c) /\ IsList(m)
          BY <3>1, <4>1, LoopLists DEF Known
        <5>2. g[c] = x
          <6>1. g[c] = Retry(c)
            BY <4>1
          <6> HIDE DEF g
          <6>2. Retry(c) = [c EXCEPT !.command = m, !.args = <<>>]
            OBVIOUS
          <6> HIDE DEF m, Retry
          <6>3. [c EXCEPT !.command = m, !.args = <<>>] = [e EXCEPT !.args = <<>>]
            BY <3>1 DEF IsContainer
          <6>. QED BY <6>1, <6>2, <6>3
        <5>3. IsList(<<>>)
          <6>1. \A U : <<>> \in Seq(U)
            OBVIOUS
          <6>. QED BY <6>1 DEF IsList
        <5> HIDE DEF g, m
        <5>4. /\ IsContainer(e) /\ e.name = c.name /\ e.env = c.env /\ e.memory = c.memory /\ e.image = c.image
              /\ e.command = m /\ e.first = c.first
          BY <3>1 DEF IsContainer
        <5> HIDE DEF e
        <5>5. /\ x.name = e.name /\ x.env = e.env /\ x.memory = e.memory /\ x.image = e.image
              /\ x.command = e.command /\ x.args = <<>> /\ x.first = e.first
          BY <5>4 DEF IsContainer
        <5> HIDE DEF x
        <5>6. Looped(d, c, x)
          BY <4>1, <5>1, <5>4, <5>5 DEF Looped, m
        <5>7. IsTyped(x)
          BY <3>1, <5>1, <5>3, <5>4, <5>5 DEF IsTyped
        <5>8. EnvKeeps(c.env, x.env)
          BY <3>1, <5>4, <5>5, EnvItself DEF IsTyped
        <5>9. Follows(d, c, x)
          BY <3>1, <5>4, <5>5, <5>6, <5>7, <5>8 DEF Follows
        <5>10. Wraps(CommandOf(x))
          BY <3>1, <5>6, LoopWraps
        <5>. QED BY <5>2, <5>9, <5>10
      <4>2. CASE ~Wrapped(c)
        <5>1. g[c] = c
          BY <4>2
        <5>2. Follows(d, c, c)
          BY <3>1, FollowsItself DEF SameRun
        <5>3. IsRetried(d, c) => Wraps(CommandOf(c))
          BY <2>4, <4>2
        <5> HIDE DEF g
        <5>. QED BY <5>1, <5>2, <5>3
      <4>. QED BY <4>1, <4>2
    <3> HIDE DEF g, f
    <3>3. Grows(d, [d EXCEPT !.containers = {g[c] : c \in d.containers}])
      BY <2>1, <3>2, MadeKept
    <3>4. f[d].containers = {g[c] : c \in d.containers}
      BY <2>1, <2>2 DEF IsDoc, IsRecord
    <3>5. \A c \in d.containers : IsRetried(f[d], g[c]) => IsRetried(d, c)
      BY <2>2, <3>2, <3>3 DEF Follows, Grows, Twin, IsRetried
    <3>. QED BY <2>2, <2>4, <3>2, <3>3, <3>4, <3>5
  <2>. QED BY <2>3, <2>4
<1> HIDE DEF f
<1>3. Kept(A, B)
  BY <1>2, PartKept DEF Runtime
<1>4. \A d \in A : HasPod(f[d]) => HasPod(d)
  BY <1>2
<1>5. AllRetried(B)
  BY <1>2, <1>4 DEF AllRetried
<1>. QED BY <1>1, <1>3, <1>5

LEMMA KindStays ==
  ASSUME NEW d, NEW S, IsRecord(d)
  PROVE  IsRecord([d EXCEPT !.containers = S]) /\ [d EXCEPT !.containers = S].kind = d.kind
BY DEF IsRecord

LEMMA SolrKept ==
  ASSUME NEW A, AreDocs(A), Typed(A) PROVE Kept(A, TuneSolr(A))
<1> DEFINE Solr(c) == AddEnv(AddEnv(c, [GC_TUNE |-> "ours"]), Capacity)
           ZooKeeper(c) == AddEnv(AddEnv(c, [ZK_SERVER_HEAP |-> "ours"]), Capacity)
           I(d) == Inside(d, LAMBDA c : c.name = "solr", Solr)
           J(d) == Inside(d, LAMBDA c : c.name = "zookeeper", ZooKeeper)
           f == [d \in A |-> IF d.kind = "SolrCloud" THEN J(I(d)) ELSE d]
<1>1. TuneSolr(A) = {f[d] : d \in A}
  BY DEF TuneSolr, Each
<1>2. ASSUME NEW d, IsRecord(d) PROVE IsRecord(I(d)) /\ I(d).kind = d.kind /\ J(d).kind = d.kind
  BY <1>2, KindStays DEF Inside
<1> HIDE DEF I, J
<1>3. ASSUME NEW d \in A PROVE f[d] = d \/ (~Runtime(d) /\ f[d].kind = d.kind)
  <2>1. IsRecord(d)
    BY DEF AreDocs, IsDoc
  <2>2. J(I(d)).kind = d.kind
    BY <1>2, <2>1
  <2>3. d.kind = "SolrCloud" => ~Runtime(d)
    BY DEF Runtime, HasPod, PodKinds
  <2>. QED BY <2>2, <2>3
<1> HIDE DEF f
<1>4. Kept(A, {f[d] : d \in A})
  BY <1>3, PartKept
<1>. QED BY <1>1, <1>4

LEMMA SolrStartKept ==
  ASSUME NEW A, AreDocs(A), Typed(A) PROVE Kept(A, EaseSolrStart(A))
<1> DEFINE I(d) == Inside(d, All, LAMBDA c : [c EXCEPT !.probes = "eased"])
           T(d) == I(d).containers \cup {LiveNodeWait}
           J(d) == [I(d) EXCEPT !.containers = T(d)]
           f == [d \in A |-> IF d.kind = "SolrCloud" THEN J(d) ELSE d]
<1>1. EaseSolrStart(A) = {f[d] : d \in A}
  BY DEF EaseSolrStart, Each
<1>2. ASSUME NEW d, IsRecord(d) PROVE IsRecord(I(d)) /\ I(d).kind = d.kind
  BY <1>2, KindStays DEF Inside
<1> HIDE DEF I, T
<1>3. ASSUME NEW d \in A PROVE f[d] = d \/ (~Runtime(d) /\ f[d].kind = d.kind)
  <2>1. IsRecord(d)
    BY DEF AreDocs, IsDoc
  <2>2. J(d).kind = d.kind
    BY <1>2, <2>1, KindStays
  <2>3. d.kind = "SolrCloud" => ~Runtime(d)
    BY DEF Runtime, HasPod, PodKinds
  <2>. QED BY <2>2, <2>3
<1> HIDE DEF f
<1>4. Kept(A, {f[d] : d \in A})
  BY <1>3, PartKept
<1>. QED BY <1>1, <1>4

LEMMA MountedFollows ==
  ASSUME NEW e, NEW c, NEW m, IsContainer(c), IsTyped(c)
  PROVE  /\ Follows(e, c, [c EXCEPT !.mounts = m]) /\ IsContainer([c EXCEPT !.mounts = m])
<1> DEFINE x == [c EXCEPT !.mounts = m]
<1>1. IsContainer(x) /\ x.name = c.name /\ x.env = c.env /\ x.memory = c.memory /\ SameRun(c, x)
  BY DEF IsContainer, SameRun
<1> HIDE DEF x
<1>2. Follows(e, c, x)
  BY <1>1, FollowsItself
<1>. QED BY <1>1, <1>2 DEF x

LEMMA MountKept ==
  ASSUME NEW A, AreDocs(A), Typed(A) PROVE Kept(A, MountZaakbrugRoleMapping(A))
<1> DEFINE V == {RoleMapping}
           Mounts(c) == [c EXCEPT !.mounts = @ \cup V]
           f == [d \in A |-> IF Has(A, "ConfigMap", RoleMapping) /\ IsA(d, "Deployment", "zaakbrug")
                             THEN [Inside(d, All, Mounts) EXCEPT !.volumes = @ \cup V] ELSE d]
<1>1. MountZaakbrugRoleMapping(A) = {f[d] : d \in A}
  BY DEF MountZaakbrugRoleMapping, Each
<1>2. ASSUME NEW d \in A PROVE f[d] = d \/ (Runtime(d) /\ Grows(d, f[d]))
  <2> SUFFICES ASSUME Has(A, "ConfigMap", RoleMapping), IsA(d, "Deployment", "zaakbrug")
               PROVE  Runtime(d) /\ Grows(d, f[d])
    OBVIOUS
  <2> DEFINE g == [c \in d.containers |-> [c EXCEPT !.mounts = c.mounts \cup V]]
             e == [d EXCEPT !.containers = {g[c] : c \in d.containers}]
  <2>1. Runtime(d)
    BY DEF IsA, Runtime, HasPod, PodKinds
  <2>2. IsDoc(d) /\ \A c \in d.containers : IsTyped(c) /\ IsContainer(c)
    BY <2>1 DEF AreDocs, Typed, IsDoc
  <2>3. f[d] = [e EXCEPT !.volumes = @ \cup V]
    BY DEF Inside, Each, All
  <2>4. ASSUME NEW c \in d.containers PROVE Follows(d, c, g[c])
    BY <2>2, MountedFollows
  <2> HIDE DEF f, g, V
  <2>5. Grows(d, [e EXCEPT !.volumes = @ \cup V])
    BY <2>2, <2>4, InsideKept
  <2>. QED BY <2>1, <2>3, <2>5
<1> HIDE DEF f
<1>3. Kept(A, {f[d] : d \in A})
  BY <1>2, PartKept
<1>. QED BY <1>1, <1>3

LEMMA LimitFollows ==
  ASSUME NEW e, NEW c, IsContainer(c), IsTyped(c)
  PROVE  LET tuned == AddEnv(c, Capacity)
             x == IF c.memory THEN AddEnv(tuned, [GOMEMLIMIT |-> "limits.memory"]) ELSE tuned
         IN  Follows(e, c, x) /\ x.memory = c.memory /\ (c.memory => "GOMEMLIMIT" \in Names(x.env))
<1> DEFINE tuned == AddEnv(c, Capacity)
           v == [GOMEMLIMIT |-> "limits.memory"]
           y == AddEnv(tuned, v)
           x == IF c.memory THEN y ELSE tuned
<1>1. IsContainer(tuned) /\ Follows(e, c, tuned) /\ tuned.memory = c.memory
  BY EnvAdded, EnvFollows, PostRenderAssumption
<1> HIDE DEF tuned
<1>2. IsTyped(tuned)
  BY <1>1 DEF Follows
<1>3. IsFiniteSet(DOMAIN v) /\ "GOMEMLIMIT" \in DOMAIN v
  BY FS_Singleton
<1> HIDE DEF v
<1>4. Follows(e, tuned, y) /\ "GOMEMLIMIT" \in Names(y.env) /\ y.memory = tuned.memory
  BY <1>1, <1>2, <1>3, EnvFollows
<1> HIDE DEF y
<1>5. Follows(e, c, y)
  <2>1. Twin(e, e)
    BY DEF Twin
  <2>. QED BY <1>1, <1>4, <2>1, FollowsTrans
<1>6. Follows(e, c, x) /\ x.memory = c.memory /\ (c.memory => "GOMEMLIMIT" \in Names(x.env))
  BY <1>1, <1>4, <1>5
<1>. QED BY <1>6 DEF x, y, v, tuned

LEMMA LimitKept ==
  ASSUME NEW A, AreDocs(A), Typed(A)
  PROVE  Kept(A, LimitRuntimes(A)) /\ AllLimited(LimitRuntimes(A))
<1> DEFINE f == [d \in A |-> Limited(d)]
           B == {f[d] : d \in A}
<1>1. LimitRuntimes(A) = B
  BY DEF LimitRuntimes, Limited, Each
<1>2. ASSUME NEW d \in A, Runtime(d)
      PROVE  Grows(d, f[d]) /\ \A c \in f[d].containers : c.memory => "GOMEMLIMIT" \in Names(c.env)
  <2> DEFINE e == Override(d)
             v == [GOMEMLIMIT |-> "limits.memory"]
             Limit(c) == LET tuned == AddEnv(c, Capacity) IN IF c.memory THEN AddEnv(tuned, v) ELSE tuned
             g == [c \in e.containers |-> Limit(c)]
  <2>1. Grows(d, e) /\ IsDoc(e) /\ \A c \in e.containers : IsTyped(c)
    BY <1>2, OverrideGrows DEF AreDocs, Typed
  <2>2. f[d] = [e EXCEPT !.containers = {g[c] : c \in e.containers}]
    BY <1>2 DEF Limited, Inside, Each, All
  <2> HIDE DEF e
  <2>3. ASSUME NEW c \in e.containers
        PROVE  Follows(e, c, g[c]) /\ (g[c].memory => "GOMEMLIMIT" \in Names(g[c].env))
    <3>1. g[c] = Limit(c)
      OBVIOUS
    <3> HIDE DEF g
    <3>2. Follows(e, c, Limit(c)) /\ Limit(c).memory = c.memory
            /\ (c.memory => "GOMEMLIMIT" \in Names(Limit(c).env))
      BY <2>1, LimitFollows DEF IsDoc
    <3> HIDE DEF Limit
    <3>. QED BY <3>1, <3>2
  <2> HIDE DEF g, f
  <2>4. Grows(e, [e EXCEPT !.containers = {g[c] : c \in e.containers}])
    BY <2>1, <2>3, MadeKept
  <2>5. f[d].containers = {g[c] : c \in e.containers}
    BY <2>1, <2>2 DEF IsDoc, IsRecord
  <2>6. Grows(d, f[d])
    BY <2>1, <2>2, <2>4, GrowsTrans
  <2>. QED BY <2>3, <2>5, <2>6
<1>3. \A d \in A : ~Runtime(d) => f[d] = d
  BY DEF Limited
<1> HIDE DEF f
<1>4. \A d \in A : Runtime(f[d]) => Runtime(d)
  BY <1>3
<1>5. Kept(A, B)
  BY <1>2, <1>4, MapKept
<1>6. AllLimited(B)
  BY <1>2, <1>4 DEF AllLimited
<1>. QED BY <1>1, <1>5, <1>6

LEMMA TrustKept ==
  ASSUME NEW A, AreDocs(A), Typed(A) PROVE Kept(A, TrustCa(A))
<1> DEFINE f == [d \in A |-> IF HasPod(d) THEN Trusting(d) ELSE d]
<1>1. TrustCa(A) = {f[d] : d \in A}
  BY DEF TrustCa, Trusting, Each
<1>2. ASSUME NEW d \in A PROVE f[d] = d \/ (Runtime(d) /\ Grows(d, f[d]))
  <2> SUFFICES ASSUME HasPod(d) PROVE Runtime(d) /\ Grows(d, f[d])
    OBVIOUS
  <2> DEFINE V == {"ca"}
             v == [SSL_CERT_FILE |-> "ours"]
             g == [c \in d.containers |-> AddEnv([c EXCEPT !.mounts = @ \cup V], v)]
             e == [d EXCEPT !.containers = {g[c] : c \in d.containers}]
  <2>1. Runtime(d)
    BY DEF Runtime
  <2>2. IsDoc(d) /\ \A c \in d.containers : IsTyped(c) /\ IsContainer(c)
    BY <2>1 DEF AreDocs, Typed, IsDoc
  <2>3. f[d] = [e EXCEPT !.volumes = @ \cup V]
    BY DEF Trusting, Inside, Each, All
  <2>4. ASSUME NEW c \in d.containers PROVE Follows(d, c, g[c])
    <3> DEFINE m == c.mounts \cup V
               x == [c EXCEPT !.mounts = m]
    <3>1. g[c] = AddEnv(x, v)
      OBVIOUS
    <3>2. IsFiniteSet(DOMAIN v)
      BY FS_Singleton
    <3> HIDE DEF m, g, v
    <3>3. Follows(d, c, x) /\ IsContainer(x)
      BY <2>2, MountedFollows
    <3> HIDE DEF x
    <3>4. Follows(d, x, AddEnv(x, v))
      BY <3>2, <3>3, EnvFollows DEF Follows
    <3>5. Twin(d, d)
      BY DEF Twin
    <3>. QED BY <3>1, <3>3, <3>4, <3>5, FollowsTrans
  <2> HIDE DEF f, g, V
  <2>5. Grows(d, [e EXCEPT !.volumes = @ \cup V])
    BY <2>2, <2>4, InsideKept
  <2>. QED BY <2>1, <2>3, <2>5
<1> HIDE DEF f
<1>3. Kept(A, {f[d] : d \in A})
  BY <1>2, PartKept
<1>. QED BY <1>1, <1>3

LEMMA PostgresKept ==
  ASSUME NEW A, AreDocs(A), Typed(A) PROVE Kept(A, ServePostgresTls(A))
<1> DEFINE V == {"postgres-tls"}
           Tls(c) == [c EXCEPT !.mounts = @ \cup V,
                               !.command = <<"sh", "-c", "install tls; exec $@", "--">>,
                               !.args = @ \o <<"ssl=on">>]
           Postgres(d) == IsA(d, "Deployment", "postgres")
           f == [d \in A |-> IF Postgres(d) THEN [Inside(d, IsFirst, Tls) EXCEPT !.volumes = @ \cup V] ELSE d]
           new == [Doc EXCEPT !.kind = "Certificate", !.name = "postgres-tls"]
           B == {f[d] : d \in A}
<1>1. ServePostgresTls(A) = B \cup IF \E d \in A : Postgres(d) THEN {new} ELSE {}
  BY DEF ServePostgresTls, Each
<1>2. ~Runtime(new)
  <2>1. new.kind = "Certificate"
    BY DEF Doc
  <2> HIDE DEF new
  <2>. QED BY <2>1 DEF Runtime, HasPod, PodKinds
<1> HIDE DEF new
<1>3. ASSUME NEW d \in A PROVE f[d] = d \/ (Runtime(d) /\ Grows(d, f[d]))
  <2> SUFFICES ASSUME IsA(d, "Deployment", "postgres") PROVE Runtime(d) /\ Grows(d, f[d])
    OBVIOUS
  <2> DEFINE g == [c \in d.containers |-> IF c.first THEN Tls(c) ELSE c]
             e == [d EXCEPT !.containers = {g[c] : c \in d.containers}]
  <2>1. Runtime(d) /\ d.name = "postgres"
    BY DEF IsA, Runtime, HasPod, PodKinds
  <2>2. IsDoc(d) /\ \A c \in d.containers : IsTyped(c) /\ IsContainer(c)
    BY <2>1 DEF AreDocs, Typed, IsDoc
  <2>3. f[d] = [e EXCEPT !.volumes = @ \cup V]
    BY DEF Inside, Each, IsFirst
  <2>4. ASSUME NEW c \in d.containers PROVE Follows(d, c, g[c])
    <3> DEFINE m == c.mounts \cup V
               o == <<"sh", "-c", "install tls; exec $@", "--">>
               a == c.args \o <<"ssl=on">>
               x == [c EXCEPT !.mounts = m]
               y == [x EXCEPT !.command = o]
               z == [y EXCEPT !.args = a]
    <3>0. CASE ~c.first
      <4>1. g[c] = c
        BY <3>0
      <4> HIDE DEF g
      <4>. QED BY <2>2, <4>1, FollowsItself DEF SameRun
    <3> SUFFICES ASSUME c.first PROVE Follows(d, c, g[c])
      BY <3>0
    <3>1. g[c] = z
      <4>1. g[c] = [c EXCEPT !.mounts = m, !.command = o, !.args = a]
        OBVIOUS
      <4> HIDE DEF m, o, a, g
      <4>. QED BY <2>2, <4>1 DEF IsContainer
    <3>2. IsList(o) /\ IsList(a)
      <4>1. ASSUME NEW p, NEW q, NEW r, NEW s PROVE IsList(<<p, q, r, s>>)
        <5>1. <<p, q, r, s>> \in Seq({p, q, r, s})
          OBVIOUS
        <5>. QED BY <5>1, ListOf
      <4>2. IsList(<<"ssl=on">>)
        <5>1. <<"ssl=on">> \in Seq({"ssl=on"})
          OBVIOUS
        <5>. QED BY <5>1, ListOf
      <4>. QED BY <2>2, <4>1, <4>2, Lists DEF IsTyped
    <3>7. o # <<>> /\ Serves(d, c)
      BY DEF Serves
    <3>8. IsContainer(c)
      BY <2>2
    <3> HIDE DEF m, o, a, g
    <3>3. IsContainer(x) /\ x.name = c.name /\ x.env = c.env /\ x.memory = c.memory /\ x.first = c.first
      <4>1. IsContainer(x)
        BY <3>8, ContainerChanges
      <4>2. x.name = c.name
        BY <3>8 DEF IsContainer
      <4>3. x.env = c.env
        BY <3>8 DEF IsContainer
      <4>4. x.memory = c.memory
        BY <3>8 DEF IsContainer
      <4>5. x.first = c.first
        BY <3>8 DEF IsContainer
      <4>. QED BY <4>1, <4>2, <4>3, <4>4, <4>5
    <3> HIDE DEF x
    <3>4. IsContainer(y) /\ y.name = x.name /\ y.env = x.env /\ y.memory = x.memory /\ y.command = o
            /\ y.first = x.first
      <4>0. IsContainer(x)
        BY <3>3
      <4>1. IsContainer(y)
        BY <4>0, ContainerChanges
      <4>2. y.name = x.name /\ y.env = x.env
        BY <4>0 DEF IsContainer
      <4>3. y.command = o
        BY <4>0 DEF IsContainer
      <4>4. y.memory = x.memory
        BY <4>0 DEF IsContainer
      <4>5. y.first = x.first
        BY <4>0 DEF IsContainer
      <4>. QED BY <3>3, <4>1, <4>2, <4>3, <4>4, <4>5
    <3> HIDE DEF y
    <3>5. z.name = y.name /\ z.env = y.env /\ z.memory = y.memory /\ z.command = y.command /\ z.args = a
            /\ z.first = y.first
      BY <3>4 DEF IsContainer
    <3> HIDE DEF z
    <3>6. IsTyped(z) /\ EnvKeeps(c.env, z.env)
      BY <2>2, <3>2, <3>3, <3>4, <3>5, EnvItself DEF IsTyped
    <3>. QED BY <2>1, <2>2, <3>1, <3>3, <3>4, <3>5, <3>6, <3>7 DEF Follows
  <2> HIDE DEF f, g, V
  <2>5. Grows(d, [e EXCEPT !.volumes = @ \cup V])
    BY <2>2, <2>4, InsideKept
  <2>. QED BY <2>1, <2>3, <2>5
<1> HIDE DEF f
<1>4. Kept(A, B)
  BY <1>3, PartKept
<1> HIDE DEF B, Postgres
<1>. QED BY <1>1, <1>2, <1>4 DEF Kept

LEMMA MergeKept ==
  ASSUME NEW A, NEW m, AreDocs(A), Typed(A) PROVE Kept(A, MergeObjecten(A, m))
<1> DEFINE f == [d \in A |-> IF m /\ IsA(d, "ConfigMap", "objecten-configuration") THEN Merged(m, d) ELSE d]
<1>1. MergeObjecten(A, m) = {f[d] : d \in A}
  BY DEF MergeObjecten, Each, Merged, IsA
<1>2. ASSUME NEW d \in A PROVE f[d] = d \/ (~Runtime(d) /\ f[d].kind = d.kind)
  <2>1. IsA(d, "ConfigMap", "objecten-configuration") => ~Runtime(d) /\ Merged(m, d).kind = d.kind
    BY MergedDoc DEF IsA, AreDocs, Runtime, HasPod, PodKinds
  <2>. QED BY <2>1
<1> HIDE DEF f
<1>3. Kept(A, {f[d] : d \in A})
  BY <1>2, PartKept
<1>. QED BY <1>1, <1>3

LEMMA LoadKept ==
  ASSUME NEW A, AreDocs(A), Typed(A) PROVE Kept(A, Load(A))
<1> DEFINE f == [d \in A |-> Loaded(d)]
<1>1. Load(A) = {f[d] : d \in A}
  BY Loads
<1>2. ASSUME NEW d \in A PROVE (Runtime(d) => Grows(d, f[d])) /\ (Runtime(f[d]) => Runtime(d))
  <2>1. IsDoc(d) /\ Loaded(d).kind = d.kind
    BY LoadedDoc DEF AreDocs, Named
  <2>2. ASSUME Runtime(d) PROVE Grows(d, Loaded(d))
    <3> DEFINE g == [c \in d.containers |-> [c EXCEPT !.digest = "none"]]
               e == [d EXCEPT !.containers = {g[c] : c \in d.containers}]
               X == IF d.kind \in {"Job", "Pod"} THEN {} ELSE Digests(d)
               v == e.notes \cup X
               x == [e EXCEPT !.notes = v]
    <3>1. \A c \in d.containers : IsTyped(c) /\ IsContainer(c)
      BY <2>1, <2>2 DEF Typed, IsDoc
    <3>2. Loaded(d) = x
      BY DEF Loaded, Inside, Each, All
    <3>3. ASSUME NEW c \in d.containers PROVE Follows(d, c, g[c])
      <4>1. /\ g[c].name = c.name /\ g[c].env = c.env /\ g[c].memory = c.memory /\ SameRun(c, g[c])
        BY <3>1 DEF IsContainer, SameRun
      <4> HIDE DEF g
      <4>. QED BY <3>1, <4>1, FollowsItself
    <3> HIDE DEF g
    <3>4. Grows(d, e)
      BY <2>1, <3>3, MadeKept
    <3>5. IsRecord(e)
      BY <2>1, KindStays DEF IsDoc
    <3> HIDE DEF e, v
    <3>6. Twin(e, x) /\ x.containers = e.containers
      BY <3>5 DEF IsRecord, Twin
    <3> HIDE DEF x
    <3>. QED BY <3>2, <3>4, <3>6 DEF Grows, Twin
  <2>. QED BY <2>1, <2>2 DEF Runtime, HasPod
<1> HIDE DEF f
<1>3. Kept(A, {f[d] : d \in A})
  BY <1>2, MapKept
<1>. QED BY <1>1, <1>3

\* What is established stays so.
LEMMA OnceKept ==
  ASSUME NEW A, NEW B, AllOnce(A), Kept(A, B) PROVE AllOnce(B)
<1> SUFFICES ASSUME NEW d \in B, Runtime(d), NEW c \in d.containers PROVE Once(c.env)
  BY DEF AllOnce
<1>1. PICK e \in A : Grows(e, d)
  BY DEF Kept
<1>2. Runtime(e)
  BY <1>1 DEF Grows, Twin, Runtime, HasPod
<1>3. \A b \in e.containers : Follows(e, b, c) => Once(c.env)
  BY <1>2 DEF AllOnce, Follows, EnvKeeps
<1>. QED BY <1>1, <1>3 DEF Grows, Fresh

LEMMA OperatedKept ==
  ASSUME NEW A, NEW B, Operated(A), Kept(A, B) PROVE Operated(B)
<1> SUFFICES ASSUME NEW d \in B, d.kind = "Prometheus" PROVE \E c \in d.containers : c.name = "prometheus"
  BY DEF Operated
<1>1. Runtime(d)
  BY DEF Runtime
<1>2. PICK e \in A : Grows(e, d)
  BY <1>1 DEF Kept
<1>3. PICK b \in e.containers : b.name = "prometheus"
  BY <1>2 DEF Operated, Grows, Twin
<1>. QED BY <1>2, <1>3 DEF Grows, Follows

LEMMA ToldKept ==
  ASSUME NEW A, NEW B, Told(A), Kept(A, B) PROVE Told(B)
<1> SUFFICES ASSUME NEW d \in B, d.kind = "Keycloak", d.resources = "limited",
                    NEW c \in d.containers, c.name = "keycloak"
             PROVE  c.memory
  BY DEF Told
<1>1. Runtime(d)
  BY DEF Runtime
<1>2. PICK e \in A : Grows(e, d)
  BY <1>1 DEF Kept
<1>3. e.kind = "Keycloak" /\ e.resources = "limited"
  BY <1>2 DEF Grows, Twin
<1>4. PICK b \in e.containers : Follows(e, b, c)
  BY <1>2, <1>3 DEF Grows, Fresh
<1>. QED BY <1>3, <1>4 DEF Told, Follows, Lowered

LEMMA KnownKept ==
  ASSUME NEW A, NEW B, Known(A), Kept(A, B) PROVE Known(B)
<1> SUFFICES ASSUME NEW d \in B, HasPod(d), NEW c \in d.containers, IsRetried(d, c), c.command = <<>>
             PROVE  c.name \in DOMAIN Entrypoints
  BY DEF Known, Knows
<1>1. Runtime(d)
  BY DEF Runtime
<1>2. PICK e \in A : Grows(e, d)
  BY <1>1 DEF Kept
<1>3. HasPod(e)
  BY <1>2 DEF Grows, Twin, HasPod
<1>4. PICK b \in e.containers : Follows(e, b, c)
  BY <1>2, <1>3 DEF Grows, Fresh, HasPod, PodKinds
<1>5. SameRun(b, c)
  BY <1>4, LoopWraps DEF Follows
<1>6. IsRetried(e, b)
  BY <1>2, <1>4 DEF Grows, Twin, Follows, IsRetried
<1>. QED BY <1>3, <1>4, <1>5, <1>6 DEF Known, Knows, SameRun, Follows

LEMMA RetriedKept ==
  ASSUME NEW A, NEW B, AllRetried(A), Kept(A, B) PROVE AllRetried(B)
<1> SUFFICES ASSUME NEW d \in B, HasPod(d), NEW c \in d.containers, IsRetried(d, c), ~Serves(d, c)
             PROVE  Wraps(CommandOf(c))
  BY DEF AllRetried
<1>1. Runtime(d)
  BY DEF Runtime
<1>2. PICK e \in A : Grows(e, d)
  BY <1>1 DEF Kept
<1>3. HasPod(e)
  BY <1>2 DEF Grows, Twin, HasPod
<1>4. PICK b \in e.containers : Follows(e, b, c)
  BY <1>2, <1>3 DEF Grows, Fresh, HasPod, PodKinds
<1>5. Wraps(CommandOf(b)) /\ ~Serves(e, b)
  <2>1. IsRetried(e, b) /\ ~Serves(e, b)
    BY <1>2, <1>4 DEF Grows, Twin, Follows, IsRetried, Serves, IsA
  <2>. QED BY <1>3, <2>1 DEF AllRetried
<1>6. SameRun(b, c) /\ c.name = b.name
  BY <1>4, <1>5 DEF Follows, Looped
<1>. QED BY <1>5, <1>6 DEF SameRun, CommandOf

LEMMA LimitedKept ==
  ASSUME NEW A, NEW B, AllLimited(A), Told(A), Operated(A), Kept(A, B) PROVE AllLimited(B)
<1> SUFFICES ASSUME NEW d \in B, Runtime(d), NEW c \in d.containers, c.memory PROVE "GOMEMLIMIT" \in Names(c.env)
  BY DEF AllLimited
<1>1. PICK e \in A : Grows(e, d)
  BY DEF Kept
<1>2. Runtime(e)
  BY <1>1 DEF Grows, Twin, Runtime, HasPod
<1>3. PICK b \in e.containers : Follows(e, b, c)
  <2>1. ~Fresh(e, c)
    BY DEF Operated, Fresh
  <2>. QED BY <1>1, <2>1 DEF Grows
<1>4. b.memory
  BY <1>3 DEF Told, Follows, Raised
<1>. QED BY <1>2, <1>3, <1>4 DEF AllLimited, Follows, EnvKeeps

\* The fixups together.
LEMMA RenderingKept ==
  ASSUME NEW A, AreDocs(A), Typed(A), Known(A), NEW hold, NEW merged
  PROVE  LET D == PostRender(A, hold, merged)
         IN  Kept(A, D) /\ AllOnce(D) /\ Operated(D) /\ Told(D) /\ AllRetried(D) /\ AllLimited(D)
<1> DEFINE A1 == DropCollector(A)
           A2 == HoldZac(A1, hold)
           A3 == DisableServiceLinks(A2)
           A4 == AllowRollingUpdates(A3)
           A5 == DropDuplicateEnv(A4)
           B  == RouteOutbound(A5)
           C  == LimitNginxWorkers(B)
           C1 == RouteThroughNginx(C)
           C2 == TuneKeycloak(C1)
           C3 == TuneKcadm(C2)
           C4 == SpeedUpKeycloakStart(C3)
           C5 == RetryInContainer(C4)
           C6 == TuneSolr(C5)
           C7 == EaseSolrStart(C6)
           C8 == MountZaakbrugRoleMapping(C7)
           C9 == LimitRuntimes(C8)
           C10 == TrustCa(C9)
           C11 == ServePostgresTls(C10)
           D  == MergeObjecten(C11, merged)
<1>1. PostRender(A, hold, merged) = D
  BY DEF PostRender
<1> HIDE DEF A1, A2, A3, A4, A5, B, C, C1, C2, C3, C4, C5, C6, C7, C8, C9, C10, C11, D
<1>2. AreDocs(A1) /\ Kept(A, A1) /\ Typed(A1)
  BY DropCollectorPlain, DropCollectorKept, KeptTyped DEF A1, Plain
<1>3. AreDocs(A2) /\ Kept(A1, A2) /\ Typed(A2)
  BY <1>2, HoldZacPlain, HoldZacKept, KeptTyped DEF A2, Plain
<1>4. AreDocs(A3) /\ Kept(A2, A3) /\ Typed(A3)
  BY <1>3, LinksPlain, LinksKept, KeptTyped DEF A3, Plain
<1>5. AreDocs(A4) /\ Kept(A3, A4) /\ Typed(A4)
  BY <1>4, UpdatesPlain, UpdatesKept, KeptTyped DEF A4, Plain
<1>6. AreDocs(A5) /\ Kept(A4, A5) /\ Typed(A5) /\ AllOnce(A5) /\ Operated(A5)
  BY <1>5, DedupPlain, DedupKept, KeptTyped DEF A5, Plain
<1>7. AreDocs(B) /\ Kept(A5, B) /\ Typed(B)
  BY <1>6, Rolls, RollsKept, KeptTyped DEF B, Rolled, RouteOutbound
<1>8. AreDocs(C) /\ Kept(B, C) /\ Typed(C)
  <2> DEFINE auto == "workers auto"
             one == "workers 1"
  <2>1. C = RollReaders(Replaced(B, auto, one), NamesWith(B, auto), <<"nginx-workers", "1">>)
    BY DEF C, LimitNginxWorkers
  <2> HIDE DEF auto, one
  <2>2. AreDocs(C) /\ Kept(B, C)
    BY <1>7, <2>1, Rolls, RollsKept DEF Rolled
  <2>. QED BY <2>2, KeptTyped
<1>9. AreDocs(C1) /\ Kept(C, C1) /\ Typed(C1)
  BY <1>8, NginxPlain, NginxKept, KeptTyped DEF C1, Plain
<1>10. AreDocs(C2) /\ Kept(C1, C2) /\ Typed(C2) /\ Told(C2)
  BY <1>9, KeycloakPlain, KeycloakKept, KeptTyped DEF C2, Plain
<1>11. AreDocs(C3) /\ Kept(C2, C3) /\ Typed(C3)
  BY <1>10, KcadmPlain, KcadmKept, KeptTyped DEF C3, Plain
<1>12. AreDocs(C4) /\ Kept(C3, C4) /\ Typed(C4)
  BY <1>11, SpeedPlain, SpeedKept, KeptTyped DEF C4, Plain
<1>38. Known(C4)
  <2>1. Kept(A, A4)
    BY <1>2, <1>3, <1>4, <1>5, KeptTrans
  <2>2. Kept(A5, C1)
    BY <1>7, <1>8, <1>9, KeptTrans
  <2>3. Kept(C1, C4)
    BY <1>10, <1>11, <1>12, KeptTrans
  <2>4. Known(A5)
    BY <1>6, <2>1, KnownKept
  <2>. QED BY <2>2, <2>3, <2>4, KnownKept
<1>13. AreDocs(C5) /\ Kept(C4, C5) /\ Typed(C5) /\ AllRetried(C5)
  BY <1>12, <1>38, RetryPlain, RetryKept, KeptTyped DEF C5, Plain
<1>14. AreDocs(C6) /\ Kept(C5, C6) /\ Typed(C6)
  BY <1>13, SolrPlain, SolrKept, KeptTyped DEF C6, Plain
<1>15. AreDocs(C7) /\ Kept(C6, C7) /\ Typed(C7)
  BY <1>14, SolrStartPlain, SolrStartKept, KeptTyped DEF C7, Plain
<1>16. AreDocs(C8) /\ Kept(C7, C8) /\ Typed(C8)
  BY <1>15, MountPlain, MountKept, KeptTyped DEF C8, Plain
<1>17. AreDocs(C9) /\ Kept(C8, C9) /\ Typed(C9) /\ AllLimited(C9)
  BY <1>16, LimitPlain, LimitKept, KeptTyped DEF C9, Plain
<1>18. AreDocs(C10) /\ Kept(C9, C10) /\ Typed(C10)
  BY <1>17, TrustPlain, TrustKept, KeptTyped DEF C10, Plain
<1>19. AreDocs(C11) /\ Kept(C10, C11) /\ Typed(C11)
  BY <1>18, PostgresPlain, PostgresKept, KeptTyped DEF C11, Plain
<1>20. Kept(C11, D)
  BY <1>19, MergeKept DEF D
<1>21. Kept(A, A4)
  BY <1>2, <1>3, <1>4, <1>5, KeptTrans
<1>22. Kept(A5, C1)
  BY <1>7, <1>8, <1>9, KeptTrans
<1>23. Kept(C2, C4)
  BY <1>11, <1>12, KeptTrans
<1>24. Kept(C5, C8)
  BY <1>14, <1>15, <1>16, KeptTrans
<1>25. Kept(C9, D)
  BY <1>18, <1>19, <1>20, KeptTrans
<1>26. Kept(C5, C9)
  BY <1>17, <1>24, KeptTrans
<1>27. Kept(C5, D)
  BY <1>25, <1>26, KeptTrans
<1>28. Kept(C2, C5)
  BY <1>13, <1>23, KeptTrans
<1>29. Kept(C2, C9)
  BY <1>26, <1>28, KeptTrans
<1>30. Kept(A5, C2)
  BY <1>10, <1>22, KeptTrans
<1>31. Kept(A5, C9)
  BY <1>29, <1>30, KeptTrans
<1>32. Kept(A5, D)
  BY <1>25, <1>31, KeptTrans
<1>33. Kept(A, D)
  BY <1>6, <1>21, <1>32, KeptTrans
<1>34. AllOnce(D) /\ Operated(D) /\ Operated(C9)
  BY <1>6, <1>31, <1>32, OnceKept, OperatedKept
<1>35. Told(C9) /\ Told(D)
  BY <1>10, <1>25, <1>29, ToldKept
<1>36. AllRetried(D)
  BY <1>13, <1>27, RetriedKept
<1>37. AllLimited(D)
  BY <1>17, <1>25, <1>34, <1>35, LimitedKept
<1>. QED BY <1>1, <1>33, <1>34, <1>35, <1>36, <1>37

-----------------------------------------------------------------------------
(* What containers run, and with what, once a deploy has finished. *)

\* Four words before a list.
After(l, a) ==
  /\ SubSeq(l \o a, 5, Len(l \o a)) = a
  /\ Len(l \o a) = Len(a) + 4 /\ DOMAIN (l \o a) = 1..(Len(a) + 4) /\ Len(a) \in Nat /\ DOMAIN a = 1..Len(a)
  /\ \A i \in 1..4 : (l \o a)[i] = l[i]
  /\ \A i \in 5..(Len(a) + 4) : (l \o a)[i] = a[i - 4]

LEMMA Four ==
  ASSUME NEW S, NEW l \in Seq(S), NEW a \in Seq(S), Len(l) = 4
  PROVE  After(l, a)
<1> DEFINE m == l \o a
<1>1. m \in Seq(S) /\ Len(m) = 4 + Len(a) /\ \A i \in 1..(4 + Len(a)) : m[i] = IF i <= 4 THEN l[i] ELSE a[i - 4]
  <2>1. /\ l \o a \in Seq(S) /\ Len(l \o a) = Len(l) + Len(a)
        /\ \A i \in 1..(Len(l) + Len(a)) : (l \o a)[i] = IF i <= Len(l) THEN l[i] ELSE a[i - Len(l)]
    BY ConcatProperties
  <2>. QED BY <2>1
<1>2. Len(a) \in Nat /\ DOMAIN a = 1..Len(a)
  OBVIOUS
<1> HIDE DEF m
<1>3. DOMAIN m = 1..(4 + Len(a))
  BY <1>1, <1>2
<1>4. SubSeq(m, 5, Len(m)) = a
  <2> DEFINE s == SubSeq(m, 5, Len(m))
  <2>1. s \in Seq(S) /\ Len(s) = Len(a) /\ \A i \in 1..Len(a) : s[i] = m[4 + i]
    BY <1>1, <1>2
  <2>2. \A i \in 1..Len(a) : s[i] = a[i]
    BY <1>1, <1>2, <2>1
  <2> HIDE DEF s
  <2>3. s = a
    BY <1>2, <2>1, <2>2
  <2>. QED BY <2>3 DEF s
<1>. QED BY <1>1, <1>2, <1>3, <1>4 DEF After, m

\* What the loop runs is what it was made around.
LEMMA LoopRuns ==
  ASSUME NEW e, NEW b, NEW c, IsTyped(b), Looped(e, b, c), Loops(Argv(b)) = 0,
         Argv(b) = CommandOf(b) \o b.args
  PROVE  Program(Argv(c)) = Argv(b) /\ Program(Argv(b)) = Argv(b) /\ Loops(Argv(c)) = 1
<1>1. PICK a, m : a = Argv(b) /\ m = Argv(c)
  OBVIOUS
<1>2. PICK l : l = Loop \o <<"retry">>
  OBVIOUS
<1>3. m = l \o a /\ IsList(a)
  BY <1>1, <1>2, LoopWraps
<1>4. PICK U : U = {"sh", "-c", Until, "retry"}
  OBVIOUS
<1>5. l \in Seq(U) /\ Len(l) = 4 /\ l[3] = Until /\ \A i \in 1..4 : l[i] = Until => i = 3
  <2>1. Loop \in Seq(U) /\ Len(Loop) = 3 /\ Loop[1] = "sh" /\ Loop[2] = "-c" /\ Loop[3] = Until
    BY <1>4 DEF Loop
  <2>2. PICK q : q = <<"retry">>
    OBVIOUS
  <2>3. q \in Seq(U) /\ Len(q) = 1 /\ q[1] = "retry"
    BY <1>4, <2>2
  <2>4. /\ Loop \o q \in Seq(U) /\ Len(Loop \o q) = Len(Loop) + Len(q)
        /\ \A i \in 1..(Len(Loop) + Len(q)) :
             (Loop \o q)[i] = IF i <= Len(Loop) THEN Loop[i] ELSE q[i - Len(Loop)]
    BY <2>1, <2>3, ConcatProperties
  <2>5. l = Loop \o q
    BY <1>2, <2>2
  <2>6. l \in Seq(U) /\ Len(l) = 4 /\ l[1] = "sh" /\ l[2] = "-c" /\ l[3] = Until /\ l[4] = "retry"
    BY <2>1, <2>3, <2>4, <2>5
  <2>7. "sh" # Until /\ "-c" # Until /\ "retry" # Until
    BY DEF Until
  <2>. QED BY <2>6, <2>7
<1>6. After(l, a)
  <2> DEFINE S == Range(a) \cup U
  <2>1. a \in Seq(S) /\ l \in Seq(S)
    BY <1>3, <1>5 DEF IsList
  <2>. QED BY <1>5, <2>1, Four
<1>7. \A i \in 1..Len(a) : a[i] # Until
  <2> DEFINE T == {i \in DOMAIN a : a[i] = Until}
  <2>1. T \subseteq 1..Len(a) /\ Len(a) \in Nat /\ DOMAIN a = 1..Len(a)
    BY <1>6 DEF After
  <2>2. Cardinality(T) = 0
    BY <1>1 DEF Loops
  <2> HIDE DEF T
  <2>3. IsFiniteSet(T)
    <3>1. IsFiniteSet(1..Len(a))
      BY <2>1, FS_Interval
    <3>. QED BY <2>1, <3>1, FS_Subset
  <2>4. T = {}
    BY <2>2, <2>3, FS_EmptySet
  <2>. QED BY <2>1, <2>4 DEF T
<1>8. Program(a) = a
  <2>1. Len(a) > 2 => 3 \in 1..Len(a)
    BY <1>6 DEF After
  <2>. QED BY <1>7, <2>1 DEF Program, Wraps
<1>9. Program(m) = a
  <2>1. Len(m) > 2 /\ m[3] = Until /\ SubSeq(m, 5, Len(m)) = a
    BY <1>3, <1>5, <1>6 DEF After
  <2>. QED BY <2>1 DEF Program, Wraps
<1>10. Loops(m) = 1
  <2>1. DOMAIN m = 1..(Len(a) + 4) /\ Len(a) \in Nat
    BY <1>3, <1>6 DEF After
  <2>2. \A i \in 1..(Len(a) + 4) : m[i] = Until <=> i = 3
    <3> SUFFICES ASSUME NEW i \in 1..(Len(a) + 4) PROVE m[i] = Until <=> i = 3
      OBVIOUS
    <3>1. CASE i \in 1..4
      BY <1>3, <1>5, <1>6, <3>1 DEF After
    <3>2. CASE i \in 5..(Len(a) + 4)
      <4>1. i - 4 \in 1..Len(a) /\ m[i] = a[i - 4]
        BY <1>3, <1>6, <2>1, <3>2 DEF After
      <4>. QED BY <1>7, <3>2, <4>1
    <3>. QED BY <2>1, <3>1, <3>2
  <2>3. {i \in DOMAIN m : m[i] = Until} = {3}
    BY <2>1, <2>2
  <2>. QED BY <2>3, FS_Singleton DEF Loops
<1>. QED BY <1>1, <1>8, <1>9, <1>10

\* What the last deploy wanted, which is there once it has finished.
OnRendered ==
  /\ \/ want = {} /\ step = "idle" /\ ~finished
     \/ \E t \in Toggled, hold \in BOOLEAN : on = t /\ Known(Rendered(t)) /\ want = Installs(t, hold)
  /\ finished => step = "idle" /\ cluster = want

LEMMA OnNext == OnRendered /\ [RolloutNext]_rolloutVars => OnRendered'
<1> SUFFICES ASSUME OnRendered, [RolloutNext]_rolloutVars PROVE OnRendered'
  OBVIOUS
<1>1. ASSUME NEW t \in SUBSET Toggles, Deploy(t) PROVE OnRendered'
  <2> DEFINE hold == Jobs(FixUp(Rendered(t), ObjectenMerged(t))) \cap ZacJobs # {} /\ ~Has(cluster, "Deployment", "zac")
  <2>1. want' = Installs(t, hold) /\ hold \in BOOLEAN /\ on' = t /\ t \in Toggled /\ ~finished' /\ Known(Rendered(t))
    BY <1>1 DEF Deploy, Installs, Toggled
  <2> HIDE DEF hold
  <2>. QED BY <2>1 DEF OnRendered
<1>2. CASE Settings \/ Create \/ \E d \in want : Patch(d)
  <2>1. step # "idle" /\ UNCHANGED <<want, on, finished>>
    BY <1>2 DEF Settings, Create, Patch
  <2>. QED BY <2>1 DEF OnRendered
<1>3. CASE Finish \/ Cut
  BY <1>3 DEF Finish, Cut, OnRendered
<1>4. CASE UNCHANGED rolloutVars \/ \E d \in cluster : PodRestarts(d)
  BY <1>4 DEF rolloutVars, PodRestarts, OnRendered
<1>. QED BY <1>1, <1>2, <1>3, <1>4 DEF RolloutNext

\* What there is to a container on the cluster once a deploy has finished.
LEMMA Renders ==
  ASSUME WellFormed, RuntimesApart, OnRendered, finished, NEW d \in cluster, Runtime(d)
  PROVE  \E t \in Toggled : on = t /\ Known(Rendered(t)) /\ \E e \in Rendered(t) :
           /\ Runtime(e) /\ Grows(e, d)
           /\ \A c \in d.containers : \A b \in Before(d, c) : b \in e.containers /\ Follows(e, b, c)
<1>1. PICK t \in Toggled, hold \in BOOLEAN : on = t /\ Known(Rendered(t)) /\ cluster = Installs(t, hold)
  BY DEF OnRendered
<1>2. AreDocs(Rendered(t)) /\ Typed(Rendered(t))
  BY DEF WellFormed, RuntimesApart, Typed
<1>3. /\ AreDocs(Load(Rendered(t))) /\ Kept(Rendered(t), Load(Rendered(t))) /\ Typed(Load(Rendered(t)))
      /\ Known(Load(Rendered(t)))
  BY <1>1, <1>2, Loads, LoadKept, KeptTyped, KnownKept
<1>4. Kept(Rendered(t), PostRender(Load(Rendered(t)), hold, ObjectenMerged(t)))
  BY <1>3, RenderingKept, KeptTrans
<1>5. PICK e \in Rendered(t) : Grows(e, d)
  BY <1>1, <1>4 DEF Installs, Kept
<1>6. Runtime(e) /\ Key(e) = Key(d)
  BY <1>5 DEF Grows, Twin, Runtime, HasPod, Key
<1>7. ASSUME NEW c \in d.containers, NEW b \in Before(d, c) PROVE b \in e.containers /\ Follows(e, b, c)
  <2>1. b \in e.containers /\ b.name = c.name
    BY <1>1, <1>6 DEF Before, RuntimesApart
  <2>2. ~Fresh(e, c)
    BY <2>1 DEF Fresh
  <2>3. PICK a \in e.containers : Follows(e, a, c)
    BY <1>5, <2>2 DEF Grows
  <2>4. a = b
    BY <1>6, <2>1, <2>3 DEF RuntimesApart, Follows
  <2>. QED BY <2>1, <2>3, <2>4
<1>. QED BY <1>1, <1>5, <1>6, <1>7

LEMMA Established ==
  ASSUME WellFormed, RuntimesApart, OnRendered, finished
  PROVE  Typed(cluster) /\ AllOnce(cluster) /\ Operated(cluster) /\ Told(cluster) /\ AllRetried(cluster) /\ AllLimited(cluster)
<1>1. PICK t \in Toggled, hold \in BOOLEAN : on = t /\ Known(Rendered(t)) /\ cluster = Installs(t, hold)
  BY DEF OnRendered
<1> DEFINE D == PostRender(Load(Rendered(t)), hold, ObjectenMerged(t))
<1>2. AreDocs(Rendered(t)) /\ Typed(Rendered(t))
  BY DEF WellFormed, RuntimesApart, Typed
<1>3. AreDocs(Load(Rendered(t))) /\ Typed(Load(Rendered(t))) /\ Known(Load(Rendered(t)))
  BY <1>1, <1>2, Loads, LoadKept, KeptTyped, KnownKept
<1>4. /\ Typed(D) /\ AllOnce(D) /\ Operated(D) /\ Told(D) /\ AllRetried(D) /\ AllLimited(D)
  BY <1>3, RenderingKept, KeptTyped
<1>5. cluster \subseteq D
  BY <1>1 DEF Installs
<1> HIDE DEF D
<1>. QED BY <1>4, <1>5 DEF Typed, AllOnce, Operated, Told, AllRetried, AllLimited

LEMMA EnvIsKept == WellFormed /\ RuntimesApart /\ OnRendered => EnvKept
<1> SUFFICES ASSUME WellFormed, RuntimesApart, OnRendered, finished, NEW d \in cluster, Runtime(d),
                    NEW c \in d.containers
             PROVE  /\ Len(c.env) = Cardinality(Names(c.env))
                    /\ \A b \in Before(d, c) : \A name \in Names(b.env) : ValueOf(c.env, name) = ValueOf(b.env, name)
  BY DEF EnvKept
<1>1. Len(c.env) = Cardinality(Names(c.env))
  <2>1. c.env \in Seq(Range(c.env)) /\ Once(c.env)
    BY Established DEF AllOnce, Typed, IsTyped, IsEnv, IsList
  <2>. QED BY <2>1, OnceCounts
<1>2. \A b \in Before(d, c) : EnvKeeps(b.env, c.env)
  BY Renders DEF Follows
<1>. QED BY <1>1, <1>2 DEF EnvKeeps

LEMMA LimitsAreTold == WellFormed /\ RuntimesApart /\ PrometheusTold /\ OnRendered => GoLimited
<1> SUFFICES ASSUME WellFormed, RuntimesApart, PrometheusTold, OnRendered, finished, NEW d \in cluster, Runtime(d)
             PROVE  /\ \A c \in d.containers :
                         \/ c.memory
                         \/ d.resources = "limited" /\ d.kind = "Keycloak" /\ c.name = "keycloak"
                         \/ d.resources = "limited" /\ d.kind = "Prometheus" /\ c.name = "prometheus"
                         => "GOMEMLIMIT" \in Names(c.env)
                    /\ d.kind = "Prometheus" /\ d.resources = "limited" =>
                         \E c \in d.containers : "GOMEMLIMIT" \in Names(c.env)
  BY DEF GoLimited
<1>1. ASSUME NEW c \in d.containers, d.resources = "limited", d.kind = "Prometheus", c.name = "prometheus"
      PROVE  c.memory
  <2>1. PICK t \in Toggled : \E x \in Rendered(t) : Grows(x, d)
    BY Renders
  <2>2. PICK e \in Rendered(t) : Grows(e, d)
    BY <2>1
  <2>3. e.kind = "Prometheus" /\ e.resources = "limited"
    BY <1>1, <2>2 DEF Grows, Twin
  <2>4. CASE Fresh(e, c)
    BY <2>3, <2>4 DEF Fresh
  <2>5. ASSUME NEW b \in e.containers, Follows(e, b, c) PROVE c.memory
    BY <1>1, <2>1, <2>3, <2>5 DEF PrometheusTold, Follows, Lowered
  <2>. QED BY <2>2, <2>4, <2>5 DEF Grows
<1>2. \A c \in d.containers : d.resources = "limited" /\ d.kind = "Keycloak" /\ c.name = "keycloak" => c.memory
  BY Established DEF Told
<1>3. \A c \in d.containers : c.memory => "GOMEMLIMIT" \in Names(c.env)
  BY Established DEF AllLimited
<1>4. d.kind = "Prometheus" => \E c \in d.containers : c.name = "prometheus"
  BY Established DEF Operated
<1>. QED BY <1>1, <1>2, <1>3, <1>4

LEMMA RunsAreKept == WellFormed /\ RuntimesApart /\ LoopsApart /\ OnRendered => RunsTheSame
<1> SUFFICES ASSUME WellFormed, RuntimesApart, LoopsApart, OnRendered, finished,
                    NEW d \in cluster, HasPod(d), NEW c \in d.containers, ~Serves(d, c), NEW b \in Before(d, c)
             PROVE  /\ Program(Argv(c)) = Program(Argv(b))
                    /\ Loops(Argv(c)) = IF IsRetried(d, c) THEN 1 ELSE Loops(Argv(b))
  BY DEF RunsTheSame
<1>1. PICK t \in Toggled : Known(Rendered(t)) /\ \E x \in Rendered(t) :
        Grows(x, d) /\ b \in x.containers /\ Follows(x, b, c)
  BY Renders DEF Runtime
<1>2. PICK e \in Rendered(t) : Grows(e, d) /\ b \in e.containers /\ Follows(e, b, c)
  BY <1>1
<1>3. HasPod(e) /\ ~Serves(e, b) /\ IsTyped(b)
  BY <1>2 DEF Grows, Twin, HasPod, Follows, Serves, IsA
<1>4. IsRetried(d, c) <=> IsRetried(e, b)
  BY <1>2 DEF Grows, Twin, Follows, IsRetried
<1>5. IsRetried(e, b) =>
        /\ Knows(b) /\ (b.command = <<>> => Entrypoints[b.name] = ImageEntrypoint(b))
        /\ Loops(Argv(b)) = IF Wraps(CommandOf(b)) THEN 1 ELSE 0
  <2>1. IsRetried(e, b) => Knows(b)
    BY <1>1, <1>2, <1>3 DEF Known
  <2>. QED BY <1>2, <1>3, <2>1 DEF LoopsApart
<1>6. CASE SameRun(b, c)
  <2>1. CommandOf(c) = CommandOf(b) /\ Argv(c) = Argv(b)
    BY <1>2, <1>6 DEF SameRun, CommandOf, Argv, ImageEntrypoint, Follows
  <2>2. IsRetried(d, c) => Wraps(CommandOf(c))
    BY Established DEF AllRetried
  <2>. QED BY <1>4, <1>5, <2>1, <2>2
<1>7. CASE Looped(e, b, c)
  <2>1. IsRetried(e, b) /\ Loops(Argv(b)) = 0 /\ Argv(b) = CommandOf(b) \o b.args
    BY <1>5, <1>7 DEF Looped, Argv, CommandOf
  <2>2. Program(Argv(c)) = Argv(b) /\ Program(Argv(b)) = Argv(b) /\ Loops(Argv(c)) = 1
    BY <1>3, <1>7, <2>1, LoopRuns
  <2>. QED BY <1>4, <2>1, <2>2
<1>. QED BY <1>2, <1>3, <1>6, <1>7 DEF Follows

\* After a deploy a container runs what its chart has it run, at most one retry loop around it, whichever
\* parts of the chart are on and whether or not the chart wraps it itself (retry_in_container); all but the
\* first container of Deployment postgres, whose command serve_postgres_tls changes.
THEOREM ProgramsAreKept ==
  ASSUME WellFormed, RuntimesApart, LoopsApart
  PROVE  RolloutSpec => []RunsTheSame
<1>1. OnRendered => RunsTheSame
  BY RunsAreKept
<1>2. RolloutInit => OnRendered
  BY DEF RolloutInit, OnRendered
<1>. QED BY <1>1, <1>2, OnNext, PTL DEF RolloutSpec

\* The variables of workloads, Jobs and the resources in _runtime_pod_specs have their chart's values,
\* each once, though four fixups add to them (_merge_env, drop_duplicate_env), ...
THEOREM VariablesAreKept ==
  ASSUME WellFormed, RuntimesApart
  PROVE  RolloutSpec => []EnvKept
<1>1. OnRendered => EnvKept
  BY EnvIsKept
<1>2. RolloutInit => OnRendered
  BY DEF RolloutInit, OnRendered
<1>. QED BY <1>1, <1>2, OnNext, PTL DEF RolloutSpec

\* ... and GOMEMLIMIT is set in such a container if the cluster limits it, be the limit its own or its
\* resource's: the limits come after every fixup that adds one there (limit_runtimes, tune_keycloak).
\* SolrCloud is not among those resources: its wait-for-stale-live-node has a limit and no GOMEMLIMIT.
THEOREM LimitsAreKept ==
  ASSUME WellFormed, RuntimesApart, PrometheusTold
  PROVE  RolloutSpec => []GoLimited
<1>1. OnRendered => GoLimited
  BY LimitsAreTold
<1>2. RolloutInit => OnRendered
  BY DEF RolloutInit, OnRendered
<1>. QED BY <1>1, <1>2, OnNext, PTL DEF RolloutSpec

-----------------------------------------------------------------------------
(* DependencySync. *)

\* A checkout's package is told apart from a published chart by its version.  Only what the
\* tarballs are depends on it, not Chart.yaml.
Distinct == Declared \notin Entry
Sound == Distinct /\ ~mixed
USE DependencySyncAssumption DEF files, local, bounds, vars, Goto, Sets, Busy, Sound

\* While a command is alone no other is active; unless commands are mixed, each is alone.
OnlyOne ==
  /\ \A p \in Command : alone[p] => pc[p] # "idle" /\ \A q \in Command \ {p} : ~Busy(q)
  /\ ~mixed => \A p \in Command : Busy(p) => alone[p]

\* A command alone finds its backup in place, and Chart.yaml is changed only between both.
YamlKept ==
  \A p \in Command : alone[p] =>
    /\ pc[p] \in {"edit", "update", "restore", "restore failed"} => backup[p] = found[p]
    /\ pc[p] \notin {"update", "restore", "restore failed"} => yaml = found[p]

Packing == {"package", "unlink", "helm package"}

\* What a command alone has read stays as it is, and its checkouts' subcharts get built.
BuiltFor(p) ==
  /\ pc[p] \in Packing \cup {"build", "backup", "edit", "update"} => got[p] = versions
  /\ pc[p] = "update" => yaml = versions
  /\ pc[p] \in Packing => \A c \in todo[p] : versions[c] = "path"
  /\ pc[p] \in {"unlink", "helm package"} => versions[at[p]] = "path" /\ at[p] \notin todo[p]
  /\ pc[p] \in Packing \cup {"build", "backup", "edit", "update", "restore", "done"} =>
       \A c \in Chart : versions[c] = "path" =>
         checkout[c].subcharts = "ok" \/ (pc[p] \in Packing \cup {"build"} /\ c \in todo[p])
SubchartsBuilt == \A p \in Command : alone[p] => BuiltFor(p)

\* A tarball per chart, as long as no commands were mixed; and then each of those wanted.
OnePerChart == Sound => \A t, u \in tarballs : t.chart = u.chart => t = u
PackedFor(p) ==
  /\ pc[p] \in Packing \cup {"restore", "done"} => \A c \in Chart :
       \/ Wanted(c) \in tarballs
       \/ pc[p] \in Packing /\ versions[c] = "path" /\ c \in todo[p]
       \/ pc[p] \in {"unlink", "helm package"} /\ c = at[p]
  /\ pc[p] = "helm package" => \A t \in tarballs : t.chart # at[p]
Packed == Sound => \A p \in Command : alone[p] => PackedFor(p)

SyncInv == TypeOK /\ OnlyOne /\ YamlKept /\ SubchartsBuilt /\ OnePerChart /\ Packed

-----------------------------------------------------------------------------
LEMMA InitInv == Init => SyncInv
<1> SUFFICES ASSUME Init PROVE SyncInv
  OBVIOUS
<1>1. Unset \in [Chart -> Entry] /\ Placeholders \in [Chart -> Entry]
  BY DEF Unset, Placeholders, Entry
<1>2. checkout \in [Chart -> [rev : Nat, subcharts : {"missing", "old", "ok"}, lock : {"in sync", "stale"}]]
  BY DEF Init
<1>3. TypeOK
  BY <1>1, <1>2 DEF Init, TypeOK, Label
<1>4. OnlyOne /\ YamlKept /\ SubchartsBuilt /\ OnePerChart /\ Packed
  BY DEF Init, OnlyOne, YamlKept, SubchartsBuilt, BuiltFor, OnePerChart, Packed, PackedFor
<1>. QED BY <1>3, <1>4 DEF SyncInv

\* A command that begins is alone with itself at most.
LEMMA BeginInv ==
  ASSUME SyncInv, NEW p \in Command, Select(p) \/ Sync(p)
  PROVE  SyncInv'
<1> USE DEF SyncInv
<1>1. /\ pc[p] = "idle" /\ Begin(p)
      /\ pc' = [pc EXCEPT ![p] = "load"] \/ pc' = [pc EXCEPT ![p] = "read"]
  BY DEF Select, Sync, Begin
<1>2. chosen' \in [Command -> [Chart -> Entry]] /\ todo' \in [Command -> SUBSET Chart]
  <2>1. CASE Select(p)
    <3>1. PICK choice \in [Chart -> Selections \cup {"none"}] :
            /\ chosen' = [chosen EXCEPT ![p] = choice]
            /\ todo' = [todo EXCEPT ![p] = {c \in Chart : choice[c] # "none"}]
      BY <2>1 DEF Select
    <3>2. choice \in [Chart -> Entry]
      BY DEF Entry
    <3>. QED BY <3>1, <3>2 DEF TypeOK
  <2>2. CASE Sync(p)
    <3>1. Unset \in [Chart -> Entry]
      BY DEF Unset, Entry
    <3>. QED BY <2>2, <3>1 DEF Sync, TypeOK
  <2>. QED BY <2>1, <2>2
<1>3. /\ alone' = [q \in Command |-> q = p /\ \A r \in Command : ~Busy(r)]
      /\ found' = [found EXCEPT ![p] = yaml]
      /\ mixed' = (mixed \/ \E r \in Command : Busy(r))
      /\ UNCHANGED <<versions, yaml, tarballs, checkout, got, at, backup>>
  BY <1>1 DEF Begin
<1>4. mixed' \in BOOLEAN /\ (~mixed' => ~mixed /\ \A r \in Command : ~Busy(r))
  BY <1>3 DEF TypeOK
<1>5. alone' \in [Command -> BOOLEAN]
      /\ \A q \in Command : alone'[q] <=> (q = p /\ \A r \in Command : ~Busy(r))
  BY <1>3
<1>6. TypeOK'
  <2>1. pc' \in [Command -> Label]
        /\ \A q \in Command : pc'[q] \in {"unlink", "helm package"} => pc[q] = pc'[q]
    BY <1>1 DEF TypeOK, Label
  <2>2. found' \in [Command -> [Chart -> Entry]]
    BY <1>3 DEF TypeOK
  <2>3. \A t \in tarballs' : t.chart \in Chart /\ (t.name # Declared => t = Published(t.chart, t.name))
    BY <1>3 DEF TypeOK
  <2>. QED BY <1>2, <1>3, <1>4, <1>5, <2>1, <2>2, <2>3 DEF TypeOK
<1>10. /\ pc'[p] \in {"load", "read"} /\ \A q \in Command \ {p} : pc'[q] = pc[q]
       /\ \A q \in Command : alone'[q] => q = p
  BY <1>1, <1>5, ZenonT(40) DEF TypeOK
<1>7. OnlyOne'
  <2>1. ASSUME NEW q \in Command, alone'[q] PROVE pc'[q] # "idle" /\ \A r \in Command \ {q} : ~Busy(r)'
    BY <1>5, <1>10, <2>1
  <2>2. ASSUME ~mixed', NEW q \in Command, Busy(q)' PROVE alone'[q]
    BY <1>4, <1>5, <1>10, <2>2
  <2>. QED BY <2>1, <2>2 DEF OnlyOne
<1>8. YamlKept'
  BY <1>1, <1>3, <1>5, ZenonT(40) DEF YamlKept, TypeOK
<1>9. SubchartsBuilt' /\ OnePerChart' /\ Packed'
  BY <1>3, <1>4, <1>10 DEF SubchartsBuilt, BuiltFor, OnePerChart, Packed, PackedFor, Packing
<1>. QED BY <1>6, <1>7, <1>8, <1>9

\* A step of a command that is active leaves the others as they are; none of them is alone.
LEMMA Others ==
  ASSUME SyncInv, NEW p \in Command, Busy(p), NEW q \in Command, alone[q]
  PROVE  q = p
  BY DEF SyncInv, OnlyOne

\* The steps up to the tarballs.
LEMMA SelectInv ==
  ASSUME SyncInv, NEW p \in Command, LoadFile(p) \/ WriteEntry(p)
  PROVE  SyncInv'
<1> USE DEF SyncInv
<1>1. /\ pc[p] \in {"load", "write"} /\ \E l \in {"write", "read", "load"} : pc' = [pc EXCEPT ![p] = l]
      /\ UNCHANGED <<yaml, tarballs, checkout, chosen, at, backup, found, alone, mixed>>
  BY DEF LoadFile, WriteEntry
<1>2. versions' \in [Chart -> Entry] /\ got' \in [Command -> [Chart -> Entry]] /\ todo' \in [Command -> SUBSET Chart]
  <2>1. CASE LoadFile(p)
    BY <2>1 DEF LoadFile, TypeOK
  <2>2. CASE WriteEntry(p)
    <3>1. PICK c \in todo[p] : /\ versions' = [got[p] EXCEPT ![c] = chosen[p][c]]
                               /\ todo' = [todo EXCEPT ![p] = todo[p] \ {c}]
      BY <2>2 DEF WriteEntry
    <3>2. got[p] \in [Chart -> Entry] /\ chosen[p] \in [Chart -> Entry] /\ todo[p] \subseteq Chart
      BY DEF TypeOK
    <3>3. versions' \in [Chart -> Entry] /\ todo' \in [Command -> SUBSET Chart]
      BY <3>1, <3>2 DEF TypeOK
    <3>. QED BY <2>2, <3>3 DEF WriteEntry, TypeOK
  <2>. QED BY <2>1, <2>2
<1>3. /\ pc'[p] \in {"load", "read", "write"} /\ \A q \in Command \ {p} : pc'[q] = pc[q]
      /\ \A q \in Command : alone[q] => q = p
  BY <1>1, Others DEF TypeOK
<1>4. TypeOK'
  <2>1. pc' \in [Command -> Label]
    BY <1>1 DEF TypeOK, Label
  <2>. QED BY <1>1, <1>2, <1>3, <2>1 DEF TypeOK, Published
<1>5. OnlyOne'
  BY <1>1, <1>3 DEF OnlyOne
<1>6. YamlKept'
  BY <1>1, <1>3 DEF YamlKept
<1>7. SubchartsBuilt' /\ OnePerChart' /\ Packed'
  BY <1>1, <1>3 DEF SubchartsBuilt, BuiltFor, OnePerChart, Packed, PackedFor, Packing
<1>. QED BY <1>4, <1>5, <1>6, <1>7

LEMMA ReadInv ==
  ASSUME SyncInv, NEW p \in Command, Read(p)
  PROVE  SyncInv'
<1> USE DEF SyncInv
<1>1. /\ pc[p] = "read"
      /\ \E l \in {"failed", "build", "done", "package"} : pc' = [pc EXCEPT ![p] = l]
      /\ got' = [got EXCEPT ![p] = versions]
      /\ todo' = [todo EXCEPT ![p] = {c \in Chart : versions[c] = "path"}]
      /\ UNCHANGED <<versions, yaml, tarballs, checkout, chosen, at, backup, found, alone, mixed>>
  BY DEF Read
<1>2. got' \in [Command -> [Chart -> Entry]] /\ todo' \in [Command -> SUBSET Chart]
      /\ got'[p] = versions /\ todo'[p] = {c \in Chart : versions[c] = "path"}
  BY <1>1 DEF TypeOK
<1>3. /\ pc'[p] \in {"failed", "build", "done", "package"} /\ \A q \in Command \ {p} : pc'[q] = pc[q]
      /\ \A q \in Command : alone[q] => q = p
  BY <1>1, Others DEF TypeOK
<1>4. pc'[p] = "done" => todo'[p] = {}
  BY <1>2 DEF Read, TypeOK
<1>5. ASSUME Distinct, pc'[p] \in {"done", "package"}, NEW c \in Chart, versions[c] # "path"
      PROVE  Wanted(c) \in tarballs
  <2>1. Fetched(p)
    BY <1>1, <1>5 DEF Read, TypeOK
  <2>2. PICK t \in tarballs : t.chart = c /\ t.name = versions[c]
    BY <1>2, <1>5, <2>1 DEF Fetched
  <2>5. versions[c] \in Entry
    BY DEF TypeOK
  <2>3. t.name # Declared
    BY <1>5, <2>2, <2>5 DEF Distinct
  <2>4. t = Published(c, versions[c])
    BY <2>2, <2>3 DEF TypeOK
  <2>. QED BY <1>5, <2>2, <2>4 DEF Wanted
<1>6. TypeOK'
  <2>1. pc' \in [Command -> Label]
    BY <1>1 DEF TypeOK, Label
  <2>. QED BY <1>1, <1>2, <1>3, <2>1 DEF TypeOK, Published
<1>7. OnlyOne'
  BY <1>1, <1>3 DEF OnlyOne
<1>8. YamlKept'
  BY <1>1, <1>3 DEF YamlKept
<1>9. SubchartsBuilt'
  <2>1. ASSUME NEW c \in Chart, versions[c] = "path" PROVE pc'[p] # "done" /\ c \in todo'[p]
    BY <1>2, <1>4, <2>1
  <2>2. pc'[p] \notin {"update", "unlink", "helm package"} /\ (pc'[p] \in {"build", "package"} \/ pc'[p] \in {"failed", "done"})
    BY <1>3
  <2>3. \A c \in todo'[p] : versions[c] = "path"
    BY <1>2
  <2>4. \A c \in Chart : versions[c] = "path" => pc'[p] # "done" /\ c \in todo'[p]
    BY <2>1
  <2>5. UNCHANGED <<versions, yaml, checkout, at, alone>>
    BY <1>1
  <2> SUFFICES ASSUME alone[p]
               PROVE  /\ pc'[p] \in Packing \cup {"build", "backup", "edit", "update"} => got'[p] = versions
                      /\ pc'[p] \in Packing => \A c \in todo'[p] : versions[c] = "path"
                      /\ pc'[p] \in Packing \cup {"build", "backup", "edit", "update", "restore", "done"} =>
                           \A c \in Chart : versions[c] = "path" =>
                             checkout[c].subcharts = "ok" \/ (pc'[p] \in Packing \cup {"build"} /\ c \in todo'[p])
    BY <1>3, <2>2, <2>5, ZenonT(40) DEF SubchartsBuilt, BuiltFor
  <2>. QED BY <1>2, <2>2, <2>3, <2>4 DEF Packing
<1>11. OnePerChart'
  BY <1>1 DEF OnePerChart
<1>10. Packed'
  BY <1>1, <1>2, <1>3, <1>4, <1>5 DEF Packed, PackedFor, Packing, Wanted, PackageOf
<1>. QED BY <1>6, <1>7, <1>8, <1>9, <1>10, <1>11

\* A checkout's package: its subcharts, its earlier tarballs, and its tarball.
LEMMA PackageInv ==
  ASSUME SyncInv, NEW p \in Command, BuildOne(p) \/ Unlink(p) \/ Package(p)
  PROVE  SyncInv'
<1> USE DEF SyncInv
<1>1. /\ pc[p] \in Packing /\ \E l \in {"package", "unlink", "helm package", "done"} : pc' = [pc EXCEPT ![p] = l]
      /\ UNCHANGED <<versions, yaml, chosen, got, backup, found, alone, mixed>>
  BY DEF BuildOne, Unlink, Package, Packing
<1>0. UNCHANGED <<versions, yaml, chosen, got, backup, found, alone, mixed>>
  BY <1>1
<1>2. /\ \A q \in Command \ {p} : pc'[q] = pc[q]
      /\ \A q \in Command : alone[q] => q = p
      /\ pc' \in [Command -> Label]
  <2>1. Busy(p)
    BY <1>1 DEF Packing
  <2>2. \A q \in Command : alone[q] => q = p
    BY <2>1, Others
  <2>3. pc' \in [Command -> Label]
    BY <1>1 DEF TypeOK, Label
  <2>4. \A q \in Command \ {p} : pc'[q] = pc[q]
    BY <1>1 DEF TypeOK
  <2>. QED BY <2>2, <2>3, <2>4
<1>3. pc[p] \in Packing /\ pc'[p] \in Packing \cup {"done"}
  BY <1>1 DEF TypeOK, Packing
<1>4. OnlyOne' /\ YamlKept'
  BY <1>1, <1>2, <1>3 DEF OnlyOne, YamlKept, Packing
<1>5. CASE BuildOne(p)
  <2>1. PICK c \in todo[p] : /\ checkout' = [checkout EXCEPT ![c] = Built(c)]
                             /\ todo' = [todo EXCEPT ![p] = todo[p] \ {c}] /\ at' = [at EXCEPT ![p] = c]
    BY <1>5 DEF BuildOne
  <2>2. UNCHANGED tarballs /\ pc[p] = "package" /\ pc'[p] = "unlink" /\ c \in Chart
    BY <1>5 DEF BuildOne, TypeOK
  <2>3. /\ checkout'[c].subcharts = "ok" /\ \A d \in Chart \ {c} : checkout'[d] = checkout[d]
        /\ checkout' \in [Chart -> [rev : Nat, subcharts : {"missing", "old", "ok"}, lock : {"in sync", "stale"}]]
    <3>1. checkout[c] \in [rev : Nat, subcharts : {"missing", "old", "ok"}, lock : {"in sync", "stale"}]
      BY <2>2 DEF TypeOK
    <3>2. /\ Built(c).subcharts = "ok"
          /\ Built(c) \in [rev : Nat, subcharts : {"missing", "old", "ok"}, lock : {"in sync", "stale"}]
      BY <3>1 DEF Built
    <3>. QED BY <2>1, <2>2, <3>2 DEF TypeOK
  <2>4. todo' \in [Command -> SUBSET Chart] /\ at' \in [Command -> Chart \cup {"none"}]
        /\ todo'[p] = todo[p] \ {c} /\ at'[p] = c /\ \A q \in Command \ {p} : at'[q] = at[q]
    BY <2>1, <2>2 DEF TypeOK
  <2>5. TypeOK'
    BY <1>1, <1>2, <2>2, <2>3, <2>4 DEF TypeOK, Published
  <2>6. SubchartsBuilt'
    <3> SUFFICES ASSUME alone[p] PROVE BuiltFor(p)'
      BY <1>1, <1>2 DEF SubchartsBuilt
    <3>1. BuiltFor(p)
      BY DEF SubchartsBuilt
    <3>2. versions[c] = "path" /\ \A d \in todo'[p] : versions[d] = "path"
      BY <2>2, <2>4, <3>1, <2>1 DEF BuiltFor, Packing
    <3>3. \A d \in Chart : versions[d] = "path" => checkout'[d].subcharts = "ok" \/ d \in todo'[p]
      BY <2>2, <2>3, <2>4, <3>1 DEF BuiltFor, Packing
    <3>. QED BY <1>0, <2>2, <2>4, <3>1, <3>2, <3>3 DEF BuiltFor, Packing
  <2>7. OnePerChart'
    BY <1>1, <2>2 DEF OnePerChart
  <2>8. Packed'
    <3>1. \A d \in Chart \ {c} : Wanted(d)' = Wanted(d)
      BY <1>1, <2>3 DEF Wanted, PackageOf, Published
    <3> SUFFICES ASSUME Sound, alone[p] PROVE PackedFor(p)'
      BY <1>1, <1>2 DEF Packed
    <3>2. PackedFor(p)
      BY DEF Packed
    <3>. QED BY <1>0, <2>2, <2>4, <3>1, <3>2 DEF PackedFor, Packing
  <2>. QED BY <1>4, <2>5, <2>6, <2>7, <2>8
<1>6. CASE Unlink(p)
  <2>1. /\ UNCHANGED <<checkout, todo, at>> /\ pc[p] = "unlink" /\ pc'[p] = "helm package"
        /\ tarballs' = {t \in tarballs : t.chart # at[p]} /\ at[p] \in Chart
    BY <1>6 DEF Unlink, TypeOK
  <2>2. TypeOK'
    BY <1>1, <1>2, <2>1 DEF TypeOK, Published
  <2>3. SubchartsBuilt'
    <3> SUFFICES ASSUME alone[p] PROVE BuiltFor(p)'
      BY <1>1, <1>2 DEF SubchartsBuilt
    <3>1. BuiltFor(p)
      BY DEF SubchartsBuilt
    <3>. QED BY <1>1, <2>1, <3>1 DEF BuiltFor, Packing
  <2>4. OnePerChart'
    BY <1>1, <2>1 DEF OnePerChart
  <2>5. Packed'
    <3>1. \A d \in Chart : Wanted(d)' = Wanted(d) /\ Wanted(d).chart = d
      BY <1>1, <2>1 DEF Wanted, PackageOf, Published
    <3> SUFFICES ASSUME Sound, alone[p] PROVE PackedFor(p)'
      BY <1>1, <1>2 DEF Packed
    <3>2. PackedFor(p)
      BY DEF Packed
    <3>. QED BY <1>1, <2>1, <3>1, <3>2 DEF PackedFor, Packing
  <2>. QED BY <1>4, <2>2, <2>3, <2>4, <2>5
<1>7. CASE Package(p)
  <2>1. /\ UNCHANGED <<checkout, todo, at>> /\ pc[p] = "helm package" /\ at[p] \in Chart
        /\ pc'[p] \in {"done", "package"} /\ (pc'[p] = "done" => todo[p] = {})
        /\ tarballs' = {t \in tarballs : t.chart # at[p] \/ t.name # Declared} \cup {PackageOf(at[p])}
    BY <1>7 DEF Package, TypeOK
  <2>2. PackageOf(at[p]).chart = at[p] /\ PackageOf(at[p]).name = Declared
    BY DEF PackageOf
  <2>3. TypeOK'
    <3>1. \A t \in tarballs' : t.chart \in Chart /\ (t.name # Declared => t = Published(t.chart, t.name))
      BY <2>1, <2>2 DEF TypeOK
    <3>. QED BY <1>1, <1>2, <2>1, <3>1 DEF TypeOK, Published
  <2>4. SubchartsBuilt'
    <3> SUFFICES ASSUME alone[p] PROVE BuiltFor(p)'
      BY <1>1, <1>2 DEF SubchartsBuilt
    <3>1. BuiltFor(p)
      BY DEF SubchartsBuilt
    <3>. QED BY <1>1, <2>1, <3>1 DEF BuiltFor, Packing
  <2>5. Sound => alone[p] /\ \A t \in tarballs : t.chart # at[p]
    BY <1>1, <2>1 DEF OnlyOne, Packed, PackedFor, Packing
  <2>6. OnePerChart'
    BY <1>1, <2>1, <2>2, <2>5, ZenonT(40) DEF OnePerChart
  <2>7. Packed'
    <3>1. \A d \in Chart : Wanted(d)' = Wanted(d) /\ Wanted(d).chart = d
      BY <1>1, <2>1 DEF Wanted, PackageOf, Published
    <3>2. ASSUME Sound, alone[p], NEW d \in Chart
          PROVE  Wanted(d) \in tarballs' \/ (pc'[p] = "package" /\ versions[d] = "path" /\ d \in todo[p])
      <4>1. CASE d = at[p]
        BY <2>1, <3>2, <4>1 DEF SubchartsBuilt, BuiltFor, Wanted
      <4>2. CASE d # at[p]
        BY <2>1, <3>1, <3>2, <4>2 DEF Packed, PackedFor, Packing
      <4>. QED BY <4>1, <4>2
    <3> SUFFICES ASSUME Sound, alone[p] PROVE PackedFor(p)'
      BY <1>1, <1>2 DEF Packed
    <3>. QED BY <1>1, <2>1, <3>1, <3>2, ZenonT(40) DEF PackedFor, Packing
  <2>. QED BY <1>4, <2>3, <2>4, <2>6, <2>7
<1>. QED BY <1>5, <1>6, <1>7

\* An update: the subcharts, the backup, Chart.yaml and the tarballs.
LEMMA BuildInv ==
  ASSUME SyncInv, NEW p \in Command, BuildAll(p) \/ Backup(p) \/ Edit(p)
  PROVE  SyncInv'
<1> USE DEF SyncInv
<1>1. /\ pc[p] \in {"build", "backup", "edit"} /\ \E l \in {"backup", "edit", "update"} : pc' = [pc EXCEPT ![p] = l]
      /\ UNCHANGED <<versions, tarballs, chosen, got, todo, at, found, alone, mixed>>
  BY DEF BuildAll, Backup, Edit
<1>2. UNCHANGED <<versions, tarballs, chosen, got, todo, at, found, alone, mixed>>
  BY <1>1
<1>3. /\ \A q \in Command \ {p} : pc'[q] = pc[q]
      /\ \A q \in Command : alone[q] => q = p
      /\ pc' \in [Command -> Label]
  <2>1. \A q \in Command : alone[q] => q = p
    BY <1>1, Others
  <2>2. pc' \in [Command -> Label]
    BY <1>1 DEF TypeOK, Label
  <2>. QED BY <1>1, <2>1, <2>2 DEF TypeOK
<1>4. \/ pc[p] = "build" /\ pc'[p] = "backup"
      \/ pc[p] = "backup" /\ pc'[p] = "edit"
      \/ pc[p] = "edit" /\ pc'[p] = "update"
  BY DEF BuildAll, Backup, Edit, TypeOK
<1>5. OnlyOne' /\ OnePerChart'
  BY <1>2, <1>3, <1>4 DEF OnlyOne, OnePerChart
<1>6. Packed'
  BY <1>2, <1>3, <1>4 DEF Packed, PackedFor, Packing
<1>7. CASE BuildAll(p)
  <2>1. /\ checkout' = [c \in Chart |-> IF c \in todo[p] THEN Built(c) ELSE checkout[c]]
        /\ UNCHANGED <<yaml, backup>> /\ pc[p] = "build" /\ pc'[p] = "backup"
    BY <1>7 DEF BuildAll, TypeOK
  <2>2. \A c \in Chart :
          /\ Built(c).subcharts = "ok"
          /\ Built(c) \in [rev : Nat, subcharts : {"missing", "old", "ok"}, lock : {"in sync", "stale"}]
    BY DEF Built, TypeOK
  <2>3. /\ checkout' \in [Chart -> [rev : Nat, subcharts : {"missing", "old", "ok"}, lock : {"in sync", "stale"}]]
        /\ \A c \in Chart : checkout'[c].subcharts = "ok" \/ (checkout'[c] = checkout[c] /\ c \notin todo[p])
    BY <2>1, <2>2 DEF TypeOK
  <2>4. TypeOK'
    BY <1>2, <1>3, <1>4, <2>1, <2>3 DEF TypeOK, Published
  <2>5. YamlKept'
    BY <1>2, <1>3, <2>1 DEF YamlKept
  <2>6. SubchartsBuilt'
    <3> SUFFICES ASSUME alone[p] PROVE BuiltFor(p)'
      BY <1>2, <1>3 DEF SubchartsBuilt
    <3>1. BuiltFor(p)
      BY DEF SubchartsBuilt
    <3>2. \A c \in Chart : versions[c] = "path" => checkout'[c].subcharts = "ok"
      BY <2>1, <2>3, <3>1 DEF BuiltFor, Packing
    <3>. QED BY <1>2, <2>1, <3>1, <3>2 DEF BuiltFor, Packing
  <2>. QED BY <1>5, <1>6, <2>4, <2>5, <2>6
<1>8. CASE Backup(p) \/ Edit(p)
  <2>1. /\ UNCHANGED checkout
        /\ \/ pc[p] = "backup" /\ pc'[p] = "edit" /\ backup' = [backup EXCEPT ![p] = yaml] /\ UNCHANGED yaml
           \/ pc[p] = "edit" /\ pc'[p] = "update" /\ yaml' = got[p] /\ UNCHANGED backup
    BY <1>8 DEF Backup, Edit, TypeOK
  <2>2. yaml' \in [Chart -> Entry] /\ backup' \in [Command -> [Chart -> Entry]]
    <3>1. got[p] \in [Chart -> Entry] /\ yaml \in [Chart -> Entry] /\ backup \in [Command -> [Chart -> Entry]]
      BY DEF TypeOK
    <3>. QED BY <2>1, <3>1
  <2>3. TypeOK'
    BY <1>2, <1>3, <1>4, <2>1, <2>2 DEF TypeOK, Published
  <2>4. YamlKept'
    BY <1>2, <1>3, <2>1 DEF YamlKept, TypeOK
  <2>5. SubchartsBuilt'
    <3> SUFFICES ASSUME alone[p] PROVE BuiltFor(p)'
      BY <1>2, <1>3 DEF SubchartsBuilt
    <3>1. BuiltFor(p)
      BY DEF SubchartsBuilt
    <3>. QED BY <1>2, <2>1, <3>1 DEF BuiltFor, Packing
  <2>. QED BY <1>5, <1>6, <2>3, <2>4, <2>5
<1>. QED BY <1>7, <1>8

LEMMA UpdateInv ==
  ASSUME SyncInv, NEW p \in Command, Update(p) \/ Restore(p)
  PROVE  SyncInv'
<1> USE DEF SyncInv
<1>1. /\ pc[p] \in {"update", "restore", "restore failed"}
      /\ \E l \in {"restore", "restore failed", "done", "failed"} : pc' = [pc EXCEPT ![p] = l]
      /\ UNCHANGED <<versions, checkout, chosen, got, todo, at, backup, found, alone>>
  BY DEF Update, Restore
<1>2. UNCHANGED <<versions, checkout, chosen, got, todo, at, backup, found, alone>>
  BY <1>1
<1>3. /\ \A q \in Command \ {p} : pc'[q] = pc[q]
      /\ \A q \in Command : alone[q] => q = p
      /\ pc' \in [Command -> Label]
  <2>1. \A q \in Command : alone[q] => q = p
    BY <1>1, Others
  <2>2. pc' \in [Command -> Label]
    BY <1>1 DEF TypeOK, Label
  <2>. QED BY <1>1, <2>1, <2>2 DEF TypeOK
<1>4. ~mixed => alone[p]
  BY <1>1 DEF OnlyOne
<1>5. CASE Update(p)
  <2>1. pc[p] = "update" /\ pc'[p] \in {"restore", "restore failed"} /\ UNCHANGED yaml
    BY <1>5 DEF Update, TypeOK
  <2>2. \A c \in Chart : Resolved(c).chart = c
                          /\ (Resolved(c).name # Declared => Resolved(c) = Published(c, Resolved(c).name))
    BY DEF Resolved, Published, PackageOf
  <2>3. \/ /\ tarballs' = {Resolved(c) : c \in Chart} /\ pc'[p] = "restore"
           /\ mixed' \in BOOLEAN /\ (mixed' <=> mixed /\ ~alone[p])
        \/ UNCHANGED <<tarballs, mixed>> /\ pc'[p] = "restore failed"
    BY <1>5 DEF Update, TypeOK
  <2>4. TypeOK'
    <3>1. \A t \in tarballs' : t.chart \in Chart /\ (t.name # Declared => t = Published(t.chart, t.name))
      <4> HIDE DEF SyncInv
      <4>1. CASE tarballs' = {Resolved(c) : c \in Chart}
        <5> SUFFICES ASSUME NEW c \in Chart
                     PROVE  Resolved(c).chart \in Chart
                            /\ (Resolved(c).name # Declared => Resolved(c) = Published(Resolved(c).chart, Resolved(c).name))
          BY <4>1
        <5>. QED BY <2>2
      <4>2. CASE UNCHANGED tarballs
        BY <4>2 DEF SyncInv, TypeOK, Published
      <4>. QED BY <2>3, <4>1, <4>2
    <3>2. mixed' \in BOOLEAN
      BY <2>3 DEF TypeOK
    <3>. QED BY <1>2, <1>3, <2>1, <3>1, <3>2 DEF TypeOK, Published
  <2>5. OnlyOne'
    BY <1>2, <1>3, <1>4, <2>1, <2>3 DEF OnlyOne, TypeOK
  <2>6. YamlKept'
    BY <1>2, <1>3, <2>1 DEF YamlKept
  <2>7. OnePerChart'
    <3>1. CASE tarballs' = {Resolved(c) : c \in Chart}
      <4>1. ASSUME NEW c \in Chart, NEW d \in Chart, Resolved(c).chart = Resolved(d).chart
            PROVE  Resolved(c) = Resolved(d)
        BY <2>2, <4>1
      <4>. QED BY <3>1, <4>1 DEF OnePerChart
    <3>2. CASE UNCHANGED <<tarballs, mixed>>
      BY <3>2 DEF OnePerChart
    <3>. QED BY <2>3, <3>1, <3>2
  <2>8. SubchartsBuilt'
    <3> SUFFICES ASSUME alone[p] PROVE BuiltFor(p)'
      BY <1>2, <1>3 DEF SubchartsBuilt
    <3>1. BuiltFor(p)
      BY DEF SubchartsBuilt
    <3>. QED BY <1>2, <2>1, <3>1 DEF BuiltFor, Packing
  <2>9. Packed'
    <3> SUFFICES ASSUME alone[p], pc'[p] = "restore", NEW c \in Chart PROVE Wanted(c)' \in tarballs'
      BY <1>2, <1>3, <2>1 DEF Packed, PackedFor, Packing
    <3>1. yaml = versions
      BY <2>1 DEF SubchartsBuilt, BuiltFor
    <3>2. Wanted(c)' = Resolved(c)
      BY <1>2, <3>1 DEF Wanted, Resolved, PackageOf, Published
    <3>. QED BY <2>3, <3>2
  <2>. QED BY <2>4, <2>5, <2>6, <2>7, <2>8, <2>9
<1>6. CASE Restore(p)
  <2>1. /\ yaml' = backup[p] /\ UNCHANGED <<tarballs, mixed>>
        /\ \/ pc[p] = "restore" /\ pc'[p] = "done"
           \/ pc[p] = "restore failed" /\ pc'[p] = "failed"
    BY <1>6 DEF Restore, TypeOK
  <2>2. TypeOK'
    BY <1>2, <1>3, <2>1 DEF TypeOK, Published
  <2>3. OnlyOne' /\ OnePerChart'
    BY <1>2, <1>3, <2>1 DEF OnlyOne, OnePerChart
  <2>4. YamlKept'
    BY <1>2, <1>3, <2>1 DEF YamlKept
  <2>5. SubchartsBuilt'
    <3> SUFFICES ASSUME alone[p] PROVE BuiltFor(p)'
      BY <1>2, <1>3 DEF SubchartsBuilt
    <3>1. BuiltFor(p)
      BY DEF SubchartsBuilt
    <3>. QED BY <1>2, <2>1, <3>1 DEF BuiltFor, Packing
  <2>6. Packed'
    <3> SUFFICES ASSUME Sound, alone[p] PROVE PackedFor(p)'
      BY <1>2, <1>3, <2>1 DEF Packed
    <3>1. PackedFor(p)
      BY DEF Packed
    <3>2. \A c \in Chart : Wanted(c)' = Wanted(c)
      BY <1>2 DEF Wanted, PackageOf, Published
    <3>. QED BY <1>2, <2>1, <3>1, <3>2 DEF PackedFor, Packing
  <2>. QED BY <2>2, <2>3, <2>4, <2>5, <2>6
<1>. QED BY <1>5, <1>6

\* A command that ends, or is killed, is alone no more; the others may be.
LEMMA EndInv ==
  ASSUME SyncInv, NEW p \in Command, End(p) \/ Kill(p)
  PROVE  SyncInv'
<1> USE DEF SyncInv
<1>1. /\ \E l \in {"idle", "failed"} : pc' = [pc EXCEPT ![p] = l]
      /\ alone' = [alone EXCEPT ![p] = FALSE]
      /\ UNCHANGED <<versions, yaml, tarballs, checkout, mixed>>
  BY DEF End, Kill
<1>2. /\ \A q \in Command \ {p} : /\ pc'[q] = pc[q] /\ alone'[q] = alone[q] /\ got'[q] = got[q]
                                  /\ todo'[q] = todo[q] /\ at'[q] = at[q] /\ backup'[q] = backup[q]
                                  /\ found'[q] = found[q]
      /\ pc'[p] \in {"idle", "failed"} /\ ~alone'[p]
  <2>1. CASE End(p)
    BY <2>1 DEF End, TypeOK
  <2>2. CASE Kill(p)
    BY <2>2 DEF Kill, TypeOK
  <2>. QED BY <2>1, <2>2
<1>3. /\ chosen' \in [Command -> [Chart -> Entry]] /\ got' \in [Command -> [Chart -> Entry]]
      /\ backup' \in [Command -> [Chart -> Entry]] /\ found' \in [Command -> [Chart -> Entry]]
      /\ todo' \in [Command -> SUBSET Chart] /\ at' \in [Command -> Chart \cup {"none"}]
  <2>1. CASE End(p)
    <3>1. Unset \in [Chart -> Entry] /\ Placeholders \in [Chart -> Entry]
      BY DEF Unset, Placeholders, Entry
    <3>. QED BY <2>1, <3>1 DEF End, TypeOK
  <2>2. CASE Kill(p)
    BY <2>2 DEF Kill, TypeOK
  <2>. QED BY <2>1, <2>2
<1>4. TypeOK'
  <2>1. pc' \in [Command -> Label] /\ alone' \in [Command -> BOOLEAN]
    BY <1>1, ZenonT(40) DEF TypeOK, Label
  <2>. QED BY <1>1, <1>2, <1>3, <2>1 DEF TypeOK, Published
<1>5. OnlyOne'
  BY <1>1, <1>2 DEF OnlyOne
<1>6. YamlKept'
  BY <1>1, <1>2, ZenonT(40) DEF YamlKept
<1>7. OnePerChart'
  BY <1>1 DEF OnePerChart
<1>8. SubchartsBuilt'
  <2> SUFFICES ASSUME NEW q \in Command \ {p}, alone[q] PROVE BuiltFor(q)'
    BY <1>2 DEF SubchartsBuilt
  <2>1. pc'[q] = pc[q] /\ got'[q] = got[q] /\ todo'[q] = todo[q] /\ at'[q] = at[q]
    BY <1>2
  <2>2. BuiltFor(q)
    BY DEF SubchartsBuilt
  <2>. QED BY <1>1, <2>1, <2>2 DEF BuiltFor
<1>9. Packed'
  <2> SUFFICES ASSUME Sound, NEW q \in Command \ {p}, alone[q] PROVE PackedFor(q)'
    BY <1>1, <1>2 DEF Packed
  <2>1. \A c \in Chart : Wanted(c)' = Wanted(c)
    BY <1>1 DEF Wanted, PackageOf, Published
  <2>2. pc'[q] = pc[q] /\ todo'[q] = todo[q] /\ at'[q] = at[q]
    BY <1>2
  <2>3. PackedFor(q)
    BY DEF Packed
  <2>. QED BY <1>1, <2>1, <2>2, <2>3 DEF PackedFor
<1>. QED BY <1>4, <1>5, <1>6, <1>7, <1>8, <1>9

\* The developer edits a checkout while no command is there.
LEMMA DevelopInv ==
  ASSUME SyncInv, NEW c \in Checkout, Develop(c)
  PROVE  SyncInv'
<1> USE DEF SyncInv
<1>1. /\ \A p \in Command : pc[p] = "idle"
      /\ UNCHANGED <<versions, yaml, tarballs, pc, found, alone, mixed, chosen, got, todo, at, backup>>
  BY DEF Develop
<1>2. \A p \in Command : ~alone[p]
  BY <1>1 DEF OnlyOne
<1>3. checkout' \in [Chart -> [rev : Nat, subcharts : {"missing", "old", "ok"}, lock : {"in sync", "stale"}]]
  <2>1. checkout[c] \in [rev : Nat, subcharts : {"missing", "old", "ok"}, lock : {"in sync", "stale"}] /\ c \in Chart
    BY DEF TypeOK, Checkout
  <2>2. checkout[c].rev \in Nat /\ checkout[c].rev + 1 \in Nat
    <3>1. checkout[c].rev \in Nat
      BY <2>1
    <3>2. \A n \in Nat : n + 1 \in Nat
      OBVIOUS
    <3>. QED BY <3>1, <3>2
  <2>3. [rev |-> checkout[c].rev + 1, subcharts |-> "old", lock |-> "stale"]
          \in [rev : Nat, subcharts : {"missing", "old", "ok"}, lock : {"in sync", "stale"}]
    BY <2>2
  <2>4. [checkout[c] EXCEPT !.rev = @ + 1] \in [rev : Nat, subcharts : {"missing", "old", "ok"}, lock : {"in sync", "stale"}]
    BY <2>1, <2>2
  <2>5. \/ checkout' = [checkout EXCEPT ![c] = [checkout[c] EXCEPT !.rev = @ + 1]]
        \/ checkout' = [checkout EXCEPT ![c] = [rev |-> checkout[c].rev + 1, subcharts |-> "old", lock |-> "stale"]]
    BY DEF Develop
  <2>6. checkout \in [Chart -> [rev : Nat, subcharts : {"missing", "old", "ok"}, lock : {"in sync", "stale"}]]
    BY DEF TypeOK
  <2> HIDE DEF SyncInv
  <2>. QED BY <2>3, <2>4, <2>5, <2>6
<1>4. TypeOK'
  BY <1>1, <1>3 DEF TypeOK, Published
<1>5. OnlyOne' /\ YamlKept' /\ SubchartsBuilt' /\ OnePerChart' /\ Packed'
  BY <1>1, <1>2 DEF OnlyOne, YamlKept, SubchartsBuilt, OnePerChart, Packed
<1>. QED BY <1>4, <1>5

LEMMA NextInv == SyncInv /\ [Next]_vars => SyncInv'
<1> SUFFICES ASSUME SyncInv, [Next]_vars PROVE SyncInv'
  OBVIOUS
<1>1. ASSUME NEW p \in Command, Step(p) PROVE SyncInv'
  BY <1>1, BeginInv, SelectInv, ReadInv, PackageInv, BuildInv, UpdateInv, EndInv DEF Step
<1>2. CASE UNCHANGED vars
  <2>1. UNCHANGED <<versions, yaml, tarballs, checkout, pc, chosen, got, todo, at, backup, found, alone, mixed>>
    BY <1>2
  <2>2. \A c \in Chart : Wanted(c)' = Wanted(c)
    BY <2>1 DEF Wanted, PackageOf, Published
  <2>3. TypeOK'
    BY <2>1 DEF SyncInv, TypeOK, Published
  <2>4. OnlyOne' /\ YamlKept' /\ OnePerChart'
    BY <2>1 DEF SyncInv, OnlyOne, YamlKept, OnePerChart
  <2>6. SubchartsBuilt'
    <3> SUFFICES ASSUME NEW q \in Command, alone[q] PROVE BuiltFor(q)'
      BY <2>1 DEF SubchartsBuilt
    <3>1. BuiltFor(q)
      BY DEF SyncInv, SubchartsBuilt
    <3>. QED BY <2>1, <3>1 DEF BuiltFor
  <2>5. Packed'
    BY <2>1, <2>2, ZenonT(40) DEF SyncInv, Packed, PackedFor
  <2>. QED BY <2>3, <2>4, <2>5, <2>6 DEF SyncInv
<1>. QED BY <1>1, <1>2, DevelopInv DEF Next

LEMMA InvHolds == Spec => []SyncInv
<1>. QED BY InitInv, NextInv, PTL DEF Spec

-----------------------------------------------------------------------------
\* Every variable keeps its type; a tarball that is not a checkout's is a published chart.
THEOREM TypeCorrect == Spec => []TypeOK
<1>1. SyncInv => TypeOK
  BY DEF SyncInv
<1>. QED BY <1>1, InvHolds, PTL

\* Chart.yaml is as a command alone found it, also when helm fails.
THEOREM YamlIsKept == Spec => []YamlAsFound
<1>1. SyncInv => YamlAsFound
  BY DEF SyncInv, YamlKept, YamlAsFound
<1>. QED BY <1>1, InvHolds, PTL

\* charts/ has what the selection says, after a sync alone, unless commands were mixed and no
\* update came since.
THEOREM TarballsMatch == Distinct => (Spec => []SyncMatches)
<1> SUFFICES ASSUME Distinct PROVE Spec => []SyncMatches
  OBVIOUS
<1>1. SyncInv => SyncMatches
  <2> SUFFICES ASSUME SyncInv, NEW p \in Command, pc[p] = "done", alone[p], ~mixed
               PROVE  /\ tarballs = {Wanted(c) : c \in Chart}
                      /\ \A c \in Chart : versions[c] = "path" => checkout[c].subcharts = "ok"
    BY DEF SyncMatches
  <2>1. \A c \in Chart : Wanted(c) \in tarballs /\ Wanted(c).chart = c
    BY DEF SyncInv, Packed, PackedFor, Packing, Wanted, PackageOf, Published
  <2>2. ASSUME NEW t \in tarballs PROVE t.chart \in Chart /\ t = Wanted(t.chart)
    <3>1. t.chart \in Chart
      BY DEF SyncInv, TypeOK
    <3>2. Wanted(t.chart) \in tarballs /\ Wanted(t.chart).chart = t.chart
      BY <2>1, <3>1
    <3>. QED BY <3>1, <3>2 DEF SyncInv, OnePerChart
  <2>3. tarballs = {Wanted(c) : c \in Chart}
    BY <2>1, <2>2
  <2>4. \A c \in Chart : versions[c] = "path" => checkout[c].subcharts = "ok"
    BY ZenonT(40) DEF SyncInv, SubchartsBuilt, BuiltFor, Packing
  <2>. QED BY <2>3, <2>4
<1>. QED BY <1>1, InvHolds, PTL
=============================================================================
