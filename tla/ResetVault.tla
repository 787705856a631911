----------------------------- MODULE ResetVault -----------------------------
(***************************************************************************)
(* reset-namespace and teardown-cluster (teardown.py) against what a       *)
(* deploy puts there, and OpenBao's keys on the laptop (openbao.activate,  *)
(* keyvault), which must outlive neither too long nor too short: the       *)
(* recovery key belongs to one vault, whose database is in Postgres.       *)
(*                                                                         *)
(* A namespace stays Terminating while an object in it has a finalizer;    *)
(* an operator that still terminates puts finalizers back.  Every step of  *)
(* a reset may fail and end it; the clearing of hostPath data only warns.  *)
(***************************************************************************)
EXTENDS Naturals, FiniteSets

CONSTANTS
  Namespace,      \* RESET_NAMESPACES
  Object,         \* objects with finalizers, in every namespace
  ClusterObject,  \* cluster-scoped: whose it is, and how it is marked
  NodeAnswers,    \* minikube ssh always reaches the node
  ScriptCut,      \* a deploy may end between the script's init of a vault and its storing of the key
  MaxVaults,      \* bound: vaults initialised
  MaxCuts         \* bound: commands that end early

ASSUME ResetAssumption ==
  /\ Namespace # {} /\ "podiumd" \in Namespace
  /\ ClusterObject \subseteq [release : BOOLEAN, crd : BOOLEAN, byLabel : BOOLEAN, byAnnotation : BOOLEAN]
  /\ NodeAnswers \in BOOLEAN /\ ScriptCut \in BOOLEAN /\ MaxVaults \in Nat /\ MaxCuts \in Nat

VARIABLES
  ns,         \* each namespace: there, terminating, gone
  objects,    \* its objects,
  finalizers, \* ... the ones that have a finalizer,
  operator,   \* and whether its operators still run
  bound,      \* the namespaces with a PersistentVolume bound to them
  data,       \* ... with hostPath data on the node
  cluster,    \* the cluster-scoped objects that are there
  vault,      \* the vault in Postgres' data; 0: none initialised
  item,       \* the Key Vault item: the recovery key of a vault, the placeholder, none
  attempt,    \* a generate-root attempt is started
  root,       \* a root token that is not revoked
  pc, polled, \* the command; the namespaces whose poll has ended
  vaults, cuts,
  cut         \* a run was cut in _write_outway_keys since the pod started

places == <<ns, objects, finalizers, operator>>
volumes == <<bound, data>>
openbao == <<vault, item, attempt, root>>
bounds == <<vaults, cuts, cut>>
vars == <<places, volumes, cluster, openbao, pc, polled, bounds>>

NoItem == 0
Placeholder == MaxVaults + 1  \* "pending-init"

\* What is no release's: the CRDs of crds/ directories, what the cluster came with.
Others == {c \in ClusterObject : ~c.release}

Init ==
  /\ ns = [n \in Namespace |-> "gone"]
  /\ objects = [n \in Namespace |-> {}] /\ finalizers = [n \in Namespace |-> {}]
  /\ operator = [n \in Namespace |-> FALSE]
  /\ bound = {} /\ data = {}
  /\ cluster = Others
  /\ vault = 0 /\ item = NoItem /\ attempt = FALSE /\ root = FALSE
  /\ pc = "idle" /\ polled = {} /\ vaults = 0 /\ cuts = 0 /\ cut = FALSE

Gone(n) == ns[n] = "gone"

Goto(next) == pc' = next /\ UNCHANGED polled

-----------------------------------------------------------------------------
(* A deploy, and openbao.activate. *)

\* The upgrades: a namespace that is still Terminating refuses new objects.  Postgres starts on the
\* data it finds.
Deploy ==
  /\ pc = "idle" /\ \A n \in Namespace : ns[n] # "terminating"
  /\ vault = 0 => vaults < MaxVaults
  /\ ns' = [n \in Namespace |-> "there"]
  /\ objects' = [n \in Namespace |-> Object] /\ finalizers' = [n \in Namespace |-> Object]
  /\ operator' = [n \in Namespace |-> TRUE]
  /\ bound' = Namespace /\ data' = Namespace /\ cluster' = ClusterObject
  /\ Goto("activate")
  /\ UNCHANGED <<openbao, bounds>>

\* openbao.activate: nothing without the openbao-config Job in the render (deploy does not call it
\* when podiumd was left alone and OpenBao is unsealed); a placeholder for an item that is not there.
Activate ==
  /\ pc = "activate"
  /\ \/ Goto("idle") /\ UNCHANGED item
     \/ Goto("script") /\ item' = IF item = NoItem THEN Placeholder ELSE item
  /\ UNCHANGED <<places, volumes, cluster, vault, attempt, root, bounds>>

\* The chart's script: it initialises a vault that is not, unless the item holds another one's key;
Script ==
  /\ pc = "script"
  /\ \/ vault # 0 /\ Goto("outway") /\ UNCHANGED <<vault, vaults>>
     \/ /\ vault = 0 /\ item = Placeholder /\ vaults < MaxVaults
        /\ vaults' = vaults + 1 /\ vault' = vaults' /\ Goto("store")
     \/ vault = 0 /\ item # Placeholder /\ Goto("idle") /\ UNCHANGED <<vault, vaults>>
  /\ UNCHANGED <<places, volumes, cluster, item, attempt, root, cuts, cut>>

\* ... and stores its recovery key.
StoreKey ==
  /\ pc = "store" /\ item' = vault /\ Goto("outway")
  /\ UNCHANGED <<places, volumes, cluster, vault, attempt, root, bounds>>

\* Frank!Gateway's outway has been deployed, or it has not.
Outway ==
  /\ pc = "outway" /\ (Goto("attempt") \/ Goto("idle"))
  /\ UNCHANGED <<places, volumes, cluster, openbao, bounds>>

\* _root_token: an attempt that is already started is somebody else's.
StartAttempt ==
  /\ pc = "attempt"
  /\ IF attempt THEN Goto("idle") /\ UNCHANGED attempt
     ELSE attempt' = TRUE /\ Goto("update")
  /\ UNCHANGED <<places, volumes, cluster, vault, item, root, bounds>>

\* The recovery key ends the attempt; a wrong one leaves it.
Update ==
  /\ pc = "update"
  /\ IF item = vault THEN attempt' = FALSE /\ root' = TRUE /\ Goto("revoke")
     ELSE Goto("idle") /\ UNCHANGED <<attempt, root>>
  /\ UNCHANGED <<places, volumes, cluster, vault, item, bounds>>

\* Mutant: the token is revoked only when the keys were stored.
Revoke_Stored ==
  /\ pc = "revoke" /\ root' \in BOOLEAN /\ Goto("idle")
  /\ UNCHANGED <<places, volumes, cluster, vault, item, attempt, bounds>>

\* _write_outway_keys: the keys are stored or not; the token is revoked.
Revoke ==
  /\ pc = "revoke" /\ root' = FALSE /\ Goto("idle")
  /\ UNCHANGED <<places, volumes, cluster, vault, item, attempt, bounds>>

\* What the message of _root_token asks for.
Cancel ==
  /\ pc = "idle" /\ attempt /\ attempt' = FALSE
  /\ UNCHANGED <<places, volumes, cluster, vault, item, root, pc, polled, bounds>>

-----------------------------------------------------------------------------
(* reset-namespace. *)

\* _empty of every namespace: uninstall without hooks, its pods and itself deleted without a wait.
\* A pod that is deleted without a grace period may still run.
Empty ==
  /\ pc = "idle"
  /\ ns' = [n \in Namespace |-> IF Gone(n) THEN "gone" ELSE "terminating"]
  /\ pc' = "emptying" /\ polled' = {}
  /\ UNCHANGED <<objects, finalizers, operator, volumes, cluster, openbao, bounds>>

\* Mutant: the finalizers are cleared once.
Poll_Once(n) ==
  /\ pc = "emptying" /\ n \notin polled
  /\ finalizers' = [finalizers EXCEPT ![n] = IF @ = Object THEN {} ELSE @]
  /\ polled' = (IF Gone(n) THEN polled \cup {n} ELSE polled)
  /\ UNCHANGED <<ns, objects, operator, volumes, cluster, openbao, pc, bounds>>

\* gone: clear_finalizers, again on every poll.
Poll(n) ==
  /\ pc = "emptying" /\ n \notin polled
  /\ finalizers' = [finalizers EXCEPT ![n] = {}]
  /\ polled' = (IF Gone(n) THEN polled \cup {n} ELSE polled)
  /\ UNCHANGED <<ns, objects, operator, volumes, cluster, openbao, pc, bounds>>

\* Mutant: the key is moved aside before the data is gone.
Emptied_Forgets ==
  /\ pc = "emptying" /\ polled = Namespace /\ Goto("volumes") /\ item' = NoItem
  /\ UNCHANGED <<places, volumes, cluster, vault, attempt, root, bounds>>

Emptied ==
  /\ pc = "emptying" /\ polled = Namespace /\ Goto("volumes")
  /\ UNCHANGED <<places, volumes, cluster, openbao, bounds>>

\* The namespace's controller deletes what has no finalizer, and in the end the namespace: Postgres'
\* pod goes with it, the provisioner deletes a dynamic volume or leaves it Released.
Collect(n, o) ==
  /\ ns[n] = "terminating" /\ o \in objects[n] \ finalizers[n]
  /\ objects' = [objects EXCEPT ![n] = @ \ {o}]
  /\ UNCHANGED <<ns, finalizers, operator, volumes, cluster, openbao, pc, polled, bounds>>

Vanish(n) ==
  /\ ns[n] = "terminating" /\ objects[n] = {} /\ ns' = [ns EXCEPT ![n] = "gone"]
  /\ operator' = [operator EXCEPT ![n] = FALSE]
  /\ IF n = "podiumd" THEN attempt' = FALSE ELSE UNCHANGED attempt
  /\ \/ UNCHANGED <<volumes, vault, root>>
     \/ /\ bound' = bound \ {n} /\ data' = data \ {n}
        /\ IF n = "podiumd" THEN vault' = 0 /\ root' = FALSE ELSE UNCHANGED <<vault, root>>
  /\ UNCHANGED <<objects, finalizers, cluster, item, pc, polled, bounds>>

PutBack(n, o) ==
  /\ ns[n] = "terminating" /\ operator[n] /\ o \in objects[n] \ finalizers[n]
  /\ finalizers' = [finalizers EXCEPT ![n] = @ \cup {o}]
  /\ UNCHANGED <<ns, objects, operator, volumes, cluster, openbao, pc, polled, bounds>>

OperatorEnds(n) ==
  /\ ns[n] = "terminating" /\ operator[n] /\ operator' = [operator EXCEPT ![n] = FALSE]
  /\ UNCHANGED <<ns, objects, finalizers, volumes, cluster, openbao, pc, polled, bounds>>

\* bound_volumes
DeleteVolumes ==
  /\ pc = "volumes" /\ bound' = {} /\ Goto("data")
  /\ UNCHANGED <<places, data, cluster, openbao, bounds>>

\* A node that does not answer is a warning.
ClearData ==
  /\ pc = "data" /\ Goto("cluster")
  /\ \/ data' = {} /\ vault' = 0 /\ root' = FALSE /\ cut' = FALSE
     \/ ~NodeAnswers /\ UNCHANGED <<data, vault, root, cut>>
  /\ UNCHANGED <<places, bound, cluster, item, attempt, vaults, cuts>>

\* Mutant: by instance label, CRDs too.
Leftovers_ByLabel(objs) == {c \in objs : c.byLabel}

\* cluster_leftovers: by label, or by annotation; a CRD of a crds/ directory is no release's.
Leftovers(objs) == {c \in objs : (c.byLabel /\ ~c.crd) \/ c.byAnnotation}

DeleteCluster ==
  /\ pc = "cluster" /\ cluster' = cluster \ Leftovers(cluster) /\ Goto("forget")
  /\ UNCHANGED <<places, volumes, openbao, bounds>>

\* forget_vault: last.
ForgetVault ==
  /\ pc = "forget" /\ item' = NoItem /\ Goto("reset")
  /\ UNCHANGED <<places, volumes, cluster, vault, attempt, root, bounds>>

ResetEnds ==
  /\ pc = "reset" /\ Goto("idle")
  /\ UNCHANGED <<places, volumes, cluster, openbao, bounds>>

\* A step fails, a namespace stays Terminating for too long, the command is killed.
Cut ==
  /\ pc \notin {"idle", "reset"} /\ cuts < MaxCuts /\ (pc = "store" => ScriptCut)
  /\ cuts' = cuts + 1 /\ cut' = (cut \/ pc \in {"update", "revoke"}) /\ Goto("idle")
  /\ UNCHANGED <<places, volumes, cluster, openbao, vaults>>

\* teardown_cluster: minikube delete, then the key.
Teardown ==
  /\ pc = "idle"
  /\ ns' = [n \in Namespace |-> "gone"] /\ objects' = [n \in Namespace |-> {}]
  /\ finalizers' = [n \in Namespace |-> {}] /\ operator' = [n \in Namespace |-> FALSE]
  /\ bound' = {} /\ data' = {} /\ cluster' = Others
  /\ vault' = 0 /\ attempt' = FALSE /\ root' = FALSE /\ Goto("forget")
  /\ UNCHANGED <<item, bounds>>

-----------------------------------------------------------------------------
DeployStep ==
  \/ Deploy \/ Activate \/ Script \/ StoreKey \/ Outway
  \/ StartAttempt \/ Update \/ Revoke \/ Cancel

ResetStep ==
  \/ Emptied \/ DeleteVolumes \/ ClearData \/ DeleteCluster \/ ForgetVault \/ ResetEnds
  \/ \E n \in Namespace : Poll(n)

Kubernetes(n) == \E o \in Object : Collect(n, o)

Next ==
  \/ DeployStep \/ Empty \/ ResetStep \/ Cut \/ Teardown
  \/ \E n \in Namespace :
       \/ Kubernetes(n) \/ Vanish(n) \/ OperatorEnds(n)
       \/ \E o \in Object : PutBack(n, o)

Spec == Init /\ [][Next]_vars

\* The run goes on polling, an operator's pod ends at some time, the namespace's controller runs.
FairSpec ==
  /\ Spec /\ WF_vars(ResetStep)
  /\ \A n \in Namespace :
       WF_vars(Poll(n)) /\ WF_vars(Kubernetes(n)) /\ WF_vars(Vanish(n)) /\ WF_vars(OperatorEnds(n))

-----------------------------------------------------------------------------
(* Properties *)

\* Every variable holds a value the code can give it.
TypeOK ==
  /\ ns \in [Namespace -> {"there", "terminating", "gone"}]
  /\ objects \in [Namespace -> SUBSET Object] /\ finalizers \in [Namespace -> SUBSET Object]
  /\ operator \in [Namespace -> BOOLEAN]
  /\ bound \subseteq Namespace /\ data \subseteq Namespace /\ cluster \subseteq ClusterObject
  /\ vault \in 0 .. MaxVaults /\ item \in 0 .. Placeholder
  /\ attempt \in BOOLEAN /\ root \in BOOLEAN
  /\ pc \in {"idle", "activate", "script", "store", "outway", "attempt", "update", "revoke", "emptying", "volumes", "data",
             "cluster", "forget", "reset"}
  /\ polled \subseteq Namespace
  /\ vaults \in 0 .. MaxVaults /\ cuts \in 0 .. MaxCuts /\ cut \in BOOLEAN

\* As long as a vault's database is there, the laptop has its recovery key: forget_vault moves it
\* aside only "once the vault's database is gone", and is last in a reset that may fail anywhere.
\* The key is on its way while the script stores it.
KeyKept == vault # 0 /\ pc # "store" => item = vault

\* A reset that ended has left no namespace, no volume bound to one, no data and no cluster-scoped
\* object of the releases, whatever earlier resets failed on the way; the CRDs that are no release's
\* stay (deleting one deletes its objects).
ResetClean ==
  pc = "reset" => /\ \A n \in Namespace : Gone(n)
                  /\ bound = {} /\ (NodeAnswers => data = {})
                  /\ cluster = Others

\* Outside _write_outway_keys no root token is live and no attempt started, unless a run was cut in
\* it ("a temporary root token, revoked afterwards").
NoTokenLeft == (pc \notin {"update", "revoke"} /\ ~cut) => ~root /\ ~attempt

\* A reset that is not cut gets rid of every namespace, although operators that still terminate put
\* finalizers back after they were cleared.
NamespacesGo == pc = "emptying" ~> pc # "emptying"
=============================================================================
