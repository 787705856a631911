---------------------------- MODULE HelmDeploy ----------------------------
(***************************************************************************)
(* deploy's Helm releases (deploy.py, releases.py, deployed.py, kiss.py):  *)
(* render, decide which releases changed since the recorded deploy, take   *)
(* over the objects that move to this chart's release, upgrade that one    *)
(* first and the others together, record the digests, start ZAC.           *)
(*                                                                         *)
(* deploy holds the cluster lock, so nothing else changes the cluster:     *)
(* what is hard are the steps that fail or are cut off between two of      *)
(* them, and what the next deploy makes of the state they leave.           *)
(*                                                                         *)
(* Helm is external: an upgrade replaces the last deployed revision (the   *)
(* last failed one before the first success), refuses to adopt an object   *)
(* another release owns, runs its pre-upgrade hooks, applies its objects,  *)
(* then deletes those only the replaced revision had.                      *)
(***************************************************************************)
EXTENDS Naturals

CONSTANTS
  Selection,      \* what can be deployed: chart versions with a profile
  Variant,        \* the selections, with and without KISS's website
  WithoutWebsite, \* the variant deployed while the website's hook is blocked
  Render,         \* the manifest of each release, for each variant
  Object,         \* Kubernetes objects
  Zac,            \* ZAC's Deployment
  WithZacJobs,    \* the variants with a Job that ZAC's first boot needs (ZAC_JOBS)
  Search,         \* Elasticsearch, with its Service
  Policy,         \* its NetworkPolicy
  Body,           \* what an object says
  Admits,         \* what a policy says that admits KISS's hook Job
  Off, Absent,    \* a Deployment at 0 replicas; no such object
  MayFail,        \* the releases whose upgrade may fail by itself
  MovesMayFail,   \* podiumd's may, also with objects that a selection moves
  MaxFailures,    \* bound: failures of a behaviour
  MaxKills        \* bound: deploys killed

Release == {"own", "podiumd", "monitoring"}
Content == Body \cup {Off, Absent}
Manifest == [Object -> Content]
Nothing == [o \in Object |-> Absent]
Objects(m) == {o \in Object : m[o] # Absent}

ASSUME HelmDeployAssumption ==
  /\ Selection \subseteq Variant
  /\ WithoutWebsite \in [Selection -> Variant]
  /\ Zac \in Object /\ Search \in Object /\ Policy \in Object
  /\ WithZacJobs \subseteq Variant /\ Admits \subseteq Body
  /\ Off \notin Body /\ Absent \notin Body /\ Off # Absent
  /\ Render \in [Variant -> [Release -> [Object -> Body \cup {Absent}]]]
  /\ \A v \in Variant : Render[v]["own"] # Nothing /\ Render[v]["podiumd"] # Nothing
  /\ \A v \in Variant : \A r, q \in Release :
       r # q => Objects(Render[v][r]) \cap Objects(Render[v][q]) = {}
  /\ \A s \in Selection : Render[WithoutWebsite[s]]["podiumd"][Policy] = Render[s]["podiumd"][Policy]
  /\ MayFail \subseteq Release /\ MovesMayFail \in BOOLEAN
  /\ MaxFailures \in Nat /\ MaxKills \in Nat

NotRecorded == [manifest |-> Nothing, held |-> FALSE]
Digests == [manifest : Manifest, held : BOOLEAN]
Gone == [by |-> "nobody", body |-> Absent]

VARIABLES
  live,      \* the objects in the cluster: the release that owns each, and its content
  helm,      \* each release's deployed and latest revision, and whether it is pending
  last,      \* the digests the last recorded deploy wrote
  pc, want, every,
  cur,       \* the variant this pass deploys
  defer,     \* this pass may leave out the website
  held,      \* ZAC is installed at 0 replicas
  names,     \* the releases to upgrade
  moved,     \* the objects this chart's release takes over from podiumd's
  todo,      \* the releases the thread pool still has to upgrade
  broken,    \* an upgrade in the pool failed
  result,    \* how the last deploy ended
  switched,  \* history: after a failed deploy another selection was deployed, and
             \* every release of it only since
  failures, kills

cluster == <<live, helm, last>>
plan == <<want, every, cur, defer, held, names, moved>>
vars == <<live, helm, last, pc, want, every, cur, defer, held, names, moved,
          todo, broken, result, switched, failures, kills>>

-----------------------------------------------------------------------------
IsDeployed(r) == helm[r].deployed # Nothing

\* releases.installed: the latest revision, a failed one too.
Installed(r) == IF IsDeployed(r) THEN helm[r].latest ELSE Nothing

\* What release r installs for variant v: the post-renderer holds ZAC at 0.
Target(v, h, r) ==
  [o \in Object |->
     IF o = Zac /\ h /\ r = "podiumd" /\ Render[v][r][o] # Absent THEN Off ELSE Render[v][r][o]]

\* Mutant: the post-renderer's flags are left out of the digest.
Digest_RenderOnly(v, h, r) == [manifest |-> Render[v][r], held |-> FALSE]

\* releases.digest: the render and the post-renderer's flags.
Digest(v, h, r) == [manifest |-> Render[v][r], held |-> h /\ r = "podiumd"]

\* monitoring-logging is a release only with the metrics profile.
Found(v) == {r \in Release : r # "monitoring" \/ Render[v][r] # Nothing}

\* Elasticsearch's Service is missing, or the policy that is to admit the hook does not yet.
Barred(v) ==
  \/ live[Search] = Gone
  \/ Render[v]["podiumd"][Policy] \in Admits /\ live[Policy].body \notin Admits

\* kiss.website_hook_blocked: the render has the hook.
Blocked(v) == v \in Selection /\ WithoutWebsite[v] # v /\ Barred(v)

\* Mutant: objects podiumd's new render drops are not looked for.
TakenOver_None(v) == {}

\* deploy.taken_over: installed by podiumd, and this chart's release has them now.
TakenOver(v) ==
  {o \in Objects(Render[v]["own"]) \cap Objects(Installed("podiumd")) :
     Render[v]["podiumd"][o] = Absent}

\* Mutant: ZAC is never held.
HoldZac_Never(v) == FALSE

\* deploy.hold_zac: rendered with one of its Jobs, and not in the cluster yet.
HoldZac(v) == v \in WithZacJobs /\ Render[v]["podiumd"][Zac] # Absent /\ live[Zac] = Gone

\* deploy._changed: the digest differs from the recorded one, or nothing was deployed.
Changed(v, h) == {r \in Found(v) : every \/ last[r] # Digest(v, h, r) \/ ~IsDeployed(r)}

Init ==
  /\ live = [o \in Object |-> Gone]
  /\ helm = [r \in Release |-> [deployed |-> Nothing, latest |-> Nothing, pending |-> FALSE]]
  /\ last = [r \in Release |-> NotRecorded]
  /\ pc = "idle" /\ want \in Selection /\ every = FALSE
  /\ cur = want /\ defer = FALSE
  /\ held = FALSE /\ names = {} /\ moved = {} /\ todo = {} /\ broken = FALSE
  /\ result = "none" /\ switched = FALSE /\ failures = 0 /\ kills = 0

Goto(label) == pc' = label

\* deploy returns, or raises.
End(outcome) ==
  /\ Goto("idle") /\ result' = outcome /\ UNCHANGED switched
  /\ cur' = want /\ defer' = FALSE /\ held' = FALSE
  /\ names' = {} /\ moved' = {} /\ todo' = {} /\ broken' = FALSE
  /\ UNCHANGED <<want, every>>

-----------------------------------------------------------------------------
(* Helm. *)

Replaced(r) == IF IsDeployed(r) THEN helm[r].deployed ELSE helm[r].latest

Conflict(r) ==
  \E o \in Objects(Target(cur, held, r)) \ Objects(Replaced(r)) : live[o].by \notin {"nobody", r}

Applied(r, S) ==
  [o \in Object |-> IF o \in S THEN [by |-> r, body |-> Target(cur, held, r)[o]] ELSE live[o]]

Upgraded(r) ==
  LET new == Objects(Target(cur, held, r))
      dropped == Objects(Replaced(r)) \ new
  IN  [o \in Object |-> IF o \in dropped THEN Gone ELSE Applied(r, new)[o]]

\* KISS's hook runs before Helm creates or updates anything.
HookFails(r) == r = "podiumd" /\ Blocked(cur)

Ready(r) == ~helm[r].pending /\ ~Conflict(r) /\ ~HookFails(r)

HelmDone(r) ==
  /\ Ready(r)
  /\ live' = Upgraded(r)
  /\ helm' = [helm EXCEPT ![r] = [deployed |-> Target(cur, held, r),
                                  latest |-> Target(cur, held, r), pending |-> FALSE]]
  /\ UNCHANGED <<failures, kills>>

\* How far an upgrade got when it failed or was killed.
HelmPartly(r) ==
  \/ \E S \in SUBSET Objects(Target(cur, held, r)) : live' = Applied(r, S)
  \/ live' = Upgraded(r)

\* What podiumd's upgrade has in common with this chart's release of some selection.
Moving ==
  LET theirs == Objects(Replaced("podiumd")) \cup Objects(Target(cur, held, "podiumd"))
  IN  {o \in theirs : \E s \in Selection : Render[s]["own"][o] # Absent}

\* The upgrade fails by itself (a timeout, an admission error, an interrupt).
HelmBreaks(r) ==
  /\ r \in MayFail /\ failures < MaxFailures
  /\ r = "podiumd" /\ Moving # {} => MovesMayFail
  /\ Ready(r)
  /\ HelmPartly(r)
  /\ helm' = [helm EXCEPT ![r].latest = Target(cur, held, r)]
  /\ failures' = failures + 1
  /\ UNCHANGED kills

\* "another operation is in progress", an ownership conflict, a blocked hook.
HelmRefuses(r) ==
  /\ ~Ready(r)
  /\ helm' = IF HookFails(r) /\ ~helm[r].pending /\ ~Conflict(r)
             THEN [helm EXCEPT ![r].latest = Target(cur, held, r)] ELSE helm
  /\ UNCHANGED <<live, failures, kills>>

HelmFails(r) == HelmBreaks(r) \/ HelmRefuses(r)

-----------------------------------------------------------------------------
(* One deploy. *)

Start(s, e) ==
  /\ pc = "idle"
  /\ Goto("render") /\ result' = "running"
  /\ switched' = \/ result = "failed" /\ s # want
                 \/ switched /\ ~(result = "deployed" /\ every)
  /\ want' = s /\ every' = e /\ cur' = s /\ defer' = TRUE
  /\ UNCHANGED <<held, names, moved, todo, broken, failures, kills>> /\ UNCHANGED cluster

\* Mutant: the website is never left out.
Choose_Always ==
  /\ pc = "render"
  /\ cur' = want
  /\ Goto("plan")
  /\ UNCHANGED <<want, every, defer, held, names, moved, todo, broken, result, switched, failures, kills>>
  /\ UNCHANGED cluster

\* _deploy, until it has rendered what it deploys.
Choose ==
  /\ pc = "render"
  /\ cur' = IF defer /\ Blocked(want) THEN WithoutWebsite[want] ELSE want
  /\ Goto("plan")
  /\ UNCHANGED <<want, every, defer, held, names, moved, todo, broken, result, switched, failures, kills>>
  /\ UNCHANGED cluster

\* hold_zac, _changed, and the objects _prepare finds to be taken over.
Plan ==
  /\ pc = "plan"
  /\ held' = HoldZac(cur)
  /\ names' = Changed(cur, held')
  /\ moved' = IF "own" \in names' THEN TakenOver(cur) ELSE {}
  /\ Goto("prepare")
  /\ UNCHANGED <<want, every, cur, defer, todo, broken, result, switched, failures, kills>>
  /\ UNCHANGED cluster

\* _prepare deletes them.
Prepare ==
  /\ pc = "prepare"
  /\ live' = [o \in Object |-> IF o \in moved THEN Gone ELSE live[o]]
  /\ todo' = names \ {"own"}
  /\ Goto(IF "own" \in names THEN "own" ELSE "pool")
  /\ UNCHANGED <<helm, last, broken, result, switched, failures, kills>> /\ UNCHANGED plan

UpgradeOwn ==
  /\ pc = "own"
  /\ \/ HelmDone("own") /\ Goto("storage")
        /\ UNCHANGED <<todo, broken, result, switched>> /\ UNCHANGED plan
     \/ HelmFails("own") /\ End("failed")
  /\ UNCHANGED last

\* storage-permissions-fix has completed.
Storage ==
  /\ pc = "storage"
  /\ Goto("pool")
  /\ UNCHANGED <<todo, broken, result, switched, failures, kills>> /\ UNCHANGED cluster /\ UNCHANGED plan

\* The pool's threads, in any order; all end before an error is raised.
UpgradeOther(r) ==
  /\ pc = "pool" /\ r \in todo
  /\ \/ HelmDone(r) /\ UNCHANGED broken
     \/ HelmFails(r) /\ broken' = TRUE
  /\ todo' = todo \ {r}
  /\ UNCHANGED <<last, pc, result, switched>> /\ UNCHANGED plan

\* All threads have ended: the finally block, if objects moved.
PoolDone ==
  /\ pc = "pool" /\ todo = {}
  /\ IF moved = {} /\ broken
     THEN End("failed")
     ELSE /\ Goto(IF moved # {} THEN "again" ELSE "record")
          /\ UNCHANGED <<todo, broken, result, switched>> /\ UNCHANGED plan
  /\ UNCHANGED <<failures, kills>> /\ UNCHANGED cluster

\* Mutant: this chart's release is not upgraded once more.
UpgradeAgain_Skipped ==
  /\ pc = "again"
  /\ IF broken THEN End("failed")
     ELSE Goto("record") /\ UNCHANGED <<todo, broken, result, switched>> /\ UNCHANGED plan
  /\ UNCHANGED <<failures, kills>> /\ UNCHANGED cluster

\* finally: podiumd's upgrade deleted the moved objects.
UpgradeAgain ==
  /\ pc = "again"
  /\ \/ HelmDone("own")
        /\ IF broken THEN End("failed")
           ELSE Goto("record") /\ UNCHANGED <<todo, broken, result, switched>> /\ UNCHANGED plan
     \/ HelmFails("own") /\ End("failed")
  /\ UNCHANGED last

\* deployed.record
Record ==
  /\ pc = "record"
  /\ last' = [r \in Release |-> IF r \in Found(cur) THEN Digest(cur, held, r) ELSE NotRecorded]
  /\ Goto("ready")
  /\ UNCHANGED <<live, helm, todo, broken, result, switched, failures, kills>> /\ UNCHANGED plan

\* _wait_ready: ZAC's Jobs have finished.
StartZac ==
  /\ pc = "ready"
  /\ live' = IF held THEN [live EXCEPT ![Zac].body = Render[cur]["podiumd"][Zac]] ELSE live
  /\ held' = FALSE
  /\ Goto("settle")
  /\ UNCHANGED <<helm, last, want, every, cur, defer, names, moved,
                 todo, broken, result, switched, failures, kills>>

\* Everything has rolled out; again with the website when it was left out.
Settle ==
  /\ pc = "settle"
  /\ IF cur = want
     THEN End("deployed")
     ELSE /\ Goto("render") /\ defer' = FALSE
          /\ UNCHANGED <<want, every, cur, held, names, moved, todo, broken, result, switched>>
  /\ UNCHANGED <<failures, kills>> /\ UNCHANGED cluster

-----------------------------------------------------------------------------
\* Any other step of deploy raises (kubectl, a timeout, a failed Job).
Fail ==
  /\ pc \in {"render", "plan", "prepare", "own", "storage", "record", "ready", "settle"}
  /\ failures < MaxFailures
  /\ failures' = failures + 1
  /\ End("failed")
  /\ UNCHANGED kills /\ UNCHANGED cluster

Running(r) == (pc \in {"own", "again"} /\ r = "own") \/ (pc = "pool" /\ r \in todo)

\* The machine stops: no finally, and an upgrade that was under way stays pending.
Kill ==
  /\ pc # "idle" /\ kills < MaxKills
  /\ kills' = kills + 1
  /\ \/ UNCHANGED <<live, helm>>
     \/ \E r \in Release :
          /\ Running(r) /\ Ready(r)
          /\ HelmPartly(r)
          /\ helm' = [helm EXCEPT ![r].latest = Target(cur, held, r), ![r].pending = TRUE]
  /\ End("failed")
  /\ UNCHANGED <<last, failures>>

Step ==
  \/ Choose \/ Plan \/ Prepare \/ UpgradeOwn \/ Storage
  \/ \E r \in Release : UpgradeOther(r)
  \/ PoolDone \/ UpgradeAgain \/ Record \/ StartZac \/ Settle

Next ==
  \/ \E s \in Selection, e \in BOOLEAN : Start(s, e)
  \/ Step \/ Fail \/ Kill

Spec == Init /\ [][Next]_vars

\* deploy runs to its end, and a failed deploy is run again.
FairSpec ==
  /\ Spec
  /\ WF_vars(Step)
  /\ WF_vars(result = "failed" /\ Start(want, FALSE))

-----------------------------------------------------------------------------
Labels == {"idle", "render", "plan", "prepare", "own", "storage", "pool", "again",
           "record", "ready", "settle"}

\* Every variable holds a value the code can give it.
TypeOK ==
  /\ live \in [Object -> [by : Release \cup {"nobody"}, body : Content]]
  /\ helm \in [Release -> [deployed : Manifest, latest : Manifest, pending : BOOLEAN]]
  /\ last \in [Release -> Digests]
  /\ pc \in Labels /\ result \in {"none", "running", "deployed", "failed"}
  /\ want \in Selection /\ cur \in {want, WithoutWebsite[want]}
  /\ every \in BOOLEAN /\ defer \in BOOLEAN /\ held \in BOOLEAN /\ broken \in BOOLEAN /\ switched \in BOOLEAN
  /\ names \subseteq Release /\ moved \subseteq Object /\ todo \subseteq Release
  /\ failures \in 0 .. MaxFailures /\ kills \in 0 .. MaxKills

\* The objects of release r's render for variant v are in the cluster as rendered.
Live(v, r) ==
  \A o \in Objects(Render[v][r]) : live[o] = [by |-> r, body |-> Render[v][r][o]]

\* "Deployed.": the cluster runs what was selected, ZAC at its own replica count
\* included, whatever failed and was left behind before; after a switch from a failed
\* deploy to another selection only with --every-release.
DeployedIsLive ==
  result = "deployed" /\ (every \/ ~switched) => \A r \in Found(want) : Live(want, r)

\* A release that this deploy leaves alone is in the cluster as rendered.
SkippedLive ==
  pc \in Labels \ {"idle", "render", "plan"} =>
    \A r \in Found(cur) \ names : Live(cur, r)

\* "render unchanged since the last deploy; not upgraded": a release left alone is as
\* rendered, however far the failed deploys of this selection since that one got.  Not
\* after a failed deploy of another selection, until one with --every-release has
\* succeeded: what that deploy upgraded before it failed is recorded nowhere.
SkippedIsLive == ~switched => SkippedLive

\* taken_over: no upgrade meets an object that another release owns ("Helm refuses
\* to adopt them"), however far the deploys of this selection before it got.
NoConflict == ~switched => \A r \in Release : Running(r) => ~Conflict(r)

\* On a fresh install ZAC starts only once its Jobs have finished: no upgrade of a variant
\* that has them, after however many failed ones, creates it with replicas.
ZacWaits == [][live[Zac] = Gone /\ cur \in WithZacJobs => live'[Zac].body \in {Absent, Off}]_vars

\* A deploy run again until it succeeds succeeds, once the failures end: none leaves
\* a state the next deploy cannot continue from (except a killed helm).
RetryConverges ==
  result = "failed" /\ kills = 0 ~> result = "deployed" \/ kills > 0 \/ switched
=============================================================================
