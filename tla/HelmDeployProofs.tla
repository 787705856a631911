------------------------- MODULE HelmDeployProofs -------------------------
(***************************************************************************)
(* What holds of deploys for any charts, failures and kills: when ZAC      *)
(* starts; when no object moves between the releases, what a deploy that   *)
(* says so has deployed and what it may leave alone; and when objects move *)
(* between podiumd's and this chart's, that no upgrade meets another's.    *)
(***************************************************************************)
EXTENDS HelmDeploy, TLAPS

USE DEF Release, Goto

Upgrading == {"prepare", "own", "storage", "pool", "again", "record"}

\* ZAC is podiumd's in every variant.
ZacIsPodiumds == \A v \in Variant : Zac \in Objects(Render[v]["podiumd"])

\* ZAC is podiumd's in the cluster and in Helm's revisions too, and is never taken over.
ZacsRelease ==
  /\ live[Zac] = Gone \/ live[Zac].by = "podiumd"
  /\ \A r \in Release \ {"podiumd"} :
       Zac \notin Objects(helm[r].deployed) /\ Zac \notin Objects(helm[r].latest)
  /\ Zac \notin moved

\* It is there once podiumd is deployed, and a pass that does not hold it has found it or has none
\* of its Jobs.
ZacsPlan ==
  /\ IsDeployed("podiumd") => live[Zac] # Gone
  /\ pc \in Upgrading /\ ~held => live[Zac] # Gone \/ cur \notin WithZacJobs
  /\ pc \in {"idle", "render", "plan", "settle"} => ~held

\* podiumd is deployed when a pass is recorded.
PodiumdsPlan ==
  /\ pc \in {"prepare", "own", "storage"} => "podiumd" \in names \/ IsDeployed("podiumd")
  /\ pc \in {"own", "storage"} => todo = names \ {"own"}
  /\ pc \in {"pool", "again"} /\ ~broken => "podiumd" \in todo \/ IsDeployed("podiumd")
  /\ pc \in {"again", "record"} => todo = {}
  /\ pc \in {"record", "ready"} => IsDeployed("podiumd")
  /\ pc \notin {"pool", "again"} => ~broken

ZacInv == ZacsRelease /\ ZacsPlan /\ PodiumdsPlan

-----------------------------------------------------------------------------
(* Renders and what Helm makes of them. *)

LEMMA Renders ==
  ASSUME NEW v \in Variant, NEW r \in Release
  PROVE  /\ Render[v][r] \in [Object -> Body \cup {Absent}]
         /\ Render[v][r] \in Manifest
<1>1. Render \in [Variant -> [Release -> [Object -> Body \cup {Absent}]]]
  BY HelmDeployAssumption
<1>2. Render[v][r] \in [Object -> Body \cup {Absent}]
  BY <1>1, Zenon
<1>. QED BY <1>2 DEF Manifest, Content

LEMMA NothingType == Nothing \in Manifest /\ Gone \in [by : Release \cup {"nobody"}, body : Content]
BY DEF Nothing, Manifest, Content, Gone

\* The post-renderer changes what ZAC's Deployment says, never which objects there are.
LEMMA Targets ==
  ASSUME NEW v \in Variant, NEW r \in Release, NEW h \in BOOLEAN
  PROVE  /\ Target(v, h, r) \in Manifest
         /\ Objects(Target(v, h, r)) = Objects(Render[v][r])
         /\ \A o \in Object : o # Zac => Target(v, h, r)[o] = Render[v][r][o]
         /\ h /\ r = "podiumd" /\ Zac \in Objects(Render[v][r]) => Target(v, h, r)[Zac] = Off
         /\ ~(h /\ r = "podiumd") => Target(v, h, r) = Render[v][r]
<1>1. Render[v][r] \in [Object -> Body \cup {Absent}]
  BY Renders
<1>2. Off # Absent /\ Zac \in Object
  BY HelmDeployAssumption
<1>3. Target(v, h, r) \in Manifest
  BY <1>1, <1>2 DEF Target, Manifest, Content
<1>4. \A o \in Object : Target(v, h, r)[o] # Absent <=> Render[v][r][o] # Absent
  BY <1>1, <1>2 DEF Target
<1>5. Objects(Target(v, h, r)) = Objects(Render[v][r])
  BY <1>4 DEF Objects
<1>6. ~(h /\ r = "podiumd") => Target(v, h, r) = Render[v][r]
  BY <1>1 DEF Target
<1>7. \A o \in Object : o # Zac => Target(v, h, r)[o] = Render[v][r][o]
  BY DEF Target
<1>8. h /\ r = "podiumd" /\ Zac \in Objects(Render[v][r]) => Target(v, h, r)[Zac] = Off
  BY <1>2 DEF Target, Objects
<1>. QED BY <1>3, <1>5, <1>6, <1>7, <1>8

\* What the upgrade of release r makes of an object; and of all of them.
Written(r, o) == [by |-> r, body |-> Target(cur, held, r)[o]]
Full(r) == \A o \in Objects(Render[cur][r]) : live'[o] = Written(r, o)

\* An upgrade of release r, as far as it got.
Up(r) ==
  /\ live' \in [Object -> [by : Release \cup {"nobody"}, body : Content]]
  /\ helm' \in [Release -> [deployed : Manifest, latest : Manifest, pending : BOOLEAN]]
  /\ \A o \in Object :
       \/ live'[o] = live[o]
       \/ o \in Objects(Render[cur][r]) /\ live'[o] = Written(r, o) /\ ~HookFails(r)
       \/ o \in Objects(Replaced(r)) \ Objects(Render[cur][r]) /\ live'[o] = Gone
  /\ \A q \in Release \ {r} : helm'[q] = helm[q]
  /\ helm'[r].deployed \in {helm[r].deployed, Target(cur, held, r)}
  /\ helm'[r].latest \in {helm[r].latest, Target(cur, held, r)}
  /\ helm'[r].deployed # helm[r].deployed => Full(r)

LEMMA Typed ==
  ASSUME TypeOK
  PROVE  /\ cur \in Variant /\ want \in Variant /\ WithoutWebsite[want] \in Variant
         /\ held \in BOOLEAN
         /\ \A r \in Release : helm[r] \in [deployed : Manifest, latest : Manifest, pending : BOOLEAN]
         /\ \A o \in Object : live[o] \in [by : Release \cup {"nobody"}, body : Content]
BY HelmDeployAssumption DEF TypeOK

LEMMA PartlyTouches ==
  ASSUME TypeOK, NEW r \in Release, Ready(r), HelmPartly(r)
  PROVE  /\ live' \in [Object -> [by : Release \cup {"nobody"}, body : Content]]
         /\ \A o \in Object :
              \/ live'[o] = live[o]
              \/ o \in Objects(Render[cur][r]) /\ live'[o] = Written(r, o) /\ ~HookFails(r)
              \/ o \in Objects(Replaced(r)) \ Objects(Render[cur][r]) /\ live'[o] = Gone
<1>1. /\ Target(cur, held, r) \in [Object -> Content]
      /\ Objects(Target(cur, held, r)) = Objects(Render[cur][r])
  BY Typed, Targets DEF Manifest
<1>2. \A o \in Object : Written(r, o) \in [by : Release \cup {"nobody"}, body : Content]
  BY <1>1 DEF Written
<1>3. \A S \in SUBSET Objects(Render[cur][r]) : \A o \in Object :
        Applied(r, S)[o] = IF o \in S THEN Written(r, o) ELSE live[o]
  BY DEF Applied, Written
<1>4. ~HookFails(r)
  BY DEF Ready
<1>5. ASSUME NEW S \in SUBSET Objects(Render[cur][r]), live' = Applied(r, S) PROVE
        /\ \A o \in Object : live'[o] = live[o] \/ (o \in S /\ live'[o] = Written(r, o))
        /\ live' \in [Object -> [by : Release \cup {"nobody"}, body : Content]]
  <2>1. \A o \in Object : live'[o] = IF o \in S THEN Written(r, o) ELSE live[o]
    BY <1>3, <1>5
  <2>2. live' = [o \in Object |-> live'[o]]
    BY <1>5 DEF Applied
  <2>3. \A o \in Object : live'[o] \in [by : Release \cup {"nobody"}, body : Content]
    BY <2>1, <1>2, Typed
  <2>. QED BY <2>1, <2>2, <2>3
<1>6. ASSUME live' = Upgraded(r) PROVE
        /\ \A o \in Object :
             \/ live'[o] = live[o]
             \/ o \in Objects(Render[cur][r]) /\ live'[o] = Written(r, o)
             \/ o \in Objects(Replaced(r)) \ Objects(Render[cur][r]) /\ live'[o] = Gone
        /\ live' \in [Object -> [by : Release \cup {"nobody"}, body : Content]]
  <2>1. \A o \in Object :
          live'[o] = IF o \in Objects(Replaced(r)) \ Objects(Render[cur][r]) THEN Gone
                     ELSE IF o \in Objects(Render[cur][r]) THEN Written(r, o) ELSE live[o]
    BY <1>6, <1>1, <1>3 DEF Upgraded
  <2>2. live' = [o \in Object |-> live'[o]]
    BY <1>6 DEF Upgraded
  <2>3. \A o \in Object : live'[o] \in [by : Release \cup {"nobody"}, body : Content]
    BY <2>1, <1>2, Typed, NothingType
  <2>. QED BY <2>1, <2>2, <2>3
<1>. QED BY <1>1, <1>4, <1>5, <1>6 DEF HelmPartly

LEMMA DoneUp == ASSUME TypeOK, NEW r \in Release, HelmDone(r)
                PROVE  Up(r) /\ Full(r) /\ helm'[r].deployed = Target(cur, held, r)
<1>1. HelmPartly(r) /\ Ready(r)
  BY DEF HelmDone, HelmPartly
<1>2. Target(cur, held, r) \in Manifest /\ Objects(Target(cur, held, r)) = Objects(Render[cur][r])
  BY Typed, Targets
<1>3. Full(r)
  BY <1>2 DEF HelmDone, Upgraded, Applied, Full, Written, Objects
<1>4. /\ helm' = [helm EXCEPT ![r] = [deployed |-> Target(cur, held, r),
                                      latest |-> Target(cur, held, r), pending |-> FALSE]]
      /\ helm \in [Release -> [deployed : Manifest, latest : Manifest, pending : BOOLEAN]]
  BY DEF HelmDone, TypeOK
<1>5. /\ helm' \in [Release -> [deployed : Manifest, latest : Manifest, pending : BOOLEAN]]
      /\ \A q \in Release \ {r} : helm'[q] = helm[q]
      /\ helm'[r].deployed = Target(cur, held, r) /\ helm'[r].latest = Target(cur, held, r)
  BY <1>2, <1>4
<1>. QED BY <1>1, <1>3, <1>5, PartlyTouches DEF Up

LEMMA LatestTyped ==
  ASSUME TypeOK, NEW r \in Release, NEW p \in BOOLEAN,
         helm' = [helm EXCEPT ![r].latest = Target(cur, held, r), ![r].pending = p]
  PROVE  /\ helm' \in [Release -> [deployed : Manifest, latest : Manifest, pending : BOOLEAN]]
         /\ \A q \in Release \ {r} : helm'[q] = helm[q]
         /\ helm'[r].deployed = helm[r].deployed /\ helm'[r].latest = Target(cur, held, r)
<1>1. Target(cur, held, r) \in Manifest
  BY Typed, Targets
<1>. QED BY <1>1 DEF TypeOK

LEMMA FailsUp == ASSUME TypeOK, NEW r \in Release, HelmFails(r) PROVE Up(r)
<1>0. /\ helm \in [Release -> [deployed : Manifest, latest : Manifest, pending : BOOLEAN]]
      /\ live \in [Object -> [by : Release \cup {"nobody"}, body : Content]]
  BY DEF TypeOK
<1>1. ASSUME helm' = [helm EXCEPT ![r].latest = Target(cur, held, r)]
      PROVE  /\ helm' \in [Release -> [deployed : Manifest, latest : Manifest, pending : BOOLEAN]]
             /\ \A q \in Release \ {r} : helm'[q] = helm[q]
             /\ helm'[r].deployed = helm[r].deployed /\ helm'[r].latest = Target(cur, held, r)
  <2>1. helm' = [helm EXCEPT ![r].latest = Target(cur, held, r), ![r].pending = helm[r].pending]
    BY <1>0, <1>1
  <2>. QED BY <1>0, <2>1, LatestTyped
<1>2. CASE HelmBreaks(r)
  <2>1. Ready(r) /\ HelmPartly(r)
    BY <1>2 DEF HelmBreaks
  <2>2. helm' = [helm EXCEPT ![r].latest = Target(cur, held, r)]
    BY <1>2 DEF HelmBreaks
  <2>. QED BY <1>1, <2>1, <2>2, PartlyTouches DEF Up
<1>3. CASE HelmRefuses(r)
  <2>1. live' = live
    BY <1>3 DEF HelmRefuses
  <2>2. helm' = helm \/ helm' = [helm EXCEPT ![r].latest = Target(cur, held, r)]
    BY <1>3 DEF HelmRefuses
  <2>. QED BY <1>0, <1>1, <2>1, <2>2 DEF Up
<1>. QED BY <1>2, <1>3 DEF HelmFails

LEMMA KillUp ==
  ASSUME TypeOK, Kill
  PROVE  UNCHANGED <<live, helm>> \/ \E r \in Release : Running(r) /\ Up(r)
<1> SUFFICES ASSUME NEW r \in Release, Running(r), Ready(r), HelmPartly(r),
                    helm' = [helm EXCEPT ![r].latest = Target(cur, held, r), ![r].pending = TRUE]
             PROVE  Up(r)
  BY DEF Kill
<1>. QED BY LatestTyped, PartlyTouches DEF Up

-----------------------------------------------------------------------------
(* Types. *)

LEMMA DigestTyped ==
  ASSUME NEW v \in Variant, NEW r \in Release, NEW h \in BOOLEAN
  PROVE  Digest(v, h, r) \in Digests
BY Renders DEF Digest, Digests

LEMMA DigestFields ==
  ASSUME NEW v, NEW r, NEW h \in BOOLEAN
  PROVE  /\ Digest(v, h, r).manifest = Render[v][r]
         /\ Digest(v, h, r).held <=> h /\ r = "podiumd"
<1>1. Digest(v, h, r).manifest = Render[v][r]
  BY DEF Digest
<1>2. Digest(v, h, r).held = (h /\ r = "podiumd")
  BY DEF Digest
<1>. QED BY <1>1, <1>2, Zenon

\* The variables only deploy itself has.
PlanTyped ==
  /\ pc \in Labels /\ result \in {"none", "running", "deployed", "failed"}
  /\ want \in Selection /\ cur \in {want, WithoutWebsite[want]}
  /\ every \in BOOLEAN /\ defer \in BOOLEAN /\ held \in BOOLEAN /\ broken \in BOOLEAN /\ switched \in BOOLEAN
  /\ names \subseteq Release /\ moved \subseteq Object /\ todo \subseteq Release

ClusterTyped ==
  /\ live \in [Object -> [by : Release \cup {"nobody"}, body : Content]]
  /\ helm \in [Release -> [deployed : Manifest, latest : Manifest, pending : BOOLEAN]]
  /\ last \in [Release -> Digests]

CountsTyped == failures \in 0 .. MaxFailures /\ kills \in 0 .. MaxKills

LEMMA Parts == /\ TypeOK <=> PlanTyped /\ ClusterTyped /\ CountsTyped
               /\ TypeOK' <=> PlanTyped' /\ ClusterTyped' /\ CountsTyped'
BY DEF TypeOK, PlanTyped, ClusterTyped, CountsTyped

LEMMA EndTyped == \A outcome \in {"deployed", "failed"} : PlanTyped /\ End(outcome) => PlanTyped'
BY DEF PlanTyped, End, Labels

LEMMA TypeInit == Init => TypeOK
<1> SUFFICES ASSUME Init PROVE TypeOK
  OBVIOUS
<1>1. PlanTyped
  BY DEF Init, PlanTyped, Labels
<1>2. /\ live \in [Object -> [by : Release \cup {"nobody"}, body : Content]]
      /\ helm \in [Release -> [deployed : Manifest, latest : Manifest, pending : BOOLEAN]]
  BY NothingType DEF Init
<1>3. last \in [Release -> Digests]
  BY NothingType DEF Init, NotRecorded, Digests
<1>4. failures \in 0 .. MaxFailures /\ kills \in 0 .. MaxKills
  BY HelmDeployAssumption DEF Init
<1>. QED BY <1>1, <1>2, <1>3, <1>4, Parts DEF ClusterTyped, CountsTyped

LEMMA TypeDecide == TypeOK /\ (Choose \/ Plan \/ Storage \/ PoolDone \/ Settle) => TypeOK'
<1> SUFFICES ASSUME TypeOK, Choose \/ Plan \/ Storage \/ PoolDone \/ Settle PROVE TypeOK'
  OBVIOUS
<1> USE DEF cluster, plan, Labels
<1>1. ClusterTyped' /\ CountsTyped'
  BY Parts DEF ClusterTyped, CountsTyped, Choose, Plan, Storage, PoolDone, Settle
<1>2. CASE Choose
  BY <1>1, <1>2, Parts DEF PlanTyped, Choose
<1>3. CASE Plan
  <2>1. Changed(cur, held') \subseteq Release /\ TakenOver(cur) \subseteq Object /\ held' \in BOOLEAN
    BY <1>3 DEF Plan, Changed, Found, TakenOver, Objects, HoldZac
  <2>. QED BY <1>1, <1>3, <2>1, Parts DEF PlanTyped, Plan
<1>4. CASE Storage
  BY <1>1, <1>4, Parts DEF PlanTyped, Storage
<1>5. CASE PoolDone
  BY <1>1, <1>5, EndTyped, Parts DEF PlanTyped, PoolDone
<1>6. CASE Settle
  BY <1>1, <1>6, EndTyped, Parts DEF PlanTyped, Settle
<1>. QED BY <1>2, <1>3, <1>4, <1>5, <1>6

LEMMA TypeChange ==
  TypeOK /\ (Prepare \/ UpgradeOwn \/ UpgradeAgain \/ \E r \in Release : UpgradeOther(r)) => TypeOK'
<1> SUFFICES ASSUME TypeOK, Prepare \/ UpgradeOwn \/ UpgradeAgain \/ \E r \in Release : UpgradeOther(r)
             PROVE  TypeOK'
  OBVIOUS
<1> USE DEF plan, Labels
<1>1. ASSUME NEW r \in Release, HelmDone(r) \/ HelmFails(r), last' = last
      PROVE  ClusterTyped' /\ CountsTyped'
  <2>1. Up(r)
    BY <1>1, DoneUp, FailsUp
  <2>2. (failures \in 0 .. MaxFailures)' /\ kills' = kills
    BY <1>1, HelmDeployAssumption DEF TypeOK, HelmDone, HelmFails, HelmBreaks, HelmRefuses
  <2>. QED BY <1>1, <2>1, <2>2 DEF ClusterTyped, CountsTyped, Up, TypeOK
<1>2. CASE Prepare
  <2>1. \A o \in Object : live'[o] \in [by : Release \cup {"nobody"}, body : Content]
    BY <1>2, NothingType DEF Prepare, TypeOK
  <2>2. live' \in [Object -> [by : Release \cup {"nobody"}, body : Content]]
    BY <1>2, <2>1 DEF Prepare
  <2>3. PlanTyped'
    BY <1>2, Parts DEF Prepare, PlanTyped
  <2>. QED BY <1>2, <2>2, <2>3, Parts DEF Prepare, ClusterTyped, CountsTyped
<1>3. CASE UpgradeOwn
  <2>1. PlanTyped'
    BY <1>3, EndTyped, Parts DEF UpgradeOwn, PlanTyped
  <2>. QED BY <1>1, <1>3, <2>1, Parts DEF UpgradeOwn
<1>4. CASE UpgradeAgain
  <2>1. PlanTyped'
    BY <1>4, EndTyped, Parts DEF UpgradeAgain, PlanTyped
  <2>. QED BY <1>1, <1>4, <2>1, Parts DEF UpgradeAgain
<1>5. ASSUME NEW r \in Release, UpgradeOther(r) PROVE TypeOK'
  <2>1. PlanTyped'
    BY <1>5, Parts DEF UpgradeOther, PlanTyped
  <2>. QED BY <1>1, <1>5, <2>1, Parts DEF UpgradeOther
<1>. QED BY <1>2, <1>3, <1>4, <1>5

LEMMA TypeRecord == TypeOK /\ (Record \/ StartZac) => TypeOK'
<1> SUFFICES ASSUME TypeOK, Record \/ StartZac PROVE TypeOK'
  OBVIOUS
<1> USE DEF plan, Labels
<1>1. CASE Record
  <2>1. NotRecorded \in Digests
    BY NothingType DEF NotRecorded, Digests
  <2>2. last' \in [Release -> Digests]
    BY <1>1, <2>1, DigestTyped, Typed DEF Record
  <2>3. PlanTyped'
    BY <1>1, Parts DEF Record, PlanTyped
  <2>. QED BY <1>1, <2>2, <2>3, Parts DEF Record, ClusterTyped, CountsTyped
<1>2. CASE StartZac
  <2>1. Render[cur]["podiumd"][Zac] \in Content /\ Zac \in Object
    BY Renders, Typed, HelmDeployAssumption DEF Content
  <2>2. live' \in [Object -> [by : Release \cup {"nobody"}, body : Content]]
    BY <1>2, <2>1 DEF StartZac, TypeOK
  <2>3. PlanTyped'
    BY <1>2, Parts DEF StartZac, PlanTyped
  <2>. QED BY <1>2, <2>2, <2>3, Parts DEF StartZac, ClusterTyped, CountsTyped
<1>. QED BY <1>1, <1>2

LEMMA TypeEnv == TypeOK /\ (Fail \/ Kill \/ \E s \in Selection, e \in BOOLEAN : Start(s, e)) => TypeOK'
<1> SUFFICES ASSUME TypeOK, Fail \/ Kill \/ \E s \in Selection, e \in BOOLEAN : Start(s, e) PROVE TypeOK'
  OBVIOUS
<1>1. CASE Fail
  <2>1. PlanTyped' /\ ClusterTyped'
    BY <1>1, EndTyped, Parts DEF Fail, cluster, ClusterTyped
  <2>. QED BY <1>1, <2>1, Parts, HelmDeployAssumption DEF Fail, CountsTyped
<1>2. CASE Kill
  <2>1. PlanTyped' /\ CountsTyped'
    BY <1>2, EndTyped, Parts, HelmDeployAssumption DEF Kill, CountsTyped
  <2>2. ClusterTyped'
    BY <1>2, KillUp, Parts DEF Kill, ClusterTyped, Up
  <2>. QED BY <2>1, <2>2, Parts
<1>3. ASSUME NEW s \in Selection, NEW e \in BOOLEAN, Start(s, e) PROVE TypeOK'
  <2>1. PlanTyped'
    BY <1>3, Parts DEF Start, PlanTyped, Labels
  <2>. QED BY <1>3, <2>1, Parts DEF Start, cluster, ClusterTyped, CountsTyped
<1>. QED BY <1>1, <1>2, <1>3

LEMMA TypeStep == TypeOK /\ [Next]_vars => TypeOK'
<1>1. TypeOK /\ UNCHANGED vars => TypeOK'
  BY DEF TypeOK, vars
<1>. QED BY <1>1, TypeDecide, TypeChange, TypeRecord, TypeEnv DEF Next, Step

\* Every reachable state is well typed.
THEOREM TypeCorrect == Spec => []TypeOK
BY TypeInit, TypeStep, PTL DEF Spec

-----------------------------------------------------------------------------
(* ZAC. *)

LEMMA NotTheirs ==
  ASSUME ZacIsPodiumds, NEW v \in Variant, NEW r \in Release \ {"podiumd"}
  PROVE  Zac \notin Objects(Render[v][r])
BY HelmDeployAssumption DEF ZacIsPodiumds

LEMMA UpZac ==
  ASSUME TypeOK, ZacIsPodiumds, ZacInv, NEW r \in Release, Up(r), moved' \in {moved, {}},
         pc \in {"own", "pool", "again"}
  PROVE  /\ ZacsRelease'
         /\ live[Zac] # Gone => live'[Zac] # Gone
         /\ IsDeployed("podiumd")' => live'[Zac] # Gone
         /\ IsDeployed("podiumd") => IsDeployed("podiumd")'
         /\ live[Zac] = Gone /\ cur \in WithZacJobs => live'[Zac].body \in {Absent, Off}
<1>0. cur \in Variant /\ held \in BOOLEAN /\ Zac \in Object /\ Off # Absent
  BY Typed, HelmDeployAssumption
<1>1. Zac \in Objects(Render[cur]["podiumd"])
  BY <1>0 DEF ZacIsPodiumds
<1>2. CASE r # "podiumd"
  <2>1. Zac \notin Objects(Render[cur][r]) /\ Objects(Target(cur, held, r)) = Objects(Render[cur][r])
    BY <1>0, <1>2, NotTheirs, Targets
  <2>2. Zac \notin Objects(Replaced(r))
    BY <1>2 DEF ZacInv, ZacsRelease, Replaced
  <2>3. live'[Zac] = live[Zac] /\ helm'["podiumd"] = helm["podiumd"]
    BY <1>0, <1>2, <2>1, <2>2 DEF Up
  <2>4. \A q \in Release \ {"podiumd"} :
          Zac \notin Objects(helm'[q].deployed) /\ Zac \notin Objects(helm'[q].latest)
    <3> SUFFICES ASSUME NEW q \in Release \ {"podiumd"}
                 PROVE  Zac \notin Objects(helm'[q].deployed) /\ Zac \notin Objects(helm'[q].latest)
      OBVIOUS
    <3>1. CASE q = r
      BY <2>1, <3>1 DEF Up, ZacInv, ZacsRelease
    <3>2. CASE q # r
      BY <3>2 DEF Up, ZacInv, ZacsRelease
    <3>. QED BY <3>1, <3>2
  <2>5. live[Zac] = Gone => live[Zac].body \in {Absent, Off}
    BY DEF Gone
  <2>. QED BY <2>3, <2>4, <2>5 DEF ZacInv, ZacsRelease, ZacsPlan, IsDeployed
<1>3. CASE r = "podiumd"
  <2>1. live'[Zac] = live[Zac] \/ live'[Zac] = Written(r, Zac)
    BY <1>0, <1>1, <1>3 DEF Up
  <2>2. Objects(Target(cur, held, r)) = Objects(Render[cur][r])
    BY <1>0, Targets
  <2>3. Target(cur, held, r)[Zac] # Absent /\ Target(cur, held, r) # Nothing
    BY <1>0, <1>1, <1>3, <2>2 DEF Objects, Nothing
  <2>4. Written(r, Zac).by = "podiumd" /\ Written(r, Zac) # Gone
    BY <1>3, <2>3 DEF Written, Gone
  <2>5. \A q \in Release \ {"podiumd"} : helm'[q] = helm[q]
    BY <1>3 DEF Up
  <2>6. helm'[r].deployed # helm[r].deployed => live'[Zac] = Written(r, Zac)
    BY <1>1, <1>3 DEF Up, Full
  <2>7. helm'[r].deployed = helm[r].deployed \/ helm'[r].deployed = Target(cur, held, r)
    BY DEF Up
  <2>8. live[Zac] = Gone /\ cur \in WithZacJobs => live'[Zac].body \in {Absent, Off}
    <3>1. live[Zac] = Gone /\ cur \in WithZacJobs => held
      BY DEF ZacInv, ZacsPlan, Upgrading
    <3>2. held => Target(cur, held, r)[Zac] = Off
      BY <1>0, <1>1, <1>3, Targets
    <3>3. Written(r, Zac).body = Target(cur, held, r)[Zac] /\ Gone.body = Absent
      BY DEF Written, Gone
    <3>. QED BY <2>1, <3>1, <3>2, <3>3
  <2>9. ZacsRelease'
    BY <2>1, <2>4, <2>5 DEF ZacInv, ZacsRelease
  <2>. QED BY <1>3, <2>1, <2>3, <2>4, <2>6, <2>7, <2>8, <2>9 DEF ZacInv, ZacsPlan, IsDeployed
<1>. QED BY <1>2, <1>3

\* A deploy that ends, or is cut off, has nothing planned.
LEMMA EndZac ==
  ASSUME NEW outcome, End(outcome), ZacsRelease', IsDeployed("podiumd")' => live'[Zac] # Gone
  PROVE  ZacInv'
BY DEF End, ZacInv, ZacsPlan, PodiumdsPlan, Upgrading

LEMMA ZacInit == Init => ZacInv
<1> SUFFICES ASSUME Init PROVE ZacInv
  OBVIOUS
<1>1. Zac \in Object /\ Zac \notin Objects(Nothing)
  BY HelmDeployAssumption DEF Objects, Nothing
<1>2. live[Zac] = Gone /\ \A r \in Release : helm[r].deployed = Nothing /\ helm[r].latest = Nothing
  BY <1>1 DEF Init
<1>. QED BY <1>1, <1>2 DEF Init, ZacInv, ZacsRelease, ZacsPlan, PodiumdsPlan, Upgrading, IsDeployed

LEMMA ZacDecides ==
  ASSUME TypeOK, ZacIsPodiumds, ZacInv, Choose \/ Plan \/ Storage \/ PoolDone \/ Settle
  PROVE  ZacInv' /\ live' = live
<1> USE DEF cluster, plan, ZacInv
<1>0. Zac \in Object /\ cur \in Variant
  BY HelmDeployAssumption, Typed
<1>1. CASE Choose
  BY <1>1 DEF Choose, ZacsRelease, ZacsPlan, PodiumdsPlan, Upgrading, IsDeployed
<1>2. CASE Plan
  <2>1. live' = live /\ helm' = helm /\ cur' = cur /\ pc' = "prepare" /\ broken' = broken /\ pc = "plan"
    BY <1>2 DEF Plan
  <2>2. Zac \notin moved'
    BY <1>0, <1>2, NotTheirs DEF Plan, TakenOver
  <2>3. ~held' => live[Zac] # Gone \/ cur \notin WithZacJobs
    BY <1>0, <1>2 DEF Plan, HoldZac, ZacIsPodiumds, Objects
  <2>4. "podiumd" \in names' \/ IsDeployed("podiumd")
    BY <1>2 DEF Plan, Changed, Found
  <2>5. ZacsRelease'
    BY <2>1, <2>2 DEF ZacsRelease
  <2>6. ZacsPlan' /\ PodiumdsPlan'
    BY <2>1, <2>3, <2>4 DEF ZacsPlan, PodiumdsPlan, Upgrading, IsDeployed
  <2>. QED BY <2>1, <2>5, <2>6
<1>3. CASE Storage
  BY <1>3 DEF Storage, ZacsRelease, ZacsPlan, PodiumdsPlan, Upgrading, IsDeployed
<1>4. CASE PoolDone
  <2>1. live' = live /\ helm' = helm /\ pc = "pool" /\ todo = {}
    BY <1>4 DEF PoolDone
  <2>2. CASE moved = {} /\ broken
    <3>1. End("failed")
      BY <1>4, <2>2 DEF PoolDone
    <3>2. ZacsRelease'
      BY <2>1, <3>1 DEF ZacsRelease, End
    <3>. QED BY <2>1, <3>1, <3>2, EndZac DEF ZacsPlan, IsDeployed
  <2>3. CASE ~(moved = {} /\ broken)
    BY <1>4, <2>1, <2>3 DEF PoolDone, ZacsRelease, ZacsPlan, PodiumdsPlan, Upgrading, IsDeployed
  <2>. QED BY <2>1, <2>2, <2>3
<1>5. CASE Settle
  <2>1. live' = live /\ helm' = helm /\ pc = "settle"
    BY <1>5 DEF Settle
  <2>2. CASE cur = want
    <3>1. End("deployed")
      BY <1>5, <2>2 DEF Settle
    <3>2. ZacsRelease'
      BY <2>1, <3>1 DEF ZacsRelease, End
    <3>. QED BY <2>1, <3>1, <3>2, EndZac DEF ZacsPlan, IsDeployed
  <2>3. CASE cur # want
    BY <1>5, <2>1, <2>3 DEF Settle, ZacsRelease, ZacsPlan, PodiumdsPlan, Upgrading, IsDeployed
  <2>. QED BY <2>1, <2>2, <2>3
<1>. QED BY <1>1, <1>2, <1>3, <1>4, <1>5

\* What each change may do to ZAC: never start one that was not there.
Waits == live[Zac] = Gone /\ cur \in WithZacJobs => live'[Zac].body \in {Absent, Off}

LEMMA ZacUpgrades ==
  ASSUME TypeOK, ZacIsPodiumds, ZacInv,
         UpgradeOwn \/ UpgradeAgain \/ \E r \in Release : UpgradeOther(r)
  PROVE  ZacInv' /\ Waits
<1> USE DEF plan
<1>1. CASE UpgradeOwn
  <2>1. Up("own") /\ pc = "own"
    BY <1>1, DoneUp, FailsUp DEF UpgradeOwn
  <2>2. moved' \in {moved, {}}
    BY <1>1 DEF UpgradeOwn, End
  <2>3. CASE HelmDone("own") /\ Goto("storage") /\ UNCHANGED <<todo, broken, result, switched>> /\ UNCHANGED plan
    BY <2>1, <2>2, <2>3, UpZac DEF ZacInv, ZacsPlan, PodiumdsPlan, Upgrading, Waits
  <2>4. CASE End("failed")
    BY <2>1, <2>2, <2>4, UpZac, EndZac DEF Waits
  <2>. QED BY <1>1, <2>3, <2>4 DEF UpgradeOwn
<1>2. CASE UpgradeAgain
  <2>1. Up("own") /\ pc = "again"
    BY <1>2, DoneUp, FailsUp DEF UpgradeAgain
  <2>2. moved' \in {moved, {}}
    BY <1>2 DEF UpgradeAgain, End
  <2>3. CASE ~broken /\ Goto("record") /\ UNCHANGED <<todo, broken, result, switched>> /\ UNCHANGED plan
    BY <2>1, <2>2, <2>3, UpZac DEF ZacInv, ZacsPlan, PodiumdsPlan, Upgrading, Waits
  <2>4. CASE End("failed")
    BY <2>1, <2>2, <2>4, UpZac, EndZac DEF Waits
  <2>. QED BY <1>2, <2>3, <2>4 DEF UpgradeAgain
<1>3. ASSUME NEW r \in Release, UpgradeOther(r) PROVE ZacInv' /\ Waits
  <2>1. /\ Up(r) /\ pc = "pool" /\ pc' = pc /\ cur' = cur /\ held' = held /\ moved' = moved
        /\ todo' = todo \ {r}
    BY <1>3, DoneUp, FailsUp DEF UpgradeOther
  <2>2. ZacsRelease' /\ ZacsPlan' /\ Waits
    BY <2>1, UpZac DEF ZacInv, ZacsPlan, Upgrading, Waits
  <2>3. ~broken' => "podiumd" \in todo' \/ IsDeployed("podiumd")'
    <3>1. CASE r = "podiumd" /\ ~broken'
      <4>1. helm'[r].deployed = Target(cur, held, r)
        BY <1>3, <3>1, DoneUp DEF UpgradeOther
      <4>2. Objects(Target(cur, held, r)) = Objects(Render[cur][r]) /\ Zac \in Objects(Render[cur][r])
        BY <3>1, Typed, Targets DEF ZacIsPodiumds
      <4>3. Target(cur, held, r) # Nothing
        BY <4>2 DEF Objects, Nothing
      <4>. QED BY <3>1, <4>1, <4>3 DEF IsDeployed
    <3>2. CASE r # "podiumd" /\ ~broken'
      <4>1. ~broken
        BY <1>3, <3>2 DEF UpgradeOther
      <4>. QED BY <2>1, <3>2, <4>1, UpZac DEF ZacInv, PodiumdsPlan
    <3>. QED BY <3>1, <3>2
  <2>. QED BY <2>1, <2>2, <2>3 DEF ZacInv, PodiumdsPlan
<1>. QED BY <1>1, <1>2, <1>3

LEMMA ZacChanges ==
  ASSUME TypeOK, ZacIsPodiumds, ZacInv, Prepare \/ Record \/ StartZac
  PROVE  ZacInv' /\ Waits
<1> USE DEF plan, ZacInv
<1>0. Zac \in Object /\ cur \in Variant /\ live \in [Object -> [by : Release \cup {"nobody"}, body : Content]]
  BY HelmDeployAssumption, Typed DEF TypeOK
<1>1. live[Zac] = Gone => live[Zac].body = Absent
  BY DEF Gone
<1>2. CASE Prepare
  <2>1. live'[Zac] = live[Zac] /\ helm' = helm
    BY <1>0, <1>2 DEF Prepare, ZacsRelease
  <2>2. ZacsRelease' /\ ZacsPlan'
    BY <1>2, <2>1 DEF Prepare, ZacsRelease, ZacsPlan, Upgrading, IsDeployed
  <2>3. PodiumdsPlan'
    BY <1>2, <2>1 DEF Prepare, PodiumdsPlan, IsDeployed
  <2>. QED BY <1>1, <2>1, <2>2, <2>3 DEF Waits
<1>3. CASE Record
  <2>1. live' = live /\ helm' = helm
    BY <1>3 DEF Record
  <2>2. ZacsRelease' /\ ZacsPlan' /\ PodiumdsPlan'
    BY <1>3, <2>1 DEF Record, ZacsRelease, ZacsPlan, PodiumdsPlan, Upgrading, IsDeployed
  <2>. QED BY <1>1, <2>1, <2>2 DEF Waits
<1>4. CASE StartZac
  <2>1. live[Zac] # Gone /\ pc = "ready" /\ helm' = helm /\ pc' = "settle" /\ ~held'
    BY <1>4 DEF StartZac, ZacsPlan, PodiumdsPlan
  <2>2. Render[cur]["podiumd"][Zac] # Absent
    BY <1>0 DEF ZacIsPodiumds, Objects
  <2>3. live'[Zac].by = live[Zac].by /\ live'[Zac] # Gone
    <3>1. CASE held
      BY <1>0, <1>4, <2>2, <3>1 DEF StartZac, Gone
    <3>2. CASE ~held
      BY <1>4, <2>1, <3>2 DEF StartZac
    <3>. QED BY <3>1, <3>2
  <2>4. ZacsRelease'
    BY <1>4, <2>1, <2>3 DEF StartZac, ZacsRelease
  <2>5. ZacsPlan' /\ PodiumdsPlan'
    BY <1>4, <2>1, <2>3 DEF StartZac, ZacsPlan, PodiumdsPlan, Upgrading, IsDeployed
  <2>. QED BY <2>1, <2>4, <2>5 DEF Waits
<1>. QED BY <1>2, <1>3, <1>4

LEMMA ZacEnv ==
  ASSUME TypeOK, ZacIsPodiumds, ZacInv, Fail \/ Kill \/ \E s \in Selection, e \in BOOLEAN : Start(s, e)
  PROVE  ZacInv' /\ Waits
<1>1. live[Zac] = Gone => live[Zac].body = Absent
  BY DEF Gone
<1>2. ASSUME UNCHANGED <<live, helm>>, End("failed") PROVE ZacInv' /\ Waits
  <2>1. ZacsRelease'
    BY <1>2 DEF ZacInv, ZacsRelease, End
  <2>. QED BY <1>1, <1>2, <2>1, EndZac DEF ZacInv, ZacsPlan, IsDeployed, Waits
<1>3. CASE Fail
  BY <1>2, <1>3 DEF Fail, cluster
<1>4. CASE Kill
  <2>1. End("failed")
    BY <1>4 DEF Kill
  <2>2. ASSUME NEW r \in Release, Running(r), Up(r) PROVE ZacInv' /\ Waits
    <3>1. pc \in {"own", "pool", "again"} /\ moved' = {}
      BY <2>1, <2>2 DEF Running, End
    <3>. QED BY <2>1, <2>2, <3>1, UpZac, EndZac DEF Waits
  <2>. QED BY <1>2, <1>4, <2>1, <2>2, KillUp
<1>5. CASE \E s \in Selection, e \in BOOLEAN : Start(s, e)
  <2>1. live' = live /\ helm' = helm
    BY <1>5 DEF Start, cluster
  <2>2. ZacInv'
    BY <1>5, <2>1 DEF Start, ZacInv, ZacsRelease, ZacsPlan, PodiumdsPlan, Upgrading, IsDeployed
  <2>. QED BY <1>1, <2>1, <2>2 DEF Waits
<1>. QED BY <1>3, <1>4, <1>5

LEMMA ZacStep == ZacIsPodiumds /\ TypeOK /\ ZacInv /\ [Next]_vars => ZacInv' /\ [Waits]_vars
<1> SUFFICES ASSUME ZacIsPodiumds, TypeOK, ZacInv, [Next]_vars PROVE ZacInv' /\ [Waits]_vars
  OBVIOUS
<1>1. CASE UNCHANGED vars
  <2>1. ZacInv'
    BY <1>1 DEF vars, ZacInv, ZacsRelease, ZacsPlan, PodiumdsPlan, IsDeployed
  <2>. QED BY <1>1, <2>1
<1>2. CASE Next
  <2>1. live' = live => Waits
    BY DEF Waits, Gone
  <2>. QED BY <1>2, <2>1, ZacDecides, ZacUpgrades, ZacChanges, ZacEnv DEF Next, Step
<1>. QED BY <1>1, <1>2

\* ZAC starts only once its Jobs have finished, for any charts with ZAC in podiumd's release,
\* whatever else moves between the releases: no upgrade creates it with replicas.
THEOREM ZacStartsLast ==
  ASSUME ZacIsPodiumds
  PROVE  Spec => ZacWaits
<1>1. Init => ZacInv
  BY ZacInit
<1>2. TypeOK /\ ZacInv /\ [Next]_vars =>
        ZacInv' /\ [live[Zac] = Gone /\ cur \in WithZacJobs => live'[Zac].body \in {Absent, Off}]_vars
  BY ZacStep DEF Waits
<1>. QED BY <1>1, <1>2, TypeCorrect, PTL DEF Spec, ZacWaits

-----------------------------------------------------------------------------
(* What is deployed, when no object moves between the releases. *)

Planned == Upgrading \ {"again"}

\* No object is of one release in a variant and of another in some variant; ZAC, Elasticsearch and
\* its policy are podiumd's; and so is the website.
Charts ==
  /\ \A v, w \in Variant : \A r, q \in Release :
       r # q => Objects(Render[v][r]) \cap Objects(Render[w][q]) = {}
  /\ Zac \notin {Search, Policy}
  /\ ZacIsPodiumds /\ \A v \in Variant : {Search, Policy} \subseteq Objects(Render[v]["podiumd"])
  /\ \A s \in Selection : \A r \in Release \ {"podiumd"} : Render[WithoutWebsite[s]][r] = Render[s][r]

\* Helm's revisions have their own release's objects only.
Homes ==
  \A r, q \in Release : r # q => \A v \in Variant :
    /\ Objects(helm[r].deployed) \cap Objects(Render[v][q]) = {}
    /\ Objects(helm[r].latest) \cap Objects(Render[v][q]) = {}

Recorded == \A r \in Release : last[r].manifest # Nothing => IsDeployed(r)

\* What is recorded as the selection has it is live so, but for a ZAC that was held.
IsRecorded(r, v) == Render[v][r] # Nothing /\ last[r].manifest = Render[v][r]
LiveButZac(r, v) ==
  \A o \in Objects(Render[v][r]) :
    /\ live[o].by = r
    /\ live[o].body = Render[v][r][o] \/ (o = Zac /\ last[r].held)
RecordedIsLive == \A r \in Release : IsRecorded(r, want) => LiveButZac(r, want)

\* While the website's hook is blocked, podiumd is not recorded without the website;
\* and when the website is left out, podiumd is recorded in neither form.
Without == WithoutWebsite[want]
BlockedIsNew ==
  Barred(want) => last["podiumd"].manifest # Render[Without]["podiumd"]
LeftOut ==
  pc \in {"plan"} \cup Planned /\ cur # want =>
    last["podiumd"].manifest \notin {Render[want]["podiumd"], Render[Without]["podiumd"]}

Cluster == Homes /\ Recorded /\ (~switched => RecordedIsLive /\ BlockedIsNew)

\* The plan, and what it leaves alone.
Planning ==
  /\ moved = {} /\ pc # "again"
  /\ pc # "idle" <=> result = "running"
  /\ result = "none" => \A r \in Release : last[r].manifest = Nothing
  /\ pc \notin {"own", "storage", "pool"} => todo = {}
  /\ pc \in Planned => names \subseteq Found(cur) /\ todo \subseteq names \ {"own"}
  /\ pc \in Planned => \A r \in Found(cur) \ names :
       ~every /\ last[r] = Digest(cur, held, r) /\ IsDeployed(r)
  /\ pc \in Planned /\ held => last["podiumd"].manifest = Nothing
  /\ pc \in Planned \cup {"ready"} /\ held => "podiumd" \in names
  /\ pc \in {"own", "storage"} => "own" \in names

\* What a pass has upgraded is live as it is to be, and so is all of it once it is recorded.
AsTarget(r) == \A o \in Objects(Render[cur][r]) : live[o] = Written(r, o)
Upgrades ==
  /\ pc \in {"storage", "pool", "record"} /\ "own" \in names => AsTarget("own") /\ IsDeployed("own")
  /\ pc \in {"pool", "record"} /\ ~broken =>
       \A r \in names \ {"own"} : r \in todo \/ (AsTarget(r) /\ IsDeployed(r))
Passed ==
  pc \in {"ready", "settle"} /\ (every \/ ~switched) =>
    /\ \A r \in Found(cur) : last[r].manifest = Render[cur][r] /\ AsTarget(r)
    /\ \A r \in Release \ Found(cur) : last[r].manifest = Nothing
Ended ==
  result = "deployed" /\ (every \/ ~switched) =>
    /\ \A r \in Found(want) : last[r].manifest = Render[want][r] /\ Live(want, r)
    /\ \A r \in Release \ Found(want) : last[r].manifest = Nothing

Pass == Planning /\ (~switched => LeftOut) /\ Upgrades /\ Passed /\ Ended
DeployInv == ZacInv /\ Cluster /\ Pass

LEMMA Constants ==
  ASSUME Charts, TypeOK
  PROVE  /\ cur \in Variant /\ want \in Variant /\ Without \in Variant /\ held \in BOOLEAN
         /\ cur \in {want, Without} /\ want \in Selection
         /\ Zac \in Object /\ Search \in Object /\ Policy \in Object /\ Zac \notin {Search, Policy} /\ Off # Absent
         /\ \A v \in Variant : {Zac, Search, Policy} \subseteq Objects(Render[v]["podiumd"])
         /\ \A v \in Variant : "own" \in Found(v) /\ "podiumd" \in Found(v)
         /\ \A v \in Variant : \A r \in Found(v) : Render[v][r] # Nothing
         /\ \A v \in Variant : \A r \in Release \ Found(v) : Render[v][r] = Nothing
         /\ Render[Without]["podiumd"][Policy] = Render[want]["podiumd"][Policy]
         /\ \A r \in Release \ {"podiumd"} : Render[cur][r] = Render[want][r]
BY HelmDeployAssumption DEF TypeOK, Charts, ZacIsPodiumds, Found, Without

\* An upgrade leaves the other releases' objects and revisions alone.
LEMMA UpElse ==
  ASSUME Charts, TypeOK, Homes, NEW r \in Release, Up(r), NEW q \in Release \ {r}, NEW v \in Variant,
         NEW o \in Objects(Render[v][q])
  PROVE  live'[o] = live[o] /\ o \in Object /\ helm'[q] = helm[q]
<1>1. o \in Object
  BY DEF Objects
<1>2. o \notin Objects(Render[cur][r])
  <2>1. Objects(Render[cur][r]) \cap Objects(Render[v][q]) = {}
    BY Typed DEF Charts
  <2>. QED BY <2>1
<1>3. o \notin Objects(Replaced(r))
  BY DEF Homes, Replaced
<1>. QED BY <1>1, <1>2, <1>3 DEF Up

LEMMA UpHomes ==
  ASSUME Charts, TypeOK, Homes, NEW r \in Release, Up(r)
  PROVE  Homes'
<1>1. Objects(Target(cur, held, r)) = Objects(Render[cur][r]) /\ cur \in Variant
  BY Typed, Targets
<1>2. ASSUME NEW p \in Release, NEW q \in Release, p # q, NEW v \in Variant
      PROVE  /\ Objects(helm'[p].deployed) \cap Objects(Render[v][q]) = {}
             /\ Objects(helm'[p].latest) \cap Objects(Render[v][q]) = {}
  <2>1. Objects(Render[cur][p]) \cap Objects(Render[v][q]) = {}
    <3>1. \A v1, w1 \in Variant : \A r1, q1 \in Release :
            r1 # q1 => Objects(Render[v1][r1]) \cap Objects(Render[w1][q1]) = {}
      BY DEF Charts
    <3>. QED BY <1>1, <1>2, <3>1
  <2>2. /\ Objects(helm[p].deployed) \cap Objects(Render[v][q]) = {}
        /\ Objects(helm[p].latest) \cap Objects(Render[v][q]) = {}
    BY <1>2 DEF Homes
  <2>3. CASE p = r
    <3>1. helm'[p].deployed = helm[p].deployed \/ helm'[p].deployed = Target(cur, held, r)
      BY <2>3 DEF Up
    <3>2. helm'[p].latest = helm[p].latest \/ helm'[p].latest = Target(cur, held, r)
      BY <2>3 DEF Up
    <3>. QED BY <1>1, <2>1, <2>2, <2>3, <3>1, <3>2
  <2>4. CASE p # r
    BY <2>2, <2>4 DEF Up
  <2>. QED BY <2>3, <2>4
<1>. QED BY <1>2 DEF Homes

LEMMA UpDeployed ==
  ASSUME Charts, TypeOK, NEW r \in Found(cur), Up(r), NEW q \in Release, IsDeployed(q)
  PROVE  IsDeployed(q)'
<1>1. r \in Release /\ Render[cur][r] # Nothing /\ Render[cur][r] \in Manifest
  BY Constants, Renders DEF Found
<1>2. Objects(Target(cur, held, r)) = Objects(Render[cur][r])
  BY <1>1, Typed, Targets
<1>3. Objects(Render[cur][r]) # {}
  BY <1>1 DEF Objects, Nothing, Manifest
<1>4. Target(cur, held, r) # Nothing
  BY <1>2, <1>3 DEF Objects, Nothing
<1>5. CASE q = r
  <2>1. helm'[q].deployed = helm[q].deployed \/ helm'[q].deployed = Target(cur, held, r)
    BY <1>5 DEF Up
  <2>. QED BY <1>4, <2>1 DEF IsDeployed
<1>6. CASE q # r
  BY <1>1, <1>6 DEF Up, IsDeployed
<1>. QED BY <1>5, <1>6

\* A release that is recorded as the selection has it keeps what is recorded, however far its
\* upgrade gets.
LEMMA UpLive ==
  ASSUME Charts, TypeOK, Homes, NEW r \in Found(cur), Up(r), RecordedIsLive, LeftOut, Planning,
         pc \in {"own", "pool"}, last' = last, want' = want
  PROVE  RecordedIsLive'
<1>0. r \in Release /\ Zac \in Object
  BY Constants DEF Found
<1>1. ASSUME NEW q \in Release, IsRecorded(q, want), NEW o \in Objects(Render[want][q])
      PROVE  /\ live'[o].by = q
             /\ live'[o].body = Render[want][q][o] \/ (o = Zac /\ last[q].held)
  <2>0. /\ live[o].by = q
        /\ live[o].body = Render[want][q][o] \/ (o = Zac /\ last[q].held)
        /\ o \in Object
    BY <1>1 DEF RecordedIsLive, LiveButZac, Objects
  <2>1. CASE q # r
    BY <1>0, <1>1, <2>0, <2>1, UpElse, Constants
  <2>2. CASE q = r
    <3>1. Render[cur][r] = Render[want][r]
      BY <1>0, <1>1, <2>2, Constants DEF IsRecorded, LeftOut, Planned, Upgrading
    <3>2. ~(held /\ r = "podiumd")
      BY <1>1, <2>2 DEF Planning, Planned, Upgrading, IsRecorded
    <3>3. Target(cur, held, r) = Render[want][r]
      BY <1>0, <3>1, <3>2, Targets, Constants
    <3>4. live'[o] = live[o] \/ live'[o] = Written(r, o)
      BY <1>1, <2>0, <2>2, <3>1 DEF Up
    <3>. QED BY <2>0, <2>2, <3>3, <3>4 DEF Written
  <2>. QED BY <2>1, <2>2
<1>. QED BY <1>1 DEF RecordedIsLive, LiveButZac, IsRecorded

LEMMA UpPolicy ==
  ASSUME Charts, TypeOK, Homes, NEW r \in Found(cur), Up(r), BlockedIsNew, last' = last, want' = want
  PROVE  BlockedIsNew'
<1>0. r \in Release /\ cur \in Variant
  BY Constants DEF Found
<1>1. CASE r # "podiumd"
  <2>1. live'[Policy] = live[Policy] /\ live'[Search] = live[Search]
    BY <1>0, <1>1, UpElse, Constants
  <2>. QED BY <2>1 DEF BlockedIsNew, Barred, Without
<1>2. CASE r = "podiumd"
  <2>1. live'[Policy] = live[Policy] \/ live'[Policy] = Written(r, Policy)
    BY <1>0, <1>2, Constants DEF Up
  <2>4. live'[Search] = live[Search] \/ live'[Search] # Gone
    BY <1>0, <1>2, Constants DEF Up, Written, Gone
  <2>2. Target(cur, held, r)[Policy] = Render[cur]["podiumd"][Policy]
    BY <1>0, <1>2, Targets, Constants
  <2>3. Render[cur]["podiumd"][Policy] = Render[want]["podiumd"][Policy]
    BY Constants
  <2>. QED BY <2>1, <2>2, <2>3, <2>4 DEF BlockedIsNew, Barred, Without, Written
<1>. QED BY <1>1, <1>2

LEMMA UpCluster ==
  ASSUME Charts, TypeOK, Cluster, ~switched => LeftOut, Planning, NEW r \in Found(cur), Up(r),
         pc \in {"own", "pool"}, last' = last, want' = want, switched' = switched
  PROVE  Cluster'
<1>1. r \in Release
  BY DEF Found
<1>2. Homes'
  BY <1>1, UpHomes DEF Cluster
<1>3. Recorded'
  BY UpDeployed DEF Cluster, Recorded
<1>4. ~switched => RecordedIsLive' /\ BlockedIsNew'
  BY UpLive, UpPolicy DEF Cluster
<1>. QED BY <1>2, <1>3, <1>4 DEF Cluster

\* A step that changes neither the cluster, nor the digests, nor the selection.
LEMMA SameCluster ==
  ASSUME Cluster, live' = live, helm' = helm, last' = last, want' = want, switched' = switched
  PROVE  Cluster'
BY DEF Cluster, Homes, Recorded, IsDeployed, RecordedIsLive, LiveButZac, IsRecorded, BlockedIsNew, Barred, Without

\* A deploy that fails or is killed leaves nothing planned.
LEMMA FailedPass == ASSUME End("failed") PROVE Pass'
BY DEF End, Pass, Planning, Planned, Upgrading, LeftOut, Upgrades, Passed, Ended

-----------------------------------------------------------------------------
LEMMA DeployInit == Init => DeployInv
<1> SUFFICES ASSUME Init PROVE DeployInv
  OBVIOUS
<1>1. Objects(Nothing) = {}
  BY DEF Objects, Nothing
<1>2. \A r \in Release : /\ helm[r].deployed = Nothing /\ helm[r].latest = Nothing
                         /\ last[r].manifest = Nothing
  BY DEF Init, NotRecorded
<1>3. Homes /\ Recorded
  BY <1>1, <1>2 DEF Homes, Recorded
<1>4. RecordedIsLive
  BY <1>2 DEF RecordedIsLive, IsRecorded
<1>5. BlockedIsNew
  <2>1. Without \in Variant
    BY HelmDeployAssumption DEF Init, Without
  <2>. QED BY <1>2, <2>1, HelmDeployAssumption DEF BlockedIsNew
<1>6. Pass
  BY <1>2 DEF Init, Pass, Planning, Planned, Upgrading, LeftOut, Upgrades, Passed, Ended
<1>. QED BY <1>3, <1>4, <1>5, <1>6, ZacInit DEF DeployInv, Cluster

LEMMA StartDeploys ==
  ASSUME Charts, TypeOK, DeployInv, NEW s \in Selection, NEW e \in BOOLEAN, Start(s, e)
  PROVE  Cluster' /\ Pass'
<1>1. /\ pc = "idle" /\ pc' = "render" /\ result' = "running" /\ want' = s /\ every' = e
      /\ live' = live /\ helm' = helm /\ last' = last
      /\ moved' = moved /\ todo' = todo
  BY DEF Start, cluster
<1>2. s \in Variant /\ WithoutWebsite[s] \in Variant
  BY HelmDeployAssumption
<1>3. ASSUME ~switched' PROVE RecordedIsLive' /\ BlockedIsNew'
  <2>1. CASE result = "none"
    <3>1. \A r \in Release : last[r].manifest = Nothing
      BY <2>1 DEF DeployInv, Pass, Planning
    <3>2. Render[WithoutWebsite[s]]["podiumd"] # Nothing
      BY <1>2, HelmDeployAssumption
    <3>. QED BY <1>1, <3>1, <3>2 DEF RecordedIsLive, IsRecorded, BlockedIsNew, Without
  <2>2. CASE result = "failed"
    <3>1. s = want /\ ~switched
      BY <1>3, <2>2 DEF Start
    <3>. QED BY <1>1, <3>1
         DEF DeployInv, Cluster, RecordedIsLive, LiveButZac, IsRecorded, BlockedIsNew, Barred, Without
  <2>3. CASE result = "deployed"
    <3>1. every \/ ~switched
      BY <1>3, <2>3 DEF Start
    <3>2. /\ \A r \in Found(want) : last[r].manifest = Render[want][r] /\ Live(want, r)
          /\ \A r \in Release \ Found(want) : last[r].manifest = Nothing
      BY <2>3, <3>1 DEF DeployInv, Pass, Ended
    <3>3. ASSUME NEW r \in Release, IsRecorded(r, s) PROVE LiveButZac(r, s)
      <4>1. Render[want][r] = Render[s][r] /\ Live(want, r)
        BY <3>2, <3>3 DEF IsRecorded
      <4>2. ASSUME NEW o \in Objects(Render[s][r])
            PROVE  live[o].by = r /\ live[o].body = Render[s][r][o]
        <5>1. live[o] = [by |-> r, body |-> Render[s][r][o]]
          BY <4>1 DEF Live
        <5>. QED BY <5>1
      <4>. QED BY <4>2 DEF LiveButZac
    <3>4. live[Policy].body = Render[want]["podiumd"][Policy]
      <4>1. live[Policy] = [by |-> "podiumd", body |-> Render[want]["podiumd"][Policy]]
        BY <3>2, Constants DEF Live
      <4>. QED BY <4>1
    <3>7. live[Search] # Gone
      <4>1. live[Search] = [by |-> "podiumd", body |-> Render[want]["podiumd"][Search]]
        BY <3>2, Constants DEF Live
      <4>. QED BY <4>1 DEF Gone
    <3>5. Render[WithoutWebsite[s]]["podiumd"][Policy] = Render[s]["podiumd"][Policy]
      BY HelmDeployAssumption
    <3>6. last["podiumd"].manifest = Render[want]["podiumd"]
      BY <3>2, Constants
    <3>. QED BY <1>1, <3>3, <3>4, <3>5, <3>6, <3>7
         DEF RecordedIsLive, LiveButZac, IsRecorded, BlockedIsNew, Barred, Without
  <2>. QED BY <1>1, <2>1, <2>2, <2>3 DEF TypeOK, DeployInv, Pass, Planning
<1>4. Cluster'
  BY <1>1, <1>3 DEF DeployInv, Cluster, Homes, Recorded, IsDeployed
<1>5. Pass'
  BY <1>1 DEF DeployInv, Pass, Planning, Planned, Upgrading, LeftOut, Upgrades, Passed, Ended
<1>. QED BY <1>4, <1>5

LEMMA ChooseDeploys == Charts /\ TypeOK /\ DeployInv /\ Choose => Cluster' /\ Pass'
<1> SUFFICES ASSUME Charts, TypeOK, DeployInv, Choose PROVE Cluster' /\ Pass'
  OBVIOUS
<1>1. /\ pc = "render" /\ pc' = "plan" /\ live' = live /\ helm' = helm /\ last' = last
      /\ want' = want /\ switched' = switched /\ result' = result /\ moved' = moved /\ todo' = todo
      /\ every' = every
  BY DEF Choose, cluster
<1>2. Cluster'
  BY <1>1, SameCluster DEF DeployInv
<1>3. ASSUME ~switched, cur' # want
      PROVE  last["podiumd"].manifest \notin {Render[want]["podiumd"], Render[Without]["podiumd"]}
  <2>1. Barred(want)
    BY <1>3 DEF Choose, Blocked
  <2>2. last["podiumd"].manifest # Render[Without]["podiumd"]
    BY <1>3, <2>1 DEF DeployInv, Cluster, BlockedIsNew
  <2>3. ASSUME last["podiumd"].manifest = Render[want]["podiumd"] PROVE FALSE
    <3>1. LiveButZac("podiumd", want)
      BY <1>3, <2>3, Constants DEF DeployInv, Cluster, RecordedIsLive, IsRecorded
    <3>. QED BY <2>1, <3>1, Constants DEF LiveButZac, Barred, Gone
  <2>. QED BY <2>2, <2>3
<1>4. ~switched' => LeftOut'
  BY <1>1, <1>3 DEF LeftOut, Without
<1>5. Pass'
  BY <1>1, <1>4 DEF DeployInv, Pass, Planning, Planned, Upgrading, Upgrades, Passed, Ended
<1>. QED BY <1>2, <1>5

LEMMA PlanDeploys == Charts /\ TypeOK /\ DeployInv /\ Plan => Cluster' /\ Pass'
<1> SUFFICES ASSUME Charts, TypeOK, DeployInv, Plan PROVE Cluster' /\ Pass'
  OBVIOUS
<1>1. /\ pc = "plan" /\ pc' = "prepare" /\ live' = live /\ helm' = helm /\ last' = last
      /\ want' = want /\ switched' = switched /\ result' = result /\ todo' = todo
      /\ every' = every /\ cur' = cur
  BY DEF Plan, cluster
<1>2. Cluster'
  BY <1>1, SameCluster DEF DeployInv
<1>3. moved' = {}
  <2>1. Objects(Nothing) = {}
    BY DEF Objects, Nothing
  <2>2. Objects(Installed("podiumd")) \cap Objects(Render[cur]["own"]) = {}
    BY <2>1, Constants DEF DeployInv, Cluster, Homes, Installed
  <2>. QED BY <2>2 DEF Plan, TakenOver
<1>4. names' = Changed(cur, held') /\ held' = HoldZac(cur)
  BY DEF Plan
<1>5. held' => ~IsDeployed("podiumd")
  BY <1>4 DEF HoldZac, DeployInv, ZacInv, ZacsPlan
<1>6. held' => last["podiumd"].manifest = Nothing /\ "podiumd" \in names'
  BY <1>4, <1>5, Constants DEF DeployInv, Cluster, Recorded, Changed
<1>7. Planning'
  <2>1. \A r \in Found(cur) \ names' : ~every /\ last[r] = Digest(cur, held', r) /\ IsDeployed(r)
    BY <1>4 DEF Changed
  <2>2. names' \subseteq Found(cur)
    BY <1>4 DEF Changed
  <2>3. todo' = {}
    BY <1>1 DEF DeployInv, Pass, Planning
  <2>. QED BY <1>1, <1>3, <1>6, <2>1, <2>2, <2>3
       DEF DeployInv, Pass, Planning, Planned, Upgrading, IsDeployed
<1>8. ~switched' => LeftOut'
  BY <1>1 DEF DeployInv, Pass, LeftOut, Without, Planned, Upgrading
<1>. QED BY <1>1, <1>2, <1>7, <1>8 DEF DeployInv, Pass, Planning, Upgrades, Passed, Ended

LEMMA PrepareDeploys == Charts /\ TypeOK /\ DeployInv /\ Prepare => Cluster' /\ Pass'
<1> SUFFICES ASSUME Charts, TypeOK, DeployInv, Prepare PROVE Cluster' /\ Pass'
  OBVIOUS
<1>1. /\ pc = "prepare" /\ helm' = helm /\ last' = last /\ broken' = broken
      /\ want' = want /\ switched' = switched /\ result' = result /\ names' = names /\ moved' = moved
      /\ every' = every /\ cur' = cur /\ held' = held /\ todo' = names \ {"own"}
      /\ pc' = IF "own" \in names THEN "own" ELSE "pool"
  BY DEF Prepare, plan
<1>2. live' = live
  BY DEF Prepare, DeployInv, Pass, Planning, TypeOK
<1>3. Cluster'
  BY <1>1, <1>2, SameCluster DEF DeployInv
<1>4. Planning'
  BY <1>1 DEF DeployInv, Pass, Planning, Planned, Upgrading, IsDeployed
<1>5. Upgrades'
  BY <1>1 DEF Upgrades
<1>6. ~switched' => LeftOut'
  BY <1>1 DEF DeployInv, Pass, LeftOut, Without, Planned, Upgrading
<1>7. Passed' /\ Ended'
  BY <1>1 DEF DeployInv, Pass, Planning, Passed, Ended
<1>. QED BY <1>3, <1>4, <1>5, <1>6, <1>7 DEF Pass

LEMMA OwnDeploys == Charts /\ TypeOK /\ DeployInv /\ UpgradeOwn => Cluster' /\ Pass'
<1> SUFFICES ASSUME Charts, TypeOK, DeployInv, UpgradeOwn PROVE Cluster' /\ Pass'
  OBVIOUS
<1>1. pc = "own" /\ Up("own") /\ "own" \in Found(cur) /\ last' = last /\ want' = want /\ switched' = switched
  BY DoneUp, FailsUp, Constants DEF UpgradeOwn, End, plan
<1>2. Cluster'
  BY <1>1, UpCluster DEF DeployInv, Pass
<1>3. CASE End("failed")
  BY <1>2, <1>3, FailedPass
<1>4. CASE HelmDone("own") /\ Goto("storage") /\ UNCHANGED <<todo, broken, result, switched>> /\ UNCHANGED plan
  <2>1. /\ pc' = "storage" /\ todo' = todo /\ broken' = broken /\ result' = result
        /\ every' = every /\ cur' = cur /\ held' = held /\ names' = names /\ moved' = moved
    BY <1>4 DEF plan
  <2>2. Full("own") /\ IsDeployed("own")'
    <3>1. Full("own") /\ helm'["own"].deployed = Target(cur, held, "own")
      BY <1>4, DoneUp
    <3>2. Target(cur, held, "own") = Render[cur]["own"]
      BY Targets, Constants
    <3>. QED BY <3>1, <3>2, Constants DEF IsDeployed
  <2>3. Upgrades'
    BY <2>1, <2>2 DEF Upgrades, AsTarget, Full, Written
  <2>4. Planning'
    BY <1>1, <2>1, UpDeployed DEF DeployInv, Pass, Planning, Planned, Upgrading, Found
  <2>5. ~switched' => LeftOut'
    BY <1>1, <2>1 DEF DeployInv, Pass, LeftOut, Without, Planned, Upgrading
  <2>6. Passed' /\ Ended'
    BY <1>1, <2>1 DEF DeployInv, Pass, Planning, Passed, Ended
  <2>. QED BY <1>2, <2>3, <2>4, <2>5, <2>6 DEF Pass
<1>. QED BY <1>3, <1>4 DEF UpgradeOwn

LEMMA OtherDeploys ==
  ASSUME Charts, TypeOK, DeployInv, NEW r \in Release, UpgradeOther(r)
  PROVE  Cluster' /\ Pass'
<1>1. /\ pc = "pool" /\ pc' = "pool" /\ r \in todo /\ todo' = todo \ {r} /\ last' = last /\ want' = want
      /\ every' = every /\ cur' = cur /\ held' = held /\ names' = names /\ moved' = moved
      /\ switched' = switched /\ result' = result /\ Up(r)
  BY DoneUp, FailsUp DEF UpgradeOther, plan
<1>2. r \in names \ {"own"} /\ r \in Found(cur)
  BY <1>1 DEF DeployInv, Pass, Planning, Planned, Upgrading
<1>3. Cluster'
  BY <1>1, <1>2, UpCluster DEF DeployInv, Pass
<1>4. \A q \in Release : IsDeployed(q) => IsDeployed(q)'
  BY <1>1, <1>2, UpDeployed
<1>5. ASSUME NEW q \in Release \ {r}, AsTarget(q) PROVE AsTarget(q)'
  <2>1. ASSUME NEW o \in Objects(Render[cur][q]) PROVE live'[o] = live[o]
    BY <1>1, UpElse, Typed DEF DeployInv, Cluster
  <2>. QED BY <1>1, <1>5, <2>1 DEF AsTarget, Written
<1>6. ~broken' => ~broken /\ AsTarget(r)' /\ IsDeployed(r)'
  <2> SUFFICES ASSUME ~broken' PROVE ~broken /\ AsTarget(r)' /\ IsDeployed(r)'
    OBVIOUS
  <2>1. HelmDone(r) /\ ~broken
    BY DEF UpgradeOther
  <2>2. Full(r) /\ helm'[r].deployed = Target(cur, held, r)
    BY <2>1, DoneUp
  <2>3. Target(cur, held, r) # Nothing
    <3>1. Objects(Target(cur, held, r)) = Objects(Render[cur][r]) /\ Render[cur][r] \in Manifest
      BY Typed, Targets, Renders
    <3>2. Objects(Render[cur][r]) # {}
      BY <1>2, <3>1, Constants DEF Objects, Nothing, Manifest
    <3>. QED BY <3>1, <3>2 DEF Objects, Nothing
  <2>. QED BY <1>1, <2>1, <2>2, <2>3 DEF AsTarget, Full, Written, IsDeployed
<1>7. Upgrades'
  <2>1. "own" \in names' => AsTarget("own")' /\ IsDeployed("own")'
    BY <1>1, <1>2, <1>4, <1>5 DEF DeployInv, Pass, Upgrades
  <2>2. ASSUME ~broken', NEW q \in names' \ {"own"}, q \notin todo'
        PROVE  AsTarget(q)' /\ IsDeployed(q)'
    BY <1>1, <1>4, <1>5, <1>6, <2>2 DEF DeployInv, Pass, Upgrades, TypeOK
  <2>. QED BY <1>1, <2>1, <2>2 DEF Upgrades
<1>8. Planning'
  BY <1>1, <1>4 DEF DeployInv, Pass, Planning, Planned, Upgrading, Found
<1>9. ~switched' => LeftOut'
  BY <1>1 DEF DeployInv, Pass, LeftOut, Without, Planned, Upgrading
<1>10. Passed' /\ Ended'
  BY <1>1 DEF DeployInv, Pass, Planning, Passed, Ended
<1>. QED BY <1>3, <1>7, <1>8, <1>9, <1>10 DEF Pass

LEMMA StorageDeploys == Charts /\ TypeOK /\ DeployInv /\ Storage => Cluster' /\ Pass'
<1> SUFFICES ASSUME Charts, TypeOK, DeployInv, Storage PROVE Cluster' /\ Pass'
  OBVIOUS
<1>1. /\ pc = "storage" /\ pc' = "pool" /\ live' = live /\ helm' = helm /\ last' = last
      /\ todo' = todo /\ broken' = broken /\ want' = want /\ every' = every /\ cur' = cur
      /\ held' = held /\ names' = names /\ moved' = moved /\ switched' = switched /\ result' = result
  BY DEF Storage, cluster, plan
<1>2. Cluster'
  BY <1>1, SameCluster DEF DeployInv
<1>3. todo = names \ {"own"}
  BY <1>1 DEF DeployInv, ZacInv, PodiumdsPlan
<1>4. Upgrades'
  BY <1>1, <1>3 DEF DeployInv, Pass, Upgrades, AsTarget, Written, IsDeployed
<1>5. Planning'
  BY <1>1 DEF DeployInv, Pass, Planning, Planned, Upgrading, IsDeployed
<1>6. ~switched' => LeftOut'
  BY <1>1 DEF DeployInv, Pass, LeftOut, Without, Planned, Upgrading
<1>7. Passed' /\ Ended'
  BY <1>1 DEF DeployInv, Pass, Planning, Passed, Ended
<1>. QED BY <1>2, <1>4, <1>5, <1>6, <1>7 DEF Pass

LEMMA PoolDeploys == Charts /\ TypeOK /\ DeployInv /\ PoolDone => Cluster' /\ Pass'
<1> SUFFICES ASSUME Charts, TypeOK, DeployInv, PoolDone PROVE Cluster' /\ Pass'
  OBVIOUS
<1>0. moved = {}
  BY DEF DeployInv, Pass, Planning
<1>1. /\ pc = "pool" /\ todo = {} /\ live' = live /\ helm' = helm /\ last' = last /\ want' = want
      /\ switched' = switched
  BY DEF PoolDone, cluster, plan, End
<1>2. Cluster'
  BY <1>1, SameCluster DEF DeployInv
<1>3. CASE broken
  BY <1>0, <1>2, <1>3, FailedPass DEF PoolDone
<1>4. CASE ~broken
  <2>1. /\ pc' = "record" /\ todo' = todo /\ broken' = broken /\ result' = result
        /\ every' = every /\ cur' = cur /\ held' = held /\ names' = names /\ moved' = moved
    BY <1>0, <1>4 DEF PoolDone, plan
  <2>2. Upgrades'
    BY <1>1, <2>1 DEF DeployInv, Pass, Upgrades, AsTarget, Written, IsDeployed
  <2>3. Planning'
    BY <1>1, <2>1 DEF DeployInv, Pass, Planning, Planned, Upgrading, IsDeployed
  <2>4. ~switched' => LeftOut'
    BY <1>1, <2>1 DEF DeployInv, Pass, LeftOut, Without, Planned, Upgrading
  <2>5. Passed' /\ Ended'
    BY <1>1, <2>1 DEF DeployInv, Pass, Planning, Passed, Ended
  <2>. QED BY <1>2, <2>2, <2>3, <2>4, <2>5 DEF Pass
<1>. QED BY <1>3, <1>4

LEMMA RecordDeploys == Charts /\ TypeOK /\ DeployInv /\ Record => Cluster' /\ Pass'
<1> SUFFICES ASSUME Charts, TypeOK, DeployInv, Record PROVE Cluster' /\ Pass'
  OBVIOUS
<1>1. /\ pc = "record" /\ pc' = "ready" /\ live' = live /\ helm' = helm
      /\ todo' = todo /\ broken' = broken /\ want' = want /\ every' = every /\ cur' = cur
      /\ held' = held /\ names' = names /\ moved' = moved /\ switched' = switched /\ result' = result
      /\ last' = [q \in Release |-> IF q \in Found(cur) THEN Digest(cur, held, q) ELSE NotRecorded]
  BY DEF Record, plan
<1>2. todo = {} /\ ~broken
  BY <1>1 DEF DeployInv, ZacInv, PodiumdsPlan
<1>3. \A q \in Found(cur) : last'[q] = Digest(cur, held, q) /\ last'[q].manifest = Render[cur][q]
                            /\ (last'[q].held <=> held /\ q = "podiumd")
  BY <1>1, DigestFields, Typed DEF Found
<1>4. \A q \in Release \ Found(cur) : last'[q].manifest = Nothing
  BY <1>1 DEF NotRecorded
<1>5. ASSUME NEW q \in names PROVE AsTarget(q) /\ IsDeployed(q)
  BY <1>1, <1>2 DEF DeployInv, Pass, Upgrades
<1>6. \A q \in Found(cur) \ names : ~every /\ last[q] = Digest(cur, held, q) /\ IsDeployed(q)
  BY <1>1 DEF DeployInv, Pass, Planning, Planned, Upgrading
<1>7. held => "podiumd" \in names
  BY <1>1 DEF DeployInv, Pass, Planning, Planned, Upgrading
<1>8. Recorded'
  BY <1>1, <1>4, <1>5, <1>6 DEF Recorded, IsDeployed
<1>9. ASSUME every \/ ~switched, NEW q \in Found(cur) PROVE AsTarget(q)
  <2>1. CASE q \in names
    BY <1>5, <2>1
  <2>2. CASE q \notin names
    <3>1. q \in Release /\ ~switched /\ last[q].manifest = Render[cur][q] /\ ~last[q].held
      BY <1>6, <1>7, <1>9, <2>2, DigestFields, Typed DEF Found
    <3>2. Render[cur][q] = Render[want][q]
      BY <1>1, <3>1, Constants DEF DeployInv, Pass, LeftOut, Planned, Upgrading
    <3>3. LiveButZac(q, want)
      BY <1>9, <3>1, <3>2, Constants DEF DeployInv, Cluster, RecordedIsLive, IsRecorded
    <3>4. Target(cur, held, q) = Render[cur][q]
      BY <1>7, <2>2, <3>1, Targets, Typed
    <3>5. ASSUME NEW o \in Objects(Render[cur][q]) PROVE live[o] = Written(q, o)
      <4>1. live[o].by = q /\ live[o].body = Render[cur][q][o]
        BY <3>1, <3>2, <3>3 DEF LiveButZac
      <4>2. live[o] \in [by : Release \cup {"nobody"}, body : Content]
        BY Typed DEF Objects
      <4>. QED BY <3>4, <4>1, <4>2 DEF Written
    <3>. QED BY <3>5 DEF AsTarget
  <2>. QED BY <2>1, <2>2
<1>10. ASSUME ~switched PROVE RecordedIsLive'
  <2> SUFFICES ASSUME NEW q \in Release, Render[want][q] # Nothing, last'[q].manifest = Render[want][q],
                      NEW o \in Objects(Render[want][q])
               PROVE  /\ live[o].by = q
                      /\ live[o].body = Render[want][q][o] \/ (o = Zac /\ last'[q].held)
    BY <1>1 DEF RecordedIsLive, LiveButZac, IsRecorded
  <2>1. q \in Found(cur) /\ Render[cur][q] = Render[want][q] /\ o \in Object
    BY <1>3, <1>4 DEF Objects
  <2>2. live[o] = Written(q, o)
    BY <1>9, <1>10, <2>1 DEF AsTarget
  <2>3. Target(cur, held, q)[o] = Render[want][q][o] \/ (o = Zac /\ held /\ q = "podiumd")
    BY <2>1, Targets, Typed
  <2>. QED BY <1>3, <2>1, <2>2, <2>3 DEF Written
<1>11. BlockedIsNew' \/ switched
  <2> SUFFICES ASSUME ~switched
               PROVE  live[Policy].body = Render[want]["podiumd"][Policy] /\ live[Search] # Gone
    BY <1>1 DEF BlockedIsNew, Barred, Without
  <2>1. live[Policy] = Written("podiumd", Policy)
    BY <1>9, Constants DEF AsTarget
  <2>2. Target(cur, held, "podiumd")[Policy] = Render[cur]["podiumd"][Policy]
    BY Targets, Constants
  <2>3. live[Search] # Gone
    <3>1. live[Search] = Written("podiumd", Search)
      BY <1>9, Constants DEF AsTarget
    <3>. QED BY <3>1 DEF Written, Gone
  <2>. QED BY <2>1, <2>2, <2>3, Constants DEF Written
<1>12. Cluster'
  BY <1>1, <1>8, <1>10, <1>11 DEF DeployInv, Cluster, Homes
<1>13. Passed'
  BY <1>1, <1>3, <1>4, <1>9 DEF Passed, AsTarget, Written
<1>14. Planning'
  BY <1>1, <1>2, <1>7 DEF DeployInv, Pass, Planning, Planned, Upgrading
<1>. QED BY <1>1, <1>12, <1>13, <1>14 DEF DeployInv, Pass, Planning, LeftOut, Upgrades, Ended, Planned, Upgrading

LEMMA ZacDeploys == Charts /\ TypeOK /\ DeployInv /\ StartZac => Cluster' /\ Pass'
<1> SUFFICES ASSUME Charts, TypeOK, DeployInv, StartZac PROVE Cluster' /\ Pass'
  OBVIOUS
<1>1. /\ pc = "ready" /\ pc' = "settle" /\ helm' = helm /\ last' = last /\ held' = FALSE
      /\ todo' = todo /\ broken' = broken /\ want' = want /\ every' = every /\ cur' = cur
      /\ names' = names /\ moved' = moved /\ switched' = switched /\ result' = result
  BY DEF StartZac
<1>2. /\ \A o \in Object : o # Zac => live'[o] = live[o]
      /\ live'[Zac].by = live[Zac].by
      /\ live'[Zac].body = IF held THEN Render[cur]["podiumd"][Zac] ELSE live[Zac].body
      /\ ~held => live' = live
  BY Constants DEF StartZac, TypeOK
<1>3. live[Zac].by = "podiumd"
  BY <1>1 DEF DeployInv, ZacInv, ZacsRelease, ZacsPlan, PodiumdsPlan
<1>4. ASSUME every \/ ~switched
      PROVE  \A q \in Found(cur) : last[q].manifest = Render[cur][q] /\ AsTarget(q)
  BY <1>1, <1>4 DEF DeployInv, Pass, Passed
<1>5. ASSUME NEW v \in Variant, NEW q \in Release, Zac \in Objects(Render[v][q]) PROVE q = "podiumd"
  BY <1>5, NotTheirs DEF Charts
<1>6. ASSUME ~switched PROVE RecordedIsLive'
  <2> SUFFICES ASSUME NEW q \in Release, IsRecorded(q, want), NEW o \in Objects(Render[want][q])
               PROVE  /\ live'[o].by = q
                      /\ live'[o].body = Render[want][q][o] \/ (o = Zac /\ last[q].held)
    BY <1>1 DEF RecordedIsLive, LiveButZac, IsRecorded
  <2>1. /\ live[o].by = q /\ o \in Object
        /\ live[o].body = Render[want][q][o] \/ (o = Zac /\ last[q].held)
    BY <1>6 DEF DeployInv, Cluster, RecordedIsLive, LiveButZac, Objects
  <2>2. CASE o # Zac \/ ~held
    BY <1>2, <2>1, <2>2
  <2>3. CASE o = Zac /\ held
    <3>1. q = "podiumd"
      BY <1>5, <2>3, Constants
    <3>2. Render[want][q] = Render[cur][q]
      BY <1>4, <1>6, <3>1, Constants DEF IsRecorded
    <3>. QED BY <1>2, <1>3, <2>3, <3>1, <3>2
  <2>. QED BY <2>2, <2>3
<1>7. ~switched => BlockedIsNew'
  BY <1>1, <1>2, Constants DEF DeployInv, Cluster, BlockedIsNew, Barred, Without
<1>8. Cluster'
  BY <1>1, <1>6, <1>7 DEF DeployInv, Cluster, Homes, Recorded, IsDeployed
<1>9. ASSUME every \/ ~switched, NEW q \in Found(cur) PROVE AsTarget(q)'
  <2> SUFFICES ASSUME NEW o \in Objects(Render[cur][q])
               PROVE  live'[o] = [by |-> q, body |-> Render[cur][q][o]]
    <3>1. Target(cur, FALSE, q) = Render[cur][q]
      BY Targets, Typed DEF Found
    <3>. QED BY <1>1, <3>1 DEF AsTarget, Written
  <2>1. live[o] = Written(q, o) /\ o \in Object /\ q \in Release
    BY <1>4, <1>9 DEF AsTarget, Objects, Found
  <2>2. CASE o # Zac
    <3>1. Target(cur, held, q)[o] = Render[cur][q][o]
      BY <2>1, <2>2, Targets, Typed
    <3>. QED BY <1>2, <2>1, <2>2, <3>1 DEF Written
  <2>3. CASE ~held
    <3>1. Target(cur, held, q) = Render[cur][q]
      BY <2>1, <2>3, Targets, Typed
    <3>. QED BY <1>2, <2>1, <2>3, <3>1 DEF Written
  <2>4. CASE o = Zac /\ held
    <3>1. q = "podiumd"
      BY <1>5, <2>1, <2>4, Typed
    <3>2. live' = [live EXCEPT ![Zac].body = Render[cur]["podiumd"][Zac]]
      BY <2>4 DEF StartZac
    <3>3. live \in [Object -> [by : Release \cup {"nobody"}, body : Content]]
      BY DEF TypeOK
    <3>4. live[Zac] = [by |-> "podiumd", body |-> live[Zac].body]
      BY <1>3, <2>1, <2>4, <3>3
    <3>. QED BY <2>1, <2>4, <3>1, <3>2, <3>3, <3>4
  <2>. QED BY <2>2, <2>3, <2>4
<1>10. Passed'
  <2>1. every \/ ~switched => \A q \in Release \ Found(cur) : last[q].manifest = Nothing
    BY <1>1 DEF DeployInv, Pass, Passed
  <2>. QED BY <1>1, <1>4, <1>9, <2>1 DEF Passed
<1>11. Planning'
  BY <1>1 DEF DeployInv, Pass, Planning, Planned, Upgrading
<1>. QED BY <1>1, <1>8, <1>10, <1>11 DEF DeployInv, Pass, Planning, LeftOut, Upgrades, Ended, Planned, Upgrading

LEMMA SettleDeploys == Charts /\ TypeOK /\ DeployInv /\ Settle => Cluster' /\ Pass'
<1> SUFFICES ASSUME Charts, TypeOK, DeployInv, Settle PROVE Cluster' /\ Pass'
  OBVIOUS
<1>1. /\ pc = "settle" /\ ~held /\ live' = live /\ helm' = helm /\ last' = last
      /\ want' = want /\ every' = every /\ switched' = switched
  BY DEF Settle, End, cluster, DeployInv, ZacInv, ZacsPlan
<1>2. Cluster'
  BY <1>1, SameCluster DEF DeployInv
<1>3. CASE cur = want
  <2>1. /\ End("deployed")
    BY <1>3 DEF Settle
  <2>2. ASSUME every \/ ~switched, NEW q \in Found(want) PROVE Live(want, q)
    <3>1. AsTarget(q) /\ q \in Release
      BY <1>1, <1>3, <2>2 DEF DeployInv, Pass, Passed, Found
    <3>2. Target(cur, held, q) = Render[cur][q]
      BY <1>1, <3>1, Targets, Typed
    <3>. QED BY <1>3, <3>1, <3>2 DEF AsTarget, Written, Live
  <2>3. Ended'
    BY <1>1, <1>3, <2>2 DEF DeployInv, Pass, Passed, Ended, Live
  <2>. QED BY <1>2, <2>1, <2>3 DEF End, Pass, Planning, Planned, Upgrading, LeftOut, Upgrades, Passed
<1>4. CASE cur # want
  <2>1. /\ pc' = "render" /\ result' = result /\ todo' = todo /\ moved' = moved
    BY <1>4 DEF Settle
  <2>. QED BY <1>1, <1>2, <2>1
       DEF DeployInv, Pass, Planning, Planned, Upgrading, LeftOut, Upgrades, Passed, Ended
<1>. QED BY <1>3, <1>4

LEMMA FailDeploys == Charts /\ TypeOK /\ DeployInv /\ (Fail \/ Kill) => Cluster' /\ Pass'
<1> SUFFICES ASSUME Charts, TypeOK, DeployInv, Fail \/ Kill PROVE Cluster' /\ Pass'
  OBVIOUS
<1>1. End("failed") /\ last' = last /\ want' = want /\ switched' = switched
  BY DEF Fail, Kill, cluster, End
<1>2. CASE UNCHANGED <<live, helm>>
  BY <1>1, <1>2, SameCluster, FailedPass DEF DeployInv
<1>3. ASSUME NEW r \in Release, Running(r), Up(r) PROVE Cluster'
  <2>1. pc \in {"own", "pool"} /\ r \in Found(cur)
    BY <1>3, Constants DEF Running, DeployInv, Pass, Planning, Planned, Upgrading
  <2>. QED BY <1>1, <1>3, <2>1, UpCluster DEF DeployInv, Pass
<1>. QED BY <1>1, <1>2, <1>3, KillUp, FailedPass DEF Fail, cluster

LEMMA DeployStep == Charts /\ TypeOK /\ DeployInv /\ [Next]_vars => DeployInv'
<1> SUFFICES ASSUME Charts, TypeOK, DeployInv, [Next]_vars PROVE DeployInv'
  OBVIOUS
<1>1. ZacInv'
  BY ZacStep DEF Charts, DeployInv
<1>2. CASE UNCHANGED vars
  <2>1. Cluster'
    BY <1>2, SameCluster DEF vars, DeployInv
  <2>2. Planning' /\ LeftOut' = LeftOut /\ switched' = switched
    BY <1>2 DEF vars, DeployInv, Pass, Planning, LeftOut, Without, IsDeployed
  <2>3. Upgrades' /\ Passed' /\ Ended'
    BY <1>2 DEF vars, DeployInv, Pass, Upgrades, Passed, Ended, AsTarget, Written, Live, IsDeployed
  <2>. QED BY <1>1, <2>1, <2>2, <2>3 DEF DeployInv, Pass
<1>3. ~UpgradeAgain
  BY DEF UpgradeAgain, DeployInv, Pass, Planning
<1>4. CASE Next
  BY <1>1, <1>3, <1>4, StartDeploys, ChooseDeploys, PlanDeploys, PrepareDeploys, OwnDeploys, StorageDeploys,
     OtherDeploys, PoolDeploys, RecordDeploys, ZacDeploys, SettleDeploys, FailDeploys DEF Next, Step, DeployInv
<1>. QED BY <1>2, <1>4

LEMMA SkippedAreLive == Charts /\ TypeOK /\ DeployInv => SkippedIsLive
<1> SUFFICES ASSUME Charts, TypeOK, DeployInv, ~switched, pc \in Labels \ {"idle", "render", "plan"},
                    NEW q \in Found(cur) \ names
             PROVE  Live(cur, q)
  BY DEF SkippedIsLive, SkippedLive
<1>0. q \in Release
  BY DEF Found
<1>1. ~(held /\ q = "podiumd")
  BY DEF Labels, DeployInv, ZacInv, ZacsPlan, Pass, Planning, Planned, Upgrading
<1>2. CASE pc \in {"ready", "settle"}
  <2>1. AsTarget(q)
    BY <1>2 DEF DeployInv, Pass, Passed
  <2>2. Target(cur, held, q) = Render[cur][q]
    BY <1>0, <1>1, Targets, Typed
  <2>. QED BY <2>1, <2>2 DEF AsTarget, Written, Live
<1>3. CASE pc \in Planned
  <2>1. last[q].manifest = Render[cur][q] /\ ~last[q].held
    BY <1>1, <1>3, DigestFields, Typed DEF DeployInv, Pass, Planning
  <2>2. Render[cur][q] = Render[want][q]
    BY <1>0, <1>3, <2>1, Constants DEF DeployInv, Pass, LeftOut
  <2>3. LiveButZac(q, want)
    BY <1>0, <2>1, <2>2, Constants DEF DeployInv, Cluster, RecordedIsLive, IsRecorded
  <2>4. ASSUME NEW o \in Objects(Render[cur][q]) PROVE live[o] = [by |-> q, body |-> Render[cur][q][o]]
    <3>1. live[o].by = q /\ live[o].body = Render[cur][q][o]
      BY <2>1, <2>2, <2>3 DEF LiveButZac
    <3>2. live[o] \in [by : Release \cup {"nobody"}, body : Content]
      BY Typed DEF Objects
    <3>. QED BY <3>1, <3>2
  <2>. QED BY <2>4 DEF Live
<1>. QED BY <1>2, <1>3 DEF Labels, DeployInv, Pass, Planning, Planned, Upgrading

LEMMA DeployAlways == Charts => (Spec => [](TypeOK /\ DeployInv))
<1> SUFFICES ASSUME Charts PROVE Spec => [](TypeOK /\ DeployInv)
  OBVIOUS
<1>1. TypeOK /\ DeployInv /\ [Next]_vars => DeployInv'
  BY DeployStep
<1>. QED BY <1>1, DeployInit, TypeInit, TypeStep, PTL DEF Spec

\* "Deployed.": when no object moves between the releases, a deploy that says so has left what was
\* selected in the cluster, after any failures and kills; after a switch from a failed deploy to
\* another selection only if it was run with --every-release, or one that was has succeeded since.
THEOREM DeployedAsSelected ==
  ASSUME Charts
  PROVE  Spec => []DeployedIsLive
<1>1. DeployInv => DeployedIsLive
  BY DEF DeployInv, Pass, Ended, DeployedIsLive
<1>. QED BY <1>1, DeployAlways, PTL

\* A release that a deploy leaves alone is in the cluster as rendered, however far the failed deploys
\* of its selection since the recorded one got; a switch from a failed deploy is exempt until a
\* deploy with --every-release has succeeded.
THEOREM SkippedAsRendered ==
  ASSUME Charts
  PROVE  Spec => []SkippedIsLive
BY SkippedAreLive, DeployAlways, PTL

-----------------------------------------------------------------------------
(* No upgrade is refused, when objects do move between podiumd's release   *)
(* and this chart's.                                                       *)

\* What this chart's release has in some variant, and podiumd's in some: only these objects move.
Movable ==
  {o \in Object : \A r \in {"own", "podiumd"} : \E v \in Variant : o \in Objects(Render[v][r])}

\* Those of them that a release owns in the cluster, in its revisions, and in its last recorded render.
Owned == [r \in Release |-> {o \in Movable : live[o].by = r}]
DeployedOf == [r \in Release |-> Objects(helm[r].deployed) \cap Movable]
LatestOf == [r \in Release |-> Objects(helm[r].latest) \cap Movable]
LastOf == [r \in Release |-> Objects(last[r].manifest) \cap Movable]

\* ... and those the selection has in the two releases.
MovableOf(v, r) == Objects(Render[v][r]) \cap Movable
Own == MovableOf(want, "own")
Pod == MovableOf(want, "podiumd")

\* Objects move between this chart's release and podiumd's only, every selection has those that do,
\* and the website is none of them.
MovingCharts ==
  /\ \A v, w \in Variant : \A r \in {"own", "podiumd"} :
       Objects(Render[v]["monitoring"]) \cap Objects(Render[w][r]) = {}
  /\ \A s \in Selection :
       /\ MovableOf(s, "own") \cup MovableOf(s, "podiumd") = Movable
       /\ \A r \in {"own", "podiumd"} : MovableOf(WithoutWebsite[s], r) = MovableOf(s, r)

OwnersHome ==
  \A o \in Object : \A r \in Release : live[o].by = r => \E v \in Variant : o \in Objects(Render[v][r])

Idling ==
  /\ pc = "idle" <=> result # "running"
  /\ pc \in {"again", "record"} => todo = {}
  /\ pc \notin {"pool", "again"} => ~broken

\* The failed deploys since the recorded one were of this selection: what a release owns, and its
\* revisions, are of that one or of this.
OwnMoves ==
  /\ Owned["own"] \subseteq DeployedOf["own"] \cup Own
  /\ Owned["own"] \subseteq LastOf["own"] \cup Own
  /\ DeployedOf["own"] \in {LastOf["own"], Own}
PodMoves ==
  /\ Owned["podiumd"] \subseteq DeployedOf["podiumd"] \cup Pod
  /\ Owned["podiumd"] \subseteq LastOf["podiumd"] \cup Pod
  /\ DeployedOf["podiumd"] \in {LastOf["podiumd"], Pod}
  /\ LatestOf["podiumd"] \in {LastOf["podiumd"], Pod}

\* What this chart's release is to have and podiumd's still owns is found where taken_over looks,
\* and there is none of it if this chart's release is to be left alone.
TakenMoves ==
  /\ Owned["podiumd"] \cap Own \subseteq LatestOf["podiumd"]
  /\ Owned["podiumd"] \cap Own \cap LastOf["own"] = {}
ClusterMoves == OwnMoves /\ PodMoves /\ TakenMoves

\* The plan, and how far the pass is.
PlannedMoves ==
  pc = "prepare" =>
    /\ IF "own" \in names THEN Own \cap Objects(Installed("podiumd")) \subseteq moved
       ELSE LastOf["own"] = Own
    /\ "podiumd" \in names \/ LastOf["podiumd"] = Pod
Freed == Owned["podiumd"] \cap Own = {}
OwnMoved == Owned["own"] \subseteq Own /\ DeployedOf["own"] = Own
PodMoved ==
  Owned["podiumd"] \subseteq Pod /\ DeployedOf["podiumd"] = Pod /\ LatestOf["podiumd"] = Pod
LastMoved == LastOf["own"] = Own /\ LastOf["podiumd"] = Pod
Prepared == {"own", "storage", "pool", "again", "record", "ready", "settle"}
PassMoves ==
  /\ pc \in Prepared => Freed
  /\ pc \in Prepared \ {"own"} => OwnMoved
  /\ pc \in Prepared => "podiumd" \in todo \/ broken \/ PodMoved
  /\ pc \in {"ready", "settle"} => PodMoved /\ LastMoved
EndMoves ==
  /\ result = "deployed" => OwnMoved /\ PodMoved /\ LastMoved
  /\ result = "none" => \A r \in {"own", "podiumd"} :
       Owned[r] = {} /\ DeployedOf[r] = {} /\ LatestOf[r] = {} /\ LastOf[r] = {}

Moves == ClusterMoves /\ PlannedMoves /\ PassMoves /\ EndMoves

\* A deploy with --every-release needs none of this: it upgrades both releases, and each upgrade
\* that succeeds leaves the objects as they are to be, whatever was there.
EveryPlan ==
  /\ pc = "prepare" => {"own", "podiumd"} \subseteq names
  /\ pc \in {"own", "storage"} => "podiumd" \in todo
EveryPass ==
  /\ pc \in Prepared \ {"own"} => Freed /\ DeployedOf["own"] = Own
  /\ pc \in Prepared \ {"own"} => "podiumd" \in todo \/ broken \/ (OwnMoved /\ PodMoved)
  /\ pc \in {"ready", "settle"} \/ result = "deployed" => OwnMoved /\ PodMoved /\ LastMoved
EveryMoves == EveryPlan /\ EveryPass

MoveInv == OwnersHome /\ Idling /\ (~switched => Moves) /\ (every => EveryMoves)

LEMMA MoveSets ==
  ASSUME MovingCharts, TypeOK
  PROVE  /\ cur \in Variant /\ want \in Selection /\ want \in Variant /\ held \in BOOLEAN
         /\ MovableOf(cur, "own") = Own /\ MovableOf(cur, "podiumd") = Pod
         /\ Own \cup Pod = Movable /\ Own \cap Pod = {}
<1>1. /\ cur \in Variant /\ want \in Selection /\ want \in Variant /\ held \in BOOLEAN
      /\ cur \in {want, WithoutWebsite[want]}
  BY Typed DEF TypeOK
<1>2. MovableOf(cur, "own") = Own /\ MovableOf(cur, "podiumd") = Pod /\ Own \cup Pod = Movable
  BY <1>1 DEF MovingCharts, Own, Pod
<1>3. Own \cap Pod = {}
  <2>1. \A r, q \in Release : r # q => Objects(Render[want][r]) \cap Objects(Render[want][q]) = {}
    BY <1>1, HelmDeployAssumption
  <2>. QED BY <2>1 DEF Own, Pod, MovableOf
<1>. QED BY <1>1, <1>2, <1>3

\* What is of one of the two releases in a variant and of the other in another variant can move.
LEMMA Moving2 ==
  ASSUME NEW v \in Variant, NEW w \in Variant, NEW o \in Objects(Render[v]["own"]),
         o \in Objects(Render[w]["podiumd"])
  PROVE  o \in Movable
BY DEF Movable, Objects

\* What an upgrade of release r makes of what the releases own and of their revisions.
LEMMA UpOwned ==
  ASSUME TypeOK, NEW r \in Release, Up(r)
  PROVE  /\ \A q \in Release \ {r} :
              Owned'[q] \subseteq Owned[q] /\ DeployedOf'[q] = DeployedOf[q] /\ LatestOf'[q] = LatestOf[q]
         /\ Owned'[r] \subseteq Owned[r] \cup MovableOf(cur, r)
         /\ DeployedOf'[r] \in {DeployedOf[r], MovableOf(cur, r)}
         /\ LatestOf'[r] \in {LatestOf[r], MovableOf(cur, r)}
<1>1. \A o \in Movable :
        live'[o].by \in {live[o].by, "nobody"} \/ (o \in Objects(Render[cur][r]) /\ live'[o].by = r)
  BY DEF Up, Written, Gone, Movable
<1>2. \A q \in Release \ {r} : Owned'[q] \subseteq Owned[q]
  BY <1>1 DEF Owned
<1>3. Owned'[r] \subseteq Owned[r] \cup MovableOf(cur, r)
  BY <1>1 DEF Owned, MovableOf
<1>4. Objects(Target(cur, held, r)) = Objects(Render[cur][r])
  BY Typed, Targets
<1>5. \A q \in Release \ {r} : DeployedOf'[q] = DeployedOf[q] /\ LatestOf'[q] = LatestOf[q]
  BY DEF Up, DeployedOf, LatestOf
<1>6. /\ DeployedOf'[r] \in {DeployedOf[r], MovableOf(cur, r)}
      /\ LatestOf'[r] \in {LatestOf[r], MovableOf(cur, r)}
  BY <1>4 DEF Up, DeployedOf, LatestOf, MovableOf
<1>. QED BY <1>2, <1>3, <1>5, <1>6

\* One that succeeds leaves the release with all it is to have, and nobody else with any of it.
LEMMA DoneOwned ==
  ASSUME TypeOK, NEW r \in Release, HelmDone(r)
  PROVE  /\ Owned'[r] \subseteq (Owned[r] \ DeployedOf[r]) \cup MovableOf(cur, r)
         /\ DeployedOf'[r] = MovableOf(cur, r) /\ LatestOf'[r] = MovableOf(cur, r)
         /\ \A q \in Release \ {r} : Owned'[q] \cap MovableOf(cur, r) = {}
<1>1. Target(cur, held, r) \in Manifest /\ Objects(Target(cur, held, r)) = Objects(Render[cur][r])
  BY Typed, Targets
<1>2. /\ helm' = [helm EXCEPT ![r] = [deployed |-> Target(cur, held, r),
                                      latest |-> Target(cur, held, r), pending |-> FALSE]]
      /\ helm \in [Release -> [deployed : Manifest, latest : Manifest, pending : BOOLEAN]]
      /\ live' = Upgraded(r)
  BY DEF HelmDone, TypeOK
<1>3. DeployedOf'[r] = MovableOf(cur, r) /\ LatestOf'[r] = MovableOf(cur, r)
  BY <1>1, <1>2 DEF DeployedOf, LatestOf, MovableOf
<1>4. ASSUME NEW o \in DeployedOf[r], o \notin Objects(Render[cur][r])
      PROVE  live'[o] = Gone
  <2>1. o \in Object /\ o \in Objects(helm[r].deployed) /\ IsDeployed(r)
    BY <1>4 DEF DeployedOf, Objects, IsDeployed, Nothing
  <2>. QED BY <1>1, <1>2, <1>4, <2>1 DEF Upgraded, Replaced
<1>5. Owned'[r] \cap DeployedOf[r] \subseteq MovableOf(cur, r)
  BY <1>4 DEF Owned, Gone, MovableOf
<1>6. Up(r) /\ Full(r)
  BY DoneUp
<1>7. \A q \in Release \ {r} : Owned'[q] \cap MovableOf(cur, r) = {}
  <2>1. ASSUME NEW o \in Objects(Render[cur][r]) PROVE live'[o].by = r
    <3>1. live'[o] = Written(r, o)
      BY <1>6 DEF Full
    <3>. QED BY <3>1 DEF Written
  <2>. QED BY <2>1 DEF Owned, MovableOf
<1>. QED BY <1>3, <1>5, <1>6, <1>7, UpOwned

\* Only an upgrade that succeeds changes the deployed revision, and it deletes what that had.
Replaces(r) ==
  DeployedOf'[r] # DeployedOf[r] =>
    Owned'[r] \subseteq (Owned[r] \ DeployedOf[r]) \cup MovableOf(cur, r)

LEMMA UpReplaces ==
  ASSUME TypeOK
  PROVE  /\ \A r \in Release : HelmDone(r) \/ HelmFails(r) => Up(r) /\ Replaces(r)
         /\ Kill => UNCHANGED <<live, helm>> \/ \E r \in Release : Running(r) /\ Up(r) /\ Replaces(r)
<1>0. helm \in [Release -> [deployed : Manifest, latest : Manifest, pending : BOOLEAN]]
  BY DEF TypeOK
<1>1. ASSUME NEW r \in Release, HelmDone(r) PROVE Up(r) /\ Replaces(r)
  BY <1>1, DoneUp, DoneOwned DEF Replaces
<1>2. ASSUME NEW r \in Release, HelmFails(r) PROVE Up(r) /\ Replaces(r)
  <2>1. helm' = helm \/ helm' = [helm EXCEPT ![r].latest = Target(cur, held, r)]
    BY <1>2 DEF HelmFails, HelmBreaks, HelmRefuses
  <2>2. helm'[r].deployed = helm[r].deployed
    BY <1>0, <2>1
  <2>. QED BY <1>2, <2>2, FailsUp DEF Replaces, DeployedOf
<1>3. ASSUME NEW r \in Release, Running(r), Ready(r), HelmPartly(r),
             helm' = [helm EXCEPT ![r].latest = Target(cur, held, r), ![r].pending = TRUE]
      PROVE  Up(r) /\ Replaces(r)
  <2>1. helm'[r].deployed = helm[r].deployed
    BY <1>0, <1>3
  <2>2. Up(r)
    BY <1>3, LatestTyped, PartlyTouches DEF Up
  <2>. QED BY <2>1, <2>2 DEF Replaces, DeployedOf
<1>4. Kill => UNCHANGED <<live, helm>> \/ \E r \in Release : Running(r) /\ Up(r) /\ Replaces(r)
  BY <1>3 DEF Kill
<1>. QED BY <1>1, <1>2, <1>4

\* An upgrade, however far it gets, leaves what is said of the releases true; podiumd's only
\* where it owns nothing any more that this chart's release is to have.
LEMMA UpMoves ==
  ASSUME MovingCharts, TypeOK, NEW r \in Release, Up(r), Replaces(r), r = "podiumd" => Freed,
         ClusterMoves, want' = want, last' = last
  PROVE  /\ ClusterMoves'
         /\ Freed => Freed'
         /\ OwnMoved => OwnMoved'
         /\ PodMoved => PodMoved'
<1>1. /\ Own' = Own /\ Pod' = Pod
      /\ LastOf'["own"] = LastOf["own"] /\ LastOf'["podiumd"] = LastOf["podiumd"]
  BY DEF Own, Pod, LastOf
<1>2. CASE r = "own"
  <2>1. /\ Owned'["podiumd"] \subseteq Owned["podiumd"] /\ DeployedOf'["podiumd"] = DeployedOf["podiumd"]
        /\ LatestOf'["podiumd"] = LatestOf["podiumd"]
        /\ Owned'["own"] \subseteq Owned["own"] \cup Own /\ DeployedOf'["own"] \in {DeployedOf["own"], Own}
        /\ \/ DeployedOf'["own"] = DeployedOf["own"]
           \/ Owned'["own"] \subseteq (Owned["own"] \ DeployedOf["own"]) \cup Own
    BY <1>2, UpOwned, MoveSets DEF Replaces
  <2>2. OwnMoves' /\ (OwnMoved => OwnMoved')
    BY <1>1, <2>1 DEF ClusterMoves, OwnMoves, OwnMoved
  <2>3. PodMoves' /\ (PodMoved => PodMoved')
    BY <1>1, <2>1 DEF ClusterMoves, PodMoves, PodMoved
  <2>4. TakenMoves' /\ (Freed => Freed')
    BY <1>1, <2>1 DEF ClusterMoves, TakenMoves, Freed
  <2>. QED BY <2>2, <2>3, <2>4 DEF ClusterMoves
<1>3. CASE r = "podiumd"
  <2>1. /\ Owned'["own"] \subseteq Owned["own"] /\ DeployedOf'["own"] = DeployedOf["own"]
        /\ Owned'["podiumd"] \subseteq Owned["podiumd"] \cup Pod
        /\ DeployedOf'["podiumd"] \in {DeployedOf["podiumd"], Pod}
        /\ LatestOf'["podiumd"] \in {LatestOf["podiumd"], Pod}
        /\ \/ DeployedOf'["podiumd"] = DeployedOf["podiumd"]
           \/ Owned'["podiumd"] \subseteq (Owned["podiumd"] \ DeployedOf["podiumd"]) \cup Pod
    BY <1>3, UpOwned, MoveSets DEF Replaces
  <2>2. Own \cap Pod = {} /\ Freed
    BY <1>3, MoveSets
  <2>3. Freed'
    BY <1>1, <2>1, <2>2 DEF Freed
  <2>4. OwnMoves' /\ (OwnMoved => OwnMoved')
    BY <1>1, <2>1 DEF ClusterMoves, OwnMoves, OwnMoved
  <2>5. TakenMoves'
    BY <2>3 DEF TakenMoves, Freed
  <2>6. PodMoves' /\ (PodMoved => PodMoved')
    BY <1>1, <2>1 DEF ClusterMoves, PodMoves, PodMoved
  <2>. QED BY <2>3, <2>4, <2>5, <2>6 DEF ClusterMoves
<1>4. CASE r = "monitoring"
  <2>1. /\ Owned'["podiumd"] \subseteq Owned["podiumd"] /\ DeployedOf'["podiumd"] = DeployedOf["podiumd"]
        /\ LatestOf'["podiumd"] = LatestOf["podiumd"]
        /\ Owned'["own"] \subseteq Owned["own"] /\ DeployedOf'["own"] = DeployedOf["own"]
    BY <1>4, UpOwned
  <2>. QED BY <1>1, <2>1 DEF ClusterMoves, OwnMoves, PodMoves, TakenMoves, Freed, OwnMoved, PodMoved
<1>. QED BY <1>2, <1>3, <1>4

LEMMA DoneMoves ==
  ASSUME MovingCharts, TypeOK, ClusterMoves, want' = want
  PROVE  /\ HelmDone("own") => OwnMoved'
         /\ HelmDone("podiumd") => PodMoved'
<1>1. Own' = Own /\ Pod' = Pod
  BY DEF Own, Pod
<1>2. ASSUME HelmDone("own") PROVE OwnMoved'
  <2>1. Owned'["own"] \subseteq (Owned["own"] \ DeployedOf["own"]) \cup Own /\ DeployedOf'["own"] = Own
    BY <1>2, DoneOwned, MoveSets
  <2>. QED BY <1>1, <2>1 DEF ClusterMoves, OwnMoves, OwnMoved
<1>3. ASSUME HelmDone("podiumd") PROVE PodMoved'
  <2>1. /\ Owned'["podiumd"] \subseteq (Owned["podiumd"] \ DeployedOf["podiumd"]) \cup Pod
        /\ DeployedOf'["podiumd"] = Pod /\ LatestOf'["podiumd"] = Pod
    BY <1>3, DoneOwned, MoveSets
  <2>. QED BY <1>1, <2>1 DEF ClusterMoves, PodMoves, PodMoved
<1>. QED BY <1>2, <1>3

LEMMA SameSets ==
  ASSUME UNCHANGED <<live, helm, last, want>>
  PROVE  /\ Own' = Own /\ Pod' = Pod /\ Owned' = Owned
         /\ DeployedOf' = DeployedOf /\ LatestOf' = LatestOf /\ LastOf' = LastOf
         /\ ClusterMoves' = ClusterMoves /\ Freed' = Freed
         /\ OwnMoved' = OwnMoved /\ PodMoved' = PodMoved /\ LastMoved' = LastMoved
<1>1. Own' = Own /\ Pod' = Pod /\ Owned' = Owned
  BY DEF Own, Pod, Owned
<1>2. DeployedOf' = DeployedOf /\ LatestOf' = LatestOf /\ LastOf' = LastOf
  BY DEF DeployedOf, LatestOf, LastOf
<1>3. Freed' = Freed /\ OwnMoved' = OwnMoved /\ PodMoved' = PodMoved /\ LastMoved' = LastMoved
  BY <1>1, <1>2 DEF Freed, OwnMoved, PodMoved, LastMoved
<1>4. OwnMoves' = OwnMoves /\ PodMoves' = PodMoves /\ TakenMoves' = TakenMoves
  BY <1>1, <1>2 DEF OwnMoves, PodMoves, TakenMoves
<1>. QED BY <1>1, <1>2, <1>3, <1>4 DEF ClusterMoves

\* A deploy that ends otherwise than with "Deployed." keeps nothing of its plan.
LEMMA FailedMoves ==
  ASSUME End("failed"), ClusterMoves'
  PROVE  Moves'
BY DEF End, Moves, PlannedMoves, PassMoves, EndMoves, Prepared

LEMMA MoveInit == Init => MoveInv
<1> SUFFICES ASSUME Init PROVE MoveInv
  OBVIOUS
<1>1. Objects(Nothing) = {}
  BY DEF Objects, Nothing
<1>2. \A r \in Release : Owned[r] = {} /\ DeployedOf[r] = {} /\ LatestOf[r] = {} /\ LastOf[r] = {}
  <2>1. \A o \in Movable : o \in Object
    BY DEF Movable
  <2>2. \A r \in Release : Owned[r] = {}
    BY <2>1 DEF Init, Owned, Gone, Release
  <2>. QED BY <1>1, <2>2 DEF Init, DeployedOf, LatestOf, LastOf, NotRecorded
<1>3. ClusterMoves
  BY <1>2 DEF ClusterMoves, OwnMoves, PodMoves, TakenMoves
<1>4. PlannedMoves /\ PassMoves /\ EndMoves
  BY <1>2 DEF Init, PlannedMoves, PassMoves, EndMoves, Prepared
<1>5. OwnersHome /\ Idling /\ ~every
  BY DEF Init, OwnersHome, Idling, Gone
<1>. QED BY <1>3, <1>4, <1>5 DEF MoveInv, Moves

LEMMA IdlingStep == TypeOK /\ Idling /\ [Next]_vars => Idling'
<1> SUFFICES ASSUME TypeOK, Idling, [Next]_vars PROVE Idling'
  OBVIOUS
<1> USE DEF Idling, plan, cluster
<1>1. CASE UNCHANGED vars
  BY <1>1 DEF vars
<1>2. ASSUME NEW outcome \in {"deployed", "failed"}, End(outcome) PROVE Idling'
  BY <1>2 DEF End
<1>3. ASSUME NEW s \in Selection, NEW e \in BOOLEAN, Start(s, e) PROVE Idling'
  BY <1>3 DEF Start
<1>4. CASE Choose \/ Plan \/ Prepare \/ Storage \/ Record \/ StartZac
  BY <1>4 DEF Choose, Plan, Prepare, Storage, Record, StartZac
<1>5. CASE UpgradeOwn
  BY <1>2, <1>5 DEF UpgradeOwn
<1>6. ASSUME NEW r \in Release, UpgradeOther(r) PROVE Idling'
  BY <1>6 DEF UpgradeOther
<1>7. CASE PoolDone
  BY <1>2, <1>7 DEF PoolDone
<1>8. CASE UpgradeAgain
  BY <1>2, <1>8 DEF UpgradeAgain
<1>9. CASE Settle
  BY <1>2, <1>9 DEF Settle
<1>10. CASE Fail \/ Kill
  BY <1>2, <1>10 DEF Fail, Kill
<1>. QED BY <1>1, <1>3, <1>4, <1>5, <1>6, <1>7, <1>8, <1>9, <1>10 DEF Next, Step

LEMMA HomeStep == TypeOK /\ OwnersHome /\ [Next]_vars => OwnersHome'
<1> SUFFICES ASSUME TypeOK, OwnersHome, [Next]_vars PROVE OwnersHome'
  OBVIOUS
<1>1. CASE UNCHANGED live
  BY <1>1 DEF OwnersHome
<1>2. ASSUME NEW r \in Release, Up(r) PROVE OwnersHome'
  <2>1. \A o \in Object :
          live'[o].by \in {live[o].by, "nobody"} \/ (o \in Objects(Render[cur][r]) /\ live'[o].by = r)
    BY <1>2 DEF Up, Written, Gone
  <2>. QED BY <2>1, Typed DEF OwnersHome
<1>3. ASSUME \A o \in Object : live'[o].by \in {live[o].by, "nobody"} PROVE OwnersHome'
  BY <1>3 DEF OwnersHome
<1>4. CASE Prepare
  BY <1>3, <1>4 DEF Prepare, Gone
<1>5. CASE StartZac
  <2>1. \A o \in Object : live'[o].by = live[o].by
    BY <1>5 DEF StartZac, TypeOK
  <2>. QED BY <1>3, <2>1
<1>6. CASE UpgradeOwn \/ UpgradeAgain \/ \E r \in Release : UpgradeOther(r)
  BY <1>2, <1>6, DoneUp, FailsUp DEF UpgradeOwn, UpgradeAgain, UpgradeOther
<1>7. CASE Kill
  BY <1>1, <1>2, <1>7, KillUp
<1>8. CASE Choose \/ Plan \/ Storage \/ PoolDone \/ Record \/ Settle \/ Fail \/ UNCHANGED vars
  BY <1>1, <1>8 DEF Choose, Plan, Storage, PoolDone, Record, Settle, Fail, cluster, vars
<1>9. CASE \E s \in Selection, e \in BOOLEAN : Start(s, e)
  BY <1>1, <1>9 DEF Start, cluster
<1>. QED BY <1>4, <1>5, <1>6, <1>7, <1>8, <1>9 DEF Next, Step

LEMMA StartMoves ==
  ASSUME MovingCharts, TypeOK, MoveInv, ~switched', NEW s \in Selection, NEW e \in BOOLEAN, Start(s, e)
  PROVE  Moves'
<1>1. /\ pc = "idle" /\ pc' = "render" /\ result' = "running" /\ want' = s
      /\ UNCHANGED <<live, helm, last>>
  BY DEF Start, cluster
<1>2. PlannedMoves' /\ PassMoves' /\ EndMoves'
  BY <1>1 DEF PlannedMoves, PassMoves, EndMoves, Prepared
<1>3. /\ switched => result = "deployed" /\ EveryMoves
      /\ result = "deployed" \/ (Moves /\ result = "none") \/ (Moves /\ result = "failed" /\ s = want)
  BY <1>1 DEF Start, MoveInv, Idling, TypeOK
<1>4. Owned' = Owned /\ DeployedOf' = DeployedOf /\ LatestOf' = LatestOf /\ LastOf' = LastOf
  BY <1>1 DEF Owned, DeployedOf, LatestOf, LastOf
<1>5. CASE result = "failed" /\ s = want
  BY <1>1, <1>2, <1>3, <1>5, SameSets DEF Moves
<1>6. CASE result = "none"
  <2>1. \A r \in {"own", "podiumd"} : Owned[r] = {} /\ DeployedOf[r] = {} /\ LatestOf[r] = {} /\ LastOf[r] = {}
    BY <1>3, <1>6 DEF Moves, EndMoves
  <2>2. ClusterMoves'
    BY <1>4, <2>1 DEF ClusterMoves, OwnMoves, PodMoves, TakenMoves
  <2>. QED BY <1>2, <2>2 DEF Moves
<1>7. CASE result = "deployed"
  <2>1. OwnMoved /\ PodMoved /\ LastMoved
    BY <1>3, <1>7 DEF MoveInv, Moves, EndMoves, EveryMoves, EveryPass
  <2>2. Own \cap Pod = {}
    BY MoveSets
  <2>4. OwnMoves'
    BY <1>4, <2>1 DEF OwnMoves, OwnMoved, LastMoved
  <2>5. PodMoves'
    BY <1>4, <2>1 DEF PodMoves, PodMoved, LastMoved
  <2>6. TakenMoves'
    BY <1>4, <2>1, <2>2 DEF TakenMoves, PodMoved, LastMoved
  <2>. QED BY <1>2, <2>4, <2>5, <2>6 DEF Moves, ClusterMoves
<1>. QED BY <1>3, <1>5, <1>6, <1>7

LEMMA PlanMoves == ASSUME MovingCharts, TypeOK, Idling, Moves, Plan PROVE Moves'
<1>1. /\ pc = "plan" /\ pc' = "prepare" /\ result' = result /\ UNCHANGED <<live, helm, last, want, cur, every>>
      /\ held' = HoldZac(cur) /\ names' = Changed(cur, held')
      /\ moved' = IF "own" \in names' THEN TakenOver(cur) ELSE {}
  BY DEF Plan, cluster
<1>2. held' \in BOOLEAN
  BY <1>1 DEF HoldZac
<1>3. ASSUME NEW r \in {"own", "podiumd"}, r \notin names'
      PROVE  LastOf[r] = MovableOf(cur, r)
  <2>1. last[r] = Digest(cur, held', r)
    BY <1>1, <1>3 DEF Changed, Found
  <2>. QED BY <1>2, <2>1, DigestFields DEF LastOf, MovableOf
<1>4. Own \cap Objects(Installed("podiumd")) \subseteq TakenOver(cur)
  <2>1. \A o \in Own : o \in Objects(Render[cur]["own"]) /\ o \notin Objects(Render[cur]["podiumd"])
    BY MoveSets DEF MovableOf
  <2>. QED BY <2>1 DEF TakenOver, Objects
<1>5. Installed("podiumd")' = Installed("podiumd")
  BY <1>1 DEF Installed, IsDeployed
<1>6. PlannedMoves'
  BY <1>1, <1>3, <1>4, <1>5, SameSets, MoveSets DEF PlannedMoves
<1>7. PassMoves' /\ EndMoves'
  BY <1>1 DEF PassMoves, EndMoves, Prepared, Idling
<1>. QED BY <1>1, <1>6, <1>7, SameSets DEF Moves

LEMMA PrepareMoves == ASSUME MovingCharts, TypeOK, Idling, Moves, Prepare PROVE Moves'
<1>1. /\ pc = "prepare" /\ UNCHANGED <<helm, last, broken, result, want, names>>
      /\ todo' = names \ {"own"}
      /\ pc' = IF "own" \in names THEN "own" ELSE "pool"
      /\ live' = [o \in Object |-> IF o \in moved THEN Gone ELSE live[o]]
  BY DEF Prepare, plan
<1>2. /\ Own' = Own /\ Pod' = Pod
      /\ DeployedOf' = DeployedOf /\ LatestOf' = LatestOf /\ LastOf' = LastOf
  BY <1>1 DEF Own, Pod, DeployedOf, LatestOf, LastOf
<1>3. \A r \in Release : Owned'[r] \subseteq Owned[r] /\ Owned'[r] \cap moved = {}
  <2>1. \A o \in Movable : o \in Object
    BY DEF Movable
  <2>. QED BY <1>1, <2>1 DEF Owned, Gone, Release
<1>4. ClusterMoves /\ PlannedMoves
  BY DEF Moves
<1>5. OwnMoves' /\ PodMoves' /\ TakenMoves'
  BY <1>2, <1>3, <1>4 DEF ClusterMoves, OwnMoves, PodMoves, TakenMoves
<1>6. Freed'
  <2>1. CASE "own" \in names /\ IsDeployed("podiumd")
    <3>1. Own \cap LatestOf["podiumd"] \subseteq moved
      BY <1>1, <1>4, <2>1 DEF PlannedMoves, Installed, LatestOf
    <3>. QED BY <1>2, <1>3, <1>4, <3>1 DEF ClusterMoves, TakenMoves, Freed
  <2>2. CASE ~IsDeployed("podiumd")
    <3>1. DeployedOf["podiumd"] = {}
      BY <2>2 DEF IsDeployed, DeployedOf, Objects, Nothing
    <3>2. Owned["podiumd"] \cap Own = {}
      BY <1>4, <3>1, MoveSets DEF ClusterMoves, PodMoves
    <3>. QED BY <1>2, <1>3, <3>2 DEF Freed
  <2>3. CASE "own" \notin names
    <3>1. LastOf["own"] = Own
      BY <1>1, <1>4, <2>3 DEF PlannedMoves
    <3>. QED BY <1>2, <1>3, <1>4, <3>1 DEF ClusterMoves, TakenMoves, Freed
  <2>. QED BY <2>1, <2>2, <2>3
<1>7. pc' \in Prepared \ {"own"} => OwnMoved'
  <2> SUFFICES ASSUME "own" \notin names PROVE OwnMoved'
    BY <1>1
  <2>1. LastOf["own"] = Own
    BY <1>1, <1>4 DEF PlannedMoves
  <2>. QED BY <1>2, <1>3, <1>4, <2>1 DEF ClusterMoves, OwnMoves, OwnMoved
<1>8. "podiumd" \in todo' \/ PodMoved'
  <2> SUFFICES ASSUME "podiumd" \notin names PROVE PodMoved'
    BY <1>1
  <2>1. LastOf["podiumd"] = Pod
    BY <1>1, <1>4 DEF PlannedMoves
  <2>. QED BY <1>2, <1>3, <1>4, <2>1 DEF ClusterMoves, PodMoves, PodMoved
<1>9. PassMoves'
  BY <1>1, <1>6, <1>7, <1>8 DEF PassMoves
<1>10. PlannedMoves' /\ EndMoves'
  BY <1>1 DEF PlannedMoves, EndMoves, Idling
<1>. QED BY <1>5, <1>9, <1>10 DEF Moves, ClusterMoves

LEMMA OwnUpgradeMoves ==
  ASSUME MovingCharts, TypeOK, Idling, Moves, UpgradeOwn \/ UpgradeAgain
  PROVE  Moves'
<1>1. HelmDone("own") \/ HelmFails("own")
  BY DEF UpgradeOwn, UpgradeAgain
<1>2. Up("own") /\ Replaces("own")
  BY <1>1, UpReplaces
<1>3. want' = want /\ last' = last
  BY DEF UpgradeOwn, UpgradeAgain, End, plan
<1>4. /\ ClusterMoves' /\ (Freed => Freed') /\ (OwnMoved => OwnMoved') /\ (PodMoved => PodMoved')
      /\ HelmDone("own") => OwnMoved'
  BY <1>2, <1>3, UpMoves, DoneMoves DEF Moves
<1>5. CASE End("failed")
  BY <1>4, <1>5, FailedMoves
<1>6. CASE /\ HelmDone("own") /\ UNCHANGED <<todo, broken, result>>
           /\ (pc = "own" /\ pc' = "storage") \/ (pc = "again" /\ pc' = "record" /\ ~broken)
  <2>1. PassMoves'
    BY <1>4, <1>6 DEF Moves, PassMoves, Prepared
  <2>2. PlannedMoves' /\ EndMoves'
    BY <1>6 DEF PlannedMoves, EndMoves, Idling
  <2>. QED BY <1>4, <2>1, <2>2 DEF Moves
<1>7. CASE UpgradeOwn
  BY <1>5, <1>6, <1>7 DEF UpgradeOwn
<1>8. CASE UpgradeAgain
  BY <1>5, <1>6, <1>8 DEF UpgradeAgain
<1>. QED BY <1>7, <1>8

LEMMA OtherUpgradeMoves ==
  ASSUME MovingCharts, TypeOK, Idling, Moves, NEW r \in Release, UpgradeOther(r)
  PROVE  Moves'
<1>1. /\ pc = "pool" /\ pc' = pc /\ r \in todo /\ todo' = todo \ {r}
      /\ want' = want /\ last' = last /\ result' = result
      /\ \/ HelmDone(r) /\ broken' = broken
         \/ HelmFails(r) /\ broken' = TRUE
  BY DEF UpgradeOther, plan
<1>2. Freed
  BY <1>1 DEF Moves, PassMoves, Prepared
<1>3. Up(r) /\ Replaces(r)
  BY <1>1, UpReplaces
<1>4. ClusterMoves' /\ Freed' /\ (OwnMoved => OwnMoved') /\ (PodMoved => PodMoved')
  BY <1>1, <1>2, <1>3, UpMoves DEF Moves
<1>5. r = "podiumd" => broken' \/ PodMoved'
  BY <1>1, DoneMoves DEF Moves
<1>6. PassMoves'
  BY <1>1, <1>4, <1>5 DEF Moves, PassMoves, Prepared
<1>7. PlannedMoves' /\ EndMoves'
  BY <1>1 DEF PlannedMoves, EndMoves, Idling
<1>. QED BY <1>4, <1>6, <1>7 DEF Moves

LEMMA RecordedMoves ==
  ASSUME MovingCharts, TypeOK, Record
  PROVE  LastOf'["own"] = Own /\ LastOf'["podiumd"] = Pod
<1>1. last' = [r \in Release |-> IF r \in Found(cur) THEN Digest(cur, held, r) ELSE NotRecorded]
  BY DEF Record
<1>2. ASSUME NEW r \in {"own", "podiumd"} PROVE LastOf'[r] = MovableOf(cur, r)
  <2>1. last'[r].manifest = Render[cur][r]
    BY <1>1, DigestFields, MoveSets DEF Found, Release
  <2>. QED BY <2>1 DEF LastOf, MovableOf, Release
<1>. QED BY <1>2, MoveSets

LEMMA RecordMoves == ASSUME MovingCharts, TypeOK, Idling, Moves, Record PROVE Moves'
<1>1. /\ pc = "record" /\ pc' = "ready" /\ UNCHANGED <<live, helm, result, want, todo, broken>>
      /\ last' = [r \in Release |-> IF r \in Found(cur) THEN Digest(cur, held, r) ELSE NotRecorded]
  BY DEF Record, plan
<1>2. Own' = Own /\ Pod' = Pod /\ Owned' = Owned /\ DeployedOf' = DeployedOf /\ LatestOf' = LatestOf
  BY <1>1 DEF Own, Pod, Owned, DeployedOf, LatestOf
<1>3. LastOf'["own"] = Own /\ LastOf'["podiumd"] = Pod
  BY RecordedMoves
<1>4. LastMoved'
  BY <1>2, <1>3, MoveSets DEF LastMoved
<1>5. Freed /\ OwnMoved /\ PodMoved
  BY <1>1 DEF Moves, PassMoves, Prepared, Idling
<1>6. Freed' /\ OwnMoved' /\ PodMoved'
  BY <1>2, <1>5 DEF Freed, OwnMoved, PodMoved
<1>7. ClusterMoves'
  <2>1. OwnMoves'
    BY <1>6 DEF OwnMoves, OwnMoved
  <2>2. PodMoves'
    BY <1>6 DEF PodMoves, PodMoved
  <2>3. TakenMoves'
    BY <1>6 DEF TakenMoves, Freed
  <2>. QED BY <2>1, <2>2, <2>3 DEF ClusterMoves
<1>8. PassMoves' /\ PlannedMoves' /\ EndMoves'
  BY <1>1, <1>4, <1>6 DEF PassMoves, PlannedMoves, EndMoves, Idling
<1>. QED BY <1>7, <1>8 DEF Moves

LEMMA ZacKeeps ==
  ASSUME TypeOK, StartZac
  PROVE  /\ Own' = Own /\ Pod' = Pod /\ Owned' = Owned
         /\ DeployedOf' = DeployedOf /\ LatestOf' = LatestOf /\ LastOf' = LastOf
<1>1. /\ UNCHANGED <<helm, last, want>>
      /\ live' = IF held THEN [live EXCEPT ![Zac].body = Render[cur]["podiumd"][Zac]] ELSE live
  BY DEF StartZac
<1>2. \A o \in Object : live'[o].by = live[o].by
  BY <1>1 DEF TypeOK
<1>. QED BY <1>1, <1>2 DEF Own, Pod, Owned, DeployedOf, LatestOf, LastOf, Movable

LEMMA ZacMoves == ASSUME TypeOK, Idling, Moves, StartZac PROVE Moves'
<1>1. pc = "ready" /\ pc' = "settle" /\ UNCHANGED <<result, todo, broken>>
  BY DEF StartZac
<1>2. ClusterMoves' = ClusterMoves
  BY ZacKeeps DEF ClusterMoves, OwnMoves, PodMoves, TakenMoves
<1>3. Freed' = Freed /\ OwnMoved' = OwnMoved /\ PodMoved' = PodMoved /\ LastMoved' = LastMoved
  BY ZacKeeps DEF Freed, OwnMoved, PodMoved, LastMoved
<1>4. PassMoves' /\ PlannedMoves' /\ EndMoves'
  BY <1>1, <1>3 DEF Moves, PassMoves, PlannedMoves, EndMoves, Idling, Prepared
<1>. QED BY <1>2, <1>4 DEF Moves

\* Steps that decide, wait or end change neither the cluster nor what is recorded.
LEMMA QuietMoves ==
  ASSUME MovingCharts, TypeOK, Idling, Moves, Choose \/ Storage \/ PoolDone \/ Settle \/ Fail
  PROVE  Moves'
<1>1. UNCHANGED <<live, helm, last, want>>
  BY DEF Choose, Storage, PoolDone, Settle, Fail, End, cluster, plan
<1>2. ClusterMoves'
  BY <1>1, SameSets DEF Moves
<1>3. CASE End("failed")
  BY <1>2, <1>3, FailedMoves
<1>4. CASE Choose
  <2>1. pc' = "plan" /\ result' = result /\ result = "running"
    BY <1>4 DEF Choose, Idling, TypeOK
  <2>. QED BY <1>2, <2>1 DEF Moves, PassMoves, PlannedMoves, EndMoves, Prepared
<1>5. CASE Storage \/ (PoolDone /\ ~End("failed"))
  <2>1. /\ pc \in {"storage", "pool"} /\ pc' \in {"pool", "again", "record"}
        /\ UNCHANGED <<todo, broken, result>> /\ result = "running"
    BY <1>5 DEF Storage, PoolDone, Idling
  <2>. QED BY <1>1, <1>2, <2>1, SameSets DEF Moves, PassMoves, PlannedMoves, EndMoves, Prepared
<1>6. CASE Settle
  <2>1. CASE End("deployed")
    <3>1. OwnMoved' /\ PodMoved' /\ LastMoved'
      BY <1>1, <1>6, SameSets DEF Settle, Moves, PassMoves, Prepared
    <3>. QED BY <1>2, <2>1, <3>1 DEF End, Moves, PassMoves, PlannedMoves, EndMoves, Prepared
  <2>2. CASE pc' = "render" /\ result' = result
    BY <1>2, <1>6, <2>2 DEF Settle, Idling, Moves, PassMoves, PlannedMoves, EndMoves, Prepared
  <2>. QED BY <1>6, <2>1, <2>2 DEF Settle
<1>. QED BY <1>3, <1>4, <1>5, <1>6 DEF Fail

LEMMA KillMoves == ASSUME MovingCharts, TypeOK, Idling, Moves, Kill PROVE Moves'
<1>1. End("failed") /\ want' = want /\ last' = last
  BY DEF Kill, End
<1>2. CASE UNCHANGED <<live, helm>>
  BY <1>1, <1>2, SameSets, FailedMoves DEF Moves
<1>3. ASSUME NEW r \in Release, Running(r), Up(r), Replaces(r) PROVE Moves'
  <2>1. Freed
    BY <1>3 DEF Running, Moves, PassMoves, Prepared
  <2>. QED BY <1>1, <1>3, <2>1, UpMoves, FailedMoves DEF Moves
<1>. QED BY <1>2, <1>3, UpReplaces

\* With --every-release, an upgrade keeps what the pass has made of the two releases, and the
\* last of them leaves the objects that move where they are to be.
LEMMA EveryUpgrade ==
  ASSUME MovingCharts, TypeOK, Idling, EveryMoves, NEW r \in Release, HelmDone(r) \/ HelmFails(r), want' = want
  PROVE  /\ Freed /\ DeployedOf["own"] = Own => Freed' /\ DeployedOf'["own"] = Own'
         /\ OwnMoved /\ PodMoved => OwnMoved' /\ PodMoved'
         /\ r = "own" /\ HelmDone(r) => Freed' /\ DeployedOf'["own"] = Own'
         /\ r = "podiumd" /\ HelmDone(r) /\ Freed /\ DeployedOf["own"] = Own => OwnMoved' /\ PodMoved'
<1>1. Up(r) /\ Own' = Own /\ Pod' = Pod
  BY DoneUp, FailsUp DEF Own, Pod
<1>2. /\ Own \cup Pod = Movable /\ Own \cap Pod = {}
      /\ MovableOf(cur, "own") = Own /\ MovableOf(cur, "podiumd") = Pod
  BY MoveSets
<1>3. /\ \A q \in Release \ {r} :
           Owned'[q] \subseteq Owned[q] /\ DeployedOf'[q] = DeployedOf[q] /\ LatestOf'[q] = LatestOf[q]
      /\ Owned'[r] \subseteq Owned[r] \cup MovableOf(cur, r)
      /\ DeployedOf'[r] \in {DeployedOf[r], MovableOf(cur, r)}
      /\ LatestOf'[r] \in {LatestOf[r], MovableOf(cur, r)}
  BY <1>1, UpOwned
<1>4. Freed /\ DeployedOf["own"] = Own => Freed' /\ DeployedOf'["own"] = Own'
  BY <1>1, <1>2, <1>3 DEF Freed
<1>5. OwnMoved /\ PodMoved => OwnMoved' /\ PodMoved'
  <2> SUFFICES ASSUME OwnMoved, PodMoved PROVE OwnMoved' /\ PodMoved'
    OBVIOUS
  <2>1. CASE r = "own"
    BY <1>1, <1>2, <1>3, <2>1 DEF OwnMoved, PodMoved
  <2>2. CASE r = "podiumd"
    BY <1>1, <1>2, <1>3, <2>2 DEF OwnMoved, PodMoved
  <2>3. CASE r = "monitoring"
    BY <1>1, <1>3, <2>3 DEF OwnMoved, PodMoved
  <2>. QED BY <2>1, <2>2, <2>3 DEF Release
<1>6. r = "own" /\ HelmDone(r) => Freed' /\ DeployedOf'["own"] = Own'
  BY <1>1, <1>2, DoneOwned DEF Freed, Release
<1>7. ASSUME r = "podiumd", HelmDone(r), Freed, DeployedOf["own"] = Own
      PROVE  OwnMoved' /\ PodMoved'
  <2>1. /\ Owned'["podiumd"] \subseteq Owned["podiumd"] \cup Pod
        /\ DeployedOf'["podiumd"] = Pod /\ LatestOf'["podiumd"] = Pod
        /\ Owned'["own"] \cap Pod = {} /\ DeployedOf'["own"] = Own
    BY <1>2, <1>3, <1>7, DoneOwned DEF Release
  <2>2. Owned["podiumd"] \subseteq Movable /\ Owned'["own"] \subseteq Movable
    BY DEF Owned, Release, Movable
  <2>. QED BY <1>1, <1>2, <1>7, <2>1, <2>2 DEF Freed, OwnMoved, PodMoved
<1>. QED BY <1>4, <1>5, <1>6, <1>7

LEMMA EveryUpgrades ==
  ASSUME MovingCharts, TypeOK, Idling, EveryMoves,
         UpgradeOwn \/ UpgradeAgain \/ \E r \in Release : UpgradeOther(r)
  PROVE  EveryMoves'
<1>1. want' = want
  BY DEF UpgradeOwn, UpgradeAgain, UpgradeOther, End, plan
<1>2. CASE End("failed")
  BY <1>2 DEF End, EveryMoves, EveryPlan, EveryPass, Prepared
<1>3. CASE UpgradeOwn /\ ~End("failed")
  <2>1. HelmDone("own") /\ pc = "own" /\ pc' = "storage" /\ UNCHANGED <<todo, result>> /\ result = "running"
    BY <1>3 DEF UpgradeOwn, Idling
  <2>2. Freed' /\ DeployedOf'["own"] = Own'
    BY <1>1, <2>1, EveryUpgrade DEF Release
  <2>. QED BY <2>1, <2>2 DEF EveryMoves, EveryPlan, EveryPass, Prepared
<1>4. CASE UpgradeAgain /\ ~End("failed")
  <2>1. /\ HelmDone("own") /\ pc = "again" /\ pc' = "record" /\ ~broken
        /\ todo = {} /\ UNCHANGED <<todo, broken, result>> /\ result = "running"
    BY <1>4 DEF UpgradeAgain, Idling
  <2>2. Freed' /\ DeployedOf'["own"] = Own' /\ OwnMoved' /\ PodMoved'
    BY <1>1, <2>1, EveryUpgrade DEF Release, EveryMoves, EveryPass, Prepared
  <2>. QED BY <2>1, <2>2 DEF EveryMoves, EveryPlan, EveryPass, Prepared
<1>5. ASSUME NEW r \in Release, UpgradeOther(r) PROVE EveryMoves'
  <2>1. /\ pc = "pool" /\ pc' = pc /\ todo' = todo \ {r} /\ result' = result /\ result = "running"
        /\ \/ HelmDone(r) /\ broken' = broken
           \/ HelmFails(r) /\ broken' = TRUE
    BY <1>5 DEF UpgradeOther, Idling
  <2>2. Freed /\ DeployedOf["own"] = Own
    BY <2>1 DEF EveryMoves, EveryPass, Prepared
  <2>3. Freed' /\ DeployedOf'["own"] = Own' /\ (OwnMoved /\ PodMoved => OwnMoved' /\ PodMoved')
    BY <1>1, <2>1, <2>2, EveryUpgrade
  <2>4. "podiumd" \in todo' \/ broken' \/ (OwnMoved' /\ PodMoved')
    <3>1. CASE r = "podiumd"
      BY <1>1, <2>1, <2>2, <3>1, EveryUpgrade
    <3>2. CASE r # "podiumd"
      BY <2>1, <2>3, <3>2 DEF EveryMoves, EveryPass, Prepared
    <3>. QED BY <3>1, <3>2
  <2>. QED BY <2>1, <2>3, <2>4 DEF EveryMoves, EveryPlan, EveryPass, Prepared
<1>. QED BY <1>2, <1>3, <1>4, <1>5

LEMMA EveryStep ==
  ASSUME MovingCharts, TypeOK, Idling, every => EveryMoves, [Next]_vars, every'
  PROVE  EveryMoves'
<1>1. ASSUME NEW s \in Selection, NEW e \in BOOLEAN, Start(s, e) PROVE EveryMoves'
  BY <1>1 DEF Start, EveryMoves, EveryPlan, EveryPass, Prepared
<1> SUFFICES ASSUME EveryMoves, ~\E s \in Selection, e \in BOOLEAN : Start(s, e) PROVE EveryMoves'
  <2>1. every' = every \/ \E s \in Selection, e \in BOOLEAN : Start(s, e)
    BY DEF Next, Step, Choose, Plan, Prepare, UpgradeOwn, Storage, UpgradeOther, PoolDone, UpgradeAgain,
           Record, StartZac, Settle, Fail, Kill, End, plan, vars
  <2>. QED BY <1>1, <2>1
<1>2. ASSUME UNCHANGED <<live, helm, last, want>>
      PROVE  /\ Own' = Own /\ DeployedOf' = DeployedOf
             /\ Freed' = Freed /\ OwnMoved' = OwnMoved /\ PodMoved' = PodMoved /\ LastMoved' = LastMoved
  BY <1>2, SameSets
<1>3. CASE End("failed")
  BY <1>3 DEF End, EveryMoves, EveryPlan, EveryPass, Prepared
<1>4. CASE UNCHANGED vars
  BY <1>2, <1>4 DEF vars, EveryMoves, EveryPlan, EveryPass
<1>5. CASE Choose \/ Plan
  <2>1. pc' \in {"plan", "prepare"} /\ result' = result /\ result = "running"
    BY <1>5 DEF Choose, Plan, Idling
  <2>2. pc' = "prepare" => {"own", "podiumd"} \subseteq names'
    BY <1>5 DEF Choose, Plan, Changed, Found, Release
  <2>. QED BY <2>1, <2>2 DEF EveryMoves, EveryPlan, EveryPass, Prepared
<1>6. CASE Prepare
  <2>1. pc' = "own" /\ "podiumd" \in todo' /\ result' = result /\ result = "running"
    BY <1>6 DEF Prepare, Idling, EveryMoves, EveryPlan
  <2>. QED BY <2>1 DEF EveryMoves, EveryPlan, EveryPass, Prepared
<1>7. CASE UpgradeOwn \/ UpgradeAgain \/ \E r \in Release : UpgradeOther(r)
  BY <1>7, EveryUpgrades
<1>8. CASE Storage \/ (PoolDone /\ ~End("failed"))
  <2>1. /\ pc \in {"storage", "pool"} /\ pc' \in {"pool", "again", "record"}
        /\ UNCHANGED <<todo, broken, result>> /\ result = "running"
        /\ UNCHANGED <<live, helm, last, want>>
    BY <1>8 DEF Storage, PoolDone, Idling, plan, cluster
  <2>. QED BY <1>2, <2>1 DEF EveryMoves, EveryPlan, EveryPass, Prepared
<1>9. CASE Record
  <2>1. /\ pc = "record" /\ pc' = "ready" /\ UNCHANGED <<live, helm, result, want, todo, broken>>
        /\ last' = [r \in Release |-> IF r \in Found(cur) THEN Digest(cur, held, r) ELSE NotRecorded]
        /\ result = "running"
    BY <1>9 DEF Record, plan, Idling
  <2>2. Own' = Own /\ Pod' = Pod /\ Owned' = Owned /\ DeployedOf' = DeployedOf /\ LatestOf' = LatestOf
    BY <2>1 DEF Own, Pod, Owned, DeployedOf, LatestOf
  <2>3. LastMoved'
    BY <1>9, <2>2, RecordedMoves DEF LastMoved
  <2>4. Freed /\ DeployedOf["own"] = Own /\ OwnMoved /\ PodMoved
    BY <2>1 DEF EveryMoves, EveryPass, Prepared, Idling
  <2>5. Freed' /\ DeployedOf'["own"] = Own' /\ OwnMoved' /\ PodMoved'
    BY <2>2, <2>4 DEF Freed, OwnMoved, PodMoved
  <2>. QED BY <2>1, <2>3, <2>5 DEF EveryMoves, EveryPlan, EveryPass, Prepared
<1>10. CASE StartZac
  <2>1. pc = "ready" /\ pc' = "settle" /\ result' = result /\ result = "running"
    BY <1>10 DEF StartZac, Idling
  <2>2. Freed' /\ DeployedOf'["own"] = Own' /\ OwnMoved' /\ PodMoved' /\ LastMoved'
    BY <1>10, <2>1, ZacKeeps DEF EveryMoves, EveryPass, Prepared, Freed, OwnMoved, PodMoved, LastMoved
  <2>. QED BY <2>1, <2>2 DEF EveryMoves, EveryPlan, EveryPass, Prepared
<1>11. CASE Settle
  <2>1. /\ pc = "settle" /\ pc' \in {"idle", "render"} /\ result' \in {"deployed", "running"}
        /\ UNCHANGED <<live, helm, last, want>>
    BY <1>11 DEF Settle, End, cluster, Idling
  <2>2. OwnMoved' /\ PodMoved' /\ LastMoved'
    BY <1>2, <2>1 DEF EveryMoves, EveryPass
  <2>. QED BY <2>1, <2>2 DEF EveryMoves, EveryPlan, EveryPass, Prepared
<1>12. CASE Fail \/ Kill
  BY <1>3, <1>12 DEF Fail, Kill
<1>. QED BY <1>3, <1>4, <1>5, <1>6, <1>7, <1>8, <1>9, <1>10, <1>11, <1>12 DEF Next, Step

LEMMA MoveStep == MovingCharts /\ TypeOK /\ MoveInv /\ [Next]_vars => MoveInv'
<1> SUFFICES ASSUME MovingCharts, TypeOK, MoveInv, [Next]_vars PROVE MoveInv'
  OBVIOUS
<1>1. OwnersHome' /\ Idling' /\ (every' => EveryMoves')
  BY IdlingStep, HomeStep, EveryStep DEF MoveInv
<1> SUFFICES ASSUME ~switched' PROVE Moves'
  BY <1>1 DEF MoveInv
<1>2. ASSUME NEW s \in Selection, NEW e \in BOOLEAN, Start(s, e) PROVE Moves'
  BY <1>2, StartMoves
<1>3. ASSUME ~\E s \in Selection, e \in BOOLEAN : Start(s, e) PROVE Idling /\ Moves
  <2>1. switched' = switched
    BY <1>3 DEF Next, Step, Choose, Plan, Prepare, UpgradeOwn, Storage, UpgradeOther, PoolDone, UpgradeAgain,
           Record, StartZac, Settle, Fail, Kill, End, vars
  <2>. QED BY <2>1 DEF MoveInv
<1>4. CASE UNCHANGED vars
  <2>1. Idling /\ Moves
    BY <1>4 DEF MoveInv, vars
  <2>. QED BY <1>4, <2>1, SameSets DEF vars, Moves, PassMoves, PlannedMoves, EndMoves, Installed, IsDeployed
<1>5. CASE Next /\ ~\E s \in Selection, e \in BOOLEAN : Start(s, e)
  BY <1>3, <1>5, PlanMoves, PrepareMoves, OwnUpgradeMoves, OtherUpgradeMoves, RecordMoves,
     ZacMoves, QuietMoves, KillMoves DEF Next, Step
<1>. QED BY <1>2, <1>4, <1>5

LEMMA MovesMeetNobody == MovingCharts /\ TypeOK /\ MoveInv => NoConflict
<1> SUFFICES ASSUME MovingCharts, TypeOK, MoveInv PROVE NoConflict
  OBVIOUS
<1> SUFFICES ASSUME OwnersHome, Moves, NEW r \in Release, Running(r),
                    NEW o \in Objects(Target(cur, held, r)) \ Objects(Replaced(r)),
                    NEW q \in Release \ {r}, live[o].by = q
             PROVE  FALSE
  <2>1. \A o \in Object : live[o].by \in Release \cup {"nobody"}
    BY DEF TypeOK
  <2>. QED BY <2>1 DEF NoConflict, Conflict, MoveInv, Objects
<1>1. o \in Object /\ o \in Objects(Render[cur][r]) /\ cur \in Variant
  BY MoveSets, Targets DEF Objects
<1>2. PICK v \in Variant : o \in Objects(Render[v][q])
  BY <1>1 DEF OwnersHome
<1>3. ASSUME r = "monitoring" \/ q = "monitoring" PROVE FALSE
  BY <1>1, <1>2, <1>3 DEF MovingCharts, Release
<1>4. ASSUME r = "own", q = "podiumd" PROVE FALSE
  <2>1. pc \in Prepared /\ o \in Own /\ o \in Movable
    BY <1>1, <1>2, <1>4, MoveSets, Moving2 DEF Running, Prepared, MovableOf
  <2>. QED BY <1>4, <2>1 DEF Moves, PassMoves, Freed, Owned
<1>5. ASSUME r = "podiumd", q = "own" PROVE FALSE
  <2>1. OwnMoved /\ o \in Pod /\ o \in Movable
    BY <1>1, <1>2, <1>5, MoveSets, Moving2 DEF Running, Moves, PassMoves, Prepared, MovableOf
  <2>. QED BY <1>5, <2>1, MoveSets DEF OwnMoved, Owned
<1>. QED BY <1>3, <1>4, <1>5 DEF Release

\* Whatever moves between podiumd's release and this chart's, no upgrade meets an object that
\* another release owns, after any failures, kills and websites left out.  As NoConflict says,
\* not between a failed deploy's switch to another selection and the next success with
\* --every-release, from which on it holds again whatever the deploys between them left.  Every
\* selection has, in one of the two releases, every object that moves: one that drops such an
\* object leaves it, after a switch, where a later selection may meet it.
THEOREM NoneMeetsAnother ==
  ASSUME MovingCharts
  PROVE  Spec => []NoConflict
<1>1. Init => MoveInv
  BY MoveInit
<1>2. TypeOK /\ MoveInv /\ [Next]_vars => MoveInv'
  BY MoveStep
<1>3. TypeOK /\ MoveInv => NoConflict
  BY MovesMeetNobody
<1>. QED BY <1>1, <1>2, <1>3, TypeCorrect, PTL DEF Spec
=============================================================================
