--------------------------- MODULE MCHelmDeploy ---------------------------
(***************************************************************************)
(* HelmDeploy for TLC.  Three selections: v2 moves object x from podiumd's *)
(* release to this chart's, as podiumd 4.10 does with Ingress objecttypen, *)
(* adds monitoring-logging, ZAC's Jobs, and what admits KISS's hook to the *)
(* NetworkPolicy; v3 is v2 without the move.                               *)
(***************************************************************************)
EXTENDS HelmDeploy, TLC

MCObject == {"a", "x", "zac", "es", "policy", "site", "mon"}

Nil == [o \in MCObject |-> "absent"]

Has(m) == [o \in MCObject |-> IF o \in DOMAIN m THEN m[o] ELSE "absent"]

MCRender ==
  LET own1 == Has([a |-> "b1"])
      own2 == Has([a |-> "b1", x |-> "b2"])
      own3 == Has([a |-> "b2"])
      mon  == Has([mon |-> "b1"])
      pod1(s) == Has([x |-> "b1", zac |-> "b1", es |-> "b1", policy |-> "b1", site |-> s])
      pod2(s) == Has([zac |-> "b1", es |-> "b1", policy |-> "b2", site |-> s])
      pod3(s) == Has([x |-> "b1", zac |-> "b1", es |-> "b1", policy |-> "b2", site |-> s])
  IN  [v1    |-> [own |-> own1, podiumd |-> pod1("b1"), monitoring |-> Nil],
       v1off |-> [own |-> own1, podiumd |-> pod1("absent"), monitoring |-> Nil],
       v2    |-> [own |-> own2, podiumd |-> pod2("b1"), monitoring |-> mon],
       v2off |-> [own |-> own2, podiumd |-> pod2("absent"), monitoring |-> mon],
       v3    |-> [own |-> own3, podiumd |-> pod3("b1"), monitoring |-> mon],
       v3off |-> [own |-> own3, podiumd |-> pod3("absent"), monitoring |-> mon]]

MCVariant == DOMAIN MCRender
MCWithZacJobs == {"v2", "v2off", "v3", "v3off"}
WebsiteOff == [v1 |-> "v1off", v2 |-> "v2off", v3 |-> "v3off"]
MCWithoutWebsite == [s \in Selection |-> WebsiteOff[s]]
=============================================================================
