--------------------------- MODULE MCEdgeGateway ---------------------------
(* ZAC with and without its nginx, objecttypen in its own component and merged into objecten, *)
(* and everything in the namespace of before the Helm releases.                               *)
EXTENDS EdgeGateway, TLC

MCFronts == "zac" :> "zac-nginx"
MCService == {"zac", "zac-nginx", "objecttypen", "objecten"}

In(ns) == [s \in MCService |-> ns]
Ingress(zac, types) == [h \in {"zac.local", "objecttypen.local"} |-> IF h = "zac.local" THEN zac ELSE types]

MCRenders == {
  [ingress |-> Ingress("zac", "objecttypen"), ns |-> In("podiumd"), services |-> MCService],
  [ingress |-> Ingress("zac", "none"), ns |-> In("podiumd"), services |-> MCService],
  [ingress |-> Ingress("zac", "objecten"), ns |-> In("podiumd"), services |-> MCService \ {"zac-nginx"}],
  [ingress |-> Ingress("zac", "objecttypen"), ns |-> In("old"), services |-> MCService \ {"zac-nginx"}] }
=============================================================================
