---------------------------- MODULE MCResetVault ----------------------------
(* A labelled ClusterRole, an operator's without the label, a templated CRD, and two that are no *)
(* release's: a CRD of a crds/ directory with the instance label, and the cluster's own.         *)
EXTENDS ResetVault

Mark(release, crd, byLabel, byAnnotation) ==
  [release |-> release, crd |-> crd, byLabel |-> byLabel, byAnnotation |-> byAnnotation]

MCClusterObject == {
  Mark(TRUE, FALSE, TRUE, TRUE), Mark(TRUE, FALSE, FALSE, TRUE), Mark(TRUE, TRUE, TRUE, TRUE),
  Mark(FALSE, TRUE, TRUE, FALSE), Mark(FALSE, FALSE, FALSE, FALSE) }
=============================================================================
