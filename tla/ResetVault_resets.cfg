SPECIFICATION FairSpec
CONSTANTS
  Namespace = {"podiumd", "monitoring"}
  Object = {"solrcloud", "redis"}
  ClusterObject <- MCClusterObject
  NodeAnswers = TRUE
  ScriptCut = FALSE
  MaxVaults = 2
  MaxCuts = 2
INVARIANTS KeyKept ResetClean NoTokenLeft
PROPERTIES NamespacesGo
