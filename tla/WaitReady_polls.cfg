SPECIFICATION FairSpec
CONSTANTS
  Job = {"openzaak-config", "create-required-catalogi-job", "openklant-config"}
  ZacJob = {"openzaak-config", "create-required-catalogi-job"}
  JobsMayFail = TRUE
  FailedExpire = FALSE
  MayTimeOut = TRUE
  MaxOutages = 1
INVARIANTS ReadyIsReady
PROPERTIES ZacAfterJobs RestartHelps Settles
CHECK_DEADLOCK FALSE
