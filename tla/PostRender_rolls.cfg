SPECIFICATION RolloutSpec
CONSTANTS
  Rendered <- MCRendered
  Toggles = {"outway", "full", "rebuilt"}
  ObjectenMerged <- MCMerged
  Retried <- MCRetried
  Entrypoints <- MCEntrypoints
  Capacity <- MCCapacity
  ExternalsJobs = {"openzaak-config"}
  ZacJobs = {"openzaak-config"}
  MaxDeploys = 3
  MaxFaults = 1
INVARIANTS PodsRunCurrent JobsAccepted RunsTheSame EnvKept GoLimited
CHECK_DEADLOCK FALSE
