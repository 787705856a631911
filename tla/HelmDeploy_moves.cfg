SPECIFICATION FairSpec
CONSTANTS
  Selection = {"v1", "v2"}
  Variant <- MCVariant
  WithoutWebsite <- MCWithoutWebsite
  Render <- MCRender
  Object <- MCObject
  Zac = "zac"
  WithZacJobs <- MCWithZacJobs
  Search = "es"
  Policy = "policy"
  Body = {"b1", "b2"}
  Admits = {"b2"}
  Off = "off"
  Absent = "absent"
  MayFail = {"own", "podiumd", "monitoring"}
  MovesMayFail = FALSE
  MaxFailures = 2
  MaxKills = 1
INVARIANTS DeployedIsLive SkippedIsLive NoConflict
PROPERTIES ZacWaits RetryConverges
