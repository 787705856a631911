SPECIFICATION FairSpec
CONSTANTS
  Proc = {p1, p2, p3}
  NoProc = NoProc
  Who = {anna}
  Holder = holder
  MaxDepth = 2
  MaxClock = 1
  MaxKills = 1
  Coordinated = TRUE
  ReleaseAnyway = FALSE
INVARIANTS HoldsTheLock MutualExclusion StaleOnlyByKill
PROPERTIES LiveHoldStays IsExclusive HoldEnds
