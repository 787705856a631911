SPECIFICATION Spec
CONSTANTS
  Host = {"zac.local", "objecttypen.local"}
  Fronts <- MCFronts
  Renders <- MCRenders
  Service <- MCService
  RandomIp = {"random"}
  MaxTurns = 2
  MaxKills = 1
  MaxLosses = 1
INVARIANTS HostsServe HostsLineValid
PROPERTIES TunnelProven Unbroken
