SPECIFICATION Spec
CONSTANTS
  Command = {first, second}
  first = first
  second = second
  Chart = {"podiumd", "monitoring-logging"}
  Selection <- MCSelection
  Declared = "0.0.1"
  MaxCommands = 3
  MaxEdits = 1
  MaxKills = 1
SYMMETRY Symmetry
INVARIANTS SyncMatches YamlAsFound
CHECK_DEADLOCK FALSE
