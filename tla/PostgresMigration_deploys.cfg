SPECIFICATION FairSpec
CONSTANTS
  Major = {15, 16}
  First = 15
  StartNames = {"objects", "objecten", "none"}
  StartOwner = "app"
  MaxWrites = 2
  InterruptAt = {"check", "dump", "apply", "names", "close", "missing", "create role", "create database", "align", "give", "upgrade"}
  MaxInterrupts = 1
INVARIANTS RowsKept AppCanConnect NothingGone
PROPERTIES RemovesOnlyCopies RetryConverges
