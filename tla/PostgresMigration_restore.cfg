SPECIFICATION Spec
CONSTANTS
  Major = {15, 16}
  First = 15
  StartNames = {"objecten"}
  StartOwner = "postgres"
  MaxWrites = 2
  InterruptAt = {"restore"}
  MaxInterrupts = 1
INVARIANT RowsKept
