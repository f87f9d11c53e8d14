SPECIFICATION Spec
CONSTANTS
  a = a
  b = b
  Nothing = Nothing
  Queued = Queued
  Sent = Sent
  Runs = {a, b}
  Worlds <- AllWorlds
  Dimensions <- Sizes
  BatchSize = 2
  InFlight = 2
  RowsPerInsert = 2
  MaxDrops = 1
INVARIANTS ChunksComplete VectorsFollow StoredFound OneConnection
