SPECIFICATION FairSpec
CONSTANTS
  a = a
  b = b
  c = c
  d = d
  e = e
  Docs = {a, b, c, d, e}
  Rank <- RankOf
  Meta <- MetaOf
  Parent <- ParentOf
  PageLimit = 2
  MaxEdits = 2
  Main = main
  Tasks = {a, b, c, d, e, main}
  Nobody = Nobody
  MaxLapses = 2
  MaxAttempts = 2
  Worlds <- AllWorlds
  Projects <- Group
  TreeLimit = 4
  Slots = 2
  MaxEvents = 2
  Skip = Skip
  Error = Error
  Empty = Empty
CHECK_DEADLOCK FALSE
INVARIANTS TypeOK NoneMissed NoneTwice FetchComplete Paired RefusedOnlyOnRetry OneTokenPerLife
PROPERTIES TokenProtocol RunEnds
