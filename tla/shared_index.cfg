SPECIFICATION FairSpec
CONSTANTS
  s1 = s1
  s2 = s2
  a = a
  b = b
  h1 = h1
  h2 = h2
  Sources = {s1, s2}
  Last = 3
  Uris = {a, b}
  Uri <- UriOf
  Hashes = {h1, h2}
  Chunks <- ChunksOf
  Reach <- Apart
  Backends <- AllBackends
  BatchSize = 2
  PageSize = 1
  None = None
INVARIANTS Exact
PROPERTIES Isolated RunsEnd
