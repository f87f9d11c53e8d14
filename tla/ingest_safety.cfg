SPECIFICATION Spec
CONSTANTS
  Uris = {u1}
  Contents = {1, 2}
  Fingerprints = {1, 2}
  Fingerprint <- Same
  Texts <- MCTexts
  Settings = {s1, s2}
  Chunks <- MCChunks
  Targets = {x1, NoIndex}
  NoIndex = NoIndex
  Edits <- AnyEdit
  Connectors = {TRUE, FALSE}
  Modes = {TRUE, FALSE}
  Gone = Gone
  None = None
INVARIANTS TypeOK CommittedIndexed NoOrphans Published
