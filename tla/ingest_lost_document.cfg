SPECIFICATION Spec
CONSTANTS
  Uris = {u1}
  Contents = {1, 2}
  Fingerprints = {1, 2}
  Fingerprint <- Same
  Texts <- MCTexts
  Settings = {s1}
  Chunks <- MCChunks
  Targets = {x1}
  NoIndex = NoIndex
  Edits <- AnyEdit
  Connectors = {TRUE}
  Modes = {TRUE}
  Gone = Gone
  None = None
INVARIANTS EntriesIndexed
