SPECIFICATION FairSpec
CONSTANTS
  Uris = {u1, u2}
  Contents = {1, 2}
  Fingerprints = {1, 2}
  Fingerprint <- Same
  Texts <- MCTexts
  Settings = {s1}
  Chunks <- MCChunks
  Targets = {x1}
  NoIndex = NoIndex
  Edits <- Onward
  Connectors = {TRUE, FALSE}
  Modes = {TRUE}
  Gone = Gone
  None = None
PROPERTIES Heals
