SPECIFICATION Spec
CONSTANTS
  catalog = catalog
  rival = rival
  tool = tool
  f1 = f1
  f2 = f2
  f3 = f3
  f4 = f4
  Nobody = Nobody
  Unset = Unset
  Absent = Absent
  Plugins = {catalog, rival, tool}
  Factories = {f1, f2, f3, f4}
  Slots <- SlotsOf
  Offers <- OffersOf
  Turn <- TurnOf
  Worlds <- AllWorlds
  Names = {"TOKEN", "DSN", "BACKEND"}
INVARIANTS ListedIsWhole NoReferenceUnset AcceptedIsBuilt
