CONSTANTS
  Steps = {s1}
  MaxAttempts = 4
  Retained = 3
SPECIFICATION TreeSpec
INVARIANTS
  TreeTypeOK
  CompleteOrAbsent
  OnePerPlace
  PrunedAreOldest
  SupersededNamesDistinct
PROPERTIES
  NoStepLosesAUnit
  ImplementsStore
