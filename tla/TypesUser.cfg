SPECIFICATION Spec
CONSTANTS
  Settings <- UserSettings
  SupersCap = 2
  VariantsCap = 2
  SubstCap = 2
  Rooms = {0, 1, 20}
INVARIANTS
  StrictInfers
CHECK_DEADLOCK FALSE
