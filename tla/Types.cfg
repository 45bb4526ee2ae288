SPECIFICATION Spec
CONSTANTS
  Settings <- TypeSettings
  SupersCap = 2
  VariantsCap = 2
  SubstCap = 2
  Rooms = {0, 1, 20}
INVARIANTS
  TypeOK
  EqualIsSameTree
  InferenceSound
  RelationsOrder
CHECK_DEADLOCK FALSE
