SPECIFICATION FairSpec
CONSTANTS
  Programs <- GrammarPrograms
  FailingPrograms <- AllocPrograms
  Operators <- Table
  MaxPrec = 10
  MaxDepth = 4
  Calls = TRUE
  TargetSets <- Targets
  MaxStored = 18
  MaxFailing = 2
INVARIANTS
  TypeOK
  DepthCounts
  OneParent
  DerivesItsTokens
  BindsAsDeclared
  SpansNest
  RetryIsIdentical
  RecoveryStopsOutside
PROPERTIES
  ReachesEnd
