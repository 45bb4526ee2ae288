SPECIFICATION Spec
CONSTANTS
  Programs <- NoPrograms
  FailingPrograms <- StallPrograms
  Operators <- Table
  MaxPrec = 10
  MaxDepth = 4
  Calls = TRUE
  TargetSets <- Targets
  MaxStored = 6
  MaxFailing = 6
INVARIANTS
  ExpressionAdvances
