SPECIFICATION Spec
CONSTANTS
  Calls <- StarCalls
  Derivations <- StarDerivations
  MaxInterpDepth = 2
INVARIANTS
  DerivesTemplates
