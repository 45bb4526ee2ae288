SPECIFICATION FairSpec
CONSTANTS
  Calls <- TemplateCalls
  Derivations <- TemplateDerivations
  MaxInterpDepth = 2
INVARIANTS
  TypeOK
  DerivesTemplates
  TokensTile
  NumbersMaximal
PROPERTIES
  Returns
