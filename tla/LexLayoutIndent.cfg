SPECIFICATION Spec
CONSTANTS
  Calls <- IndentCalls
  TemplateEmits <- NoTemplates
  Terminating <- Names
  TabStop = 2
  MaxIndentDepth = 3
  TokenLimit = 18
INVARIANTS
  TypeOK
  ColumnsIncrease
  Balanced
  OpenColumns
  MisalignedReported
  SourceCovered
  CeilingLeavesRoom
