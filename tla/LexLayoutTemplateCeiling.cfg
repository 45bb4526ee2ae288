SPECIFICATION Spec
CONSTANTS
  Calls <- TemplateCalls
  TemplateEmits <- LongTemplates
  Terminating <- Names
  TabStop = 2
  MaxIndentDepth = 3
  TokenLimit = 12
INVARIANTS
  CeilingLeavesRoom
