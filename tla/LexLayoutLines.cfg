SPECIFICATION FairSpec
CONSTANTS
  Calls <- LineCalls
  TemplateEmits <- LineTemplates
  Terminating <- Names
  TabStop = 2
  MaxIndentDepth = 3
  TokenLimit = 100
INVARIANTS
  StreamComplete
  NewlinesEndLines
  SemicolonsEndStatements
PROPERTIES
  Terminates
