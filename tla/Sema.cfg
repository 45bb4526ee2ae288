SPECIFICATION Spec
CONSTANTS
  Trees <- SemaTrees
  FailingTrees <- SmallTrees
  CheckedTrees <- PostTrees
  Names = {"x", "y"}
  Types = {"A", "B", "C", "D"}
  Narrowings <- Lists
  MaxDepth = 3
  FirstCap = 1
  MaxBodies = 2
  MaxBound = 2
INVARIANTS
  TypeOK
  ScopesMatch
  BranchesUndone
  ResolvesLexically
  NothingSilent
  OverloadIsBest
