SPECIFICATION Spec
CONSTANTS
  MaxU32 = 12
  MinLines = 2
  LineBytes = 4
  Results = {1, 2}
  Languages <- TwoLanguages
  Texts <- SomeTexts
  OwnTexts <- OwnChoices
  OwnFlags <- Policies
  DiagCap = 1
  ChunkTypes = 2
  MaxTypes = 3
INVARIANTS
  ResultsSound
  PositionsRight
