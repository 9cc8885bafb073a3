SPECIFICATION Spec
CONSTANTS
  Families <- MCFamilies
  Pieces <- MCPieces
  MaxPieces <- MCMaxPieces
INVARIANTS
  ParsesTheGrammar
  WaitsOnlyForViableTexts
  OpenContainersNest
  NumbersFollowTheGrammar
  NumbersKeepTheirType
  ValidatorsAgree
  AnswersReadBack
  TextRoundTrip
