\* Texts of up to seven runes of one to three bytes; a model that may be down.
CONSTANTS
  Width <- WidthMC
  LowerCase <- LowerMC
  RuneError = "?"
  Letters <- LettersMC
  WordRunes = {"A", "a", "p", "D", "M"}
  Texts <- TextsMC
  Patterns <- PatternsMC
  Unreal <- UnrealMC
  Gazetteer <- GazetteerMC
  Answers <- AnswersMC
  Limit = 2
  Threshold = 1
  RequestTimeout = 1
SPECIFICATION FairSpec
INVARIANTS
  FactsExact
PROPERTIES
  ExtractionBounded
\* An extraction comes to its end.
CHECK_DEADLOCK FALSE
