SPECIFICATION Spec
CONSTANTS
  Letters <- MCLetters
  Chars <- MCChars
  KeywordTexts <- MCKeywords
  Texts <- MCTexts
  MaxParseDepth = 3
  Bits64 = 4
  Bits32 = 3
  MaxFieldNumber = 2
  MaxEnumNumber = 3
  Inputs <- MCFiles
INVARIANTS
  TokensTileTheText
  DecoderMatchesTheGrammar
  LexErrorsAreWhereTheyAre
  AcceptsTheLanguage
  ErrorsAreWhereTheyAre
  TreeIsTheFile
CHECK_DEADLOCK FALSE
