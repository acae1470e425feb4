SPECIFICATION Spec
CONSTANTS
  Letters <- MCLetters
  Chars <- MCChars
  KeywordTexts <- MCKeywords
  Texts = {}
  MaxParseDepth = 3
  Bits64 = 4
  Bits32 = 3
  MaxFieldNumber = 2
  MaxEnumNumber = 3
  Inputs <- EnumFiles
INVARIANT KeywordsAreNotValueNames
CHECK_DEADLOCK FALSE
