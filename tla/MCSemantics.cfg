SPECIFICATION Spec
CONSTANTS
  FileSets <- MCFileSets
  AnalyzedSets <- MCAnalyzed
  kKnownEditions = {"2023", "2024"}
  Words <- MCWords
  Keywords = {"class"}
  MemberWords = {"decode"}
  Macros = {"EOF"}
  Internal = {"rp_x"}
  InternalMacros = {"RP_M"}
  Underscored = {"__x", "_x"}
  RefusedWords = {"__x", "rapidproto"}
  NamingRuns <- MCNamed
INVARIANTS
  BindsNearest
  AcceptsExactlySound
  AttributesAsDeclared
  NamesApart
  NamesAsExpected
CHECK_DEADLOCK FALSE
