SPECIFICATION Spec
CONSTANTS
  Messages <- MCMessages
  Schemas <- MCAllSchemas
  inline_submsg_cutoff = 16
  kMaxChainDepth = 4
  kBitsPerWord = 16
  NumMessages = 3
  FlattenInputs <- MCAllFlattens
  SizeMax = 8
  MessageTypes = {"A", "B"}
  Enums = {"E"}
  Fields <- MCFields
  Profiles <- MCProfiles
INVARIANTS
  MembersApart
  PlanIgnoresTheOrder
  BudgetHonoured
  IdentityDeterminesModes
  AcceptsSoundProfiles
PROPERTIES
  PassesEnd
CHECK_DEADLOCK FALSE
