SPECIFICATION FairSpec
CONSTANTS
  NumScripts = 2
  HasParse <- AllParse
  Agents = {}
  CookieChoices = {}
  MaxHeaders = 0
  MaxCalls = 2
  MaxGoto = 1
INVARIANTS
  TypeOK
  ReturnCodeIsExplained
  ErrorTextIsCurrent
  ParsesMatchedScript
PROPERTIES
  MediaIsUsable
  CallsReturn
