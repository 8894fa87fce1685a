SPECIFICATION Spec
CONSTANTS
  NumScripts = 2
  HasParse <- AllParse
  Agents = {}
  CookieChoices = {}
  MaxHeaders = 1
  MaxCalls = 1
  MaxGoto = 0
PROPERTY HeadersAreCleared
