SPECIFICATION Spec
CONSTANTS
  NumScripts = 1
  HasParse <- AllParse
  Agents = {}
  CookieChoices = {}
  MaxHeaders = 1
  MaxCalls = 2
  MaxGoto = 0
INVARIANT ResultIsOwn
