SPECIFICATION Spec
CONSTANTS
  NumScripts = 1
  HasParse <- AllParse
  Agents = {}
  CookieChoices = {}
  MaxHeaders = 1
  MaxCalls = 0
  MaxGoto = 0
PROPERTY AnyTypeSupports
