SPECIFICATION Spec
CONSTANTS
  NumScripts = 1
  HasParse <- AllParse
  Agents = {"MyPlayer/1.0"}
  CookieChoices = {TRUE, FALSE}
  MaxHeaders = 1
  MaxCalls = 1
  MaxGoto = 1
INVARIANTS
  ReturnCodeIsExplained
  TransferMethod
  BodyHasLiveSink
  HeaderListIsLive
  AgentIsHonoured
PROPERTIES
  ParseStartsClean
  SessionSpec
