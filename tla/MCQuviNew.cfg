SPECIFICATION FairWalkSpec
CONSTANTS
  MaxEnvDirs = 1
  Names = {"foo.lua", "bar.lua", "baz.lua", "bad.lua"}
  Shas = {1, 2, 3}
  Installations <- SmallInstallations
  WalkTypes = {"media", "subtitle_export", "unknown"}
INVARIANTS
  NewTypeOK
  WalkTypeOK
  NoIdenticalScripts
  FirstCopyIsKept
  NothingIsLost
  CodeNamesMissingKind
PROPERTIES
  NewReturns
  WalksAreComplete
  AnswersAreCurrent
