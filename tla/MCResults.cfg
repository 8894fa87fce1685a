SPECIFICATION ResultSpec
CONSTANTS
  Ids <- AllIds
  Formats = {0, 1, 2}
  Matching <- AllMatching
  MediaTables <- SomeMediaTables
  SubtitleTables <- SomeSubtitleTables
  PlaylistTables <- SomePlaylistTables
  ScanRuns <- SomeScanRuns
  IdLists <- SomeIdLists
INVARIANTS
  ResultTypeOK
  StreamSelectPicks
  SubtitleSelectPicks
  EntriesAreThere
  FormatsAreOwn
  ListsAreComplete
