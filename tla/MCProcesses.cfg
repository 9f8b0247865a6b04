SPECIFICATION MCSpec
CONSTANTS
  PipeSize = 1
  MaxStages = 3
  OpenMax = 5
  Exit = exit
  BadLine = badline
  Scripts <- MCScripts
  FileSystem <- MCFileSystem
  Items <- MCItems
  Calls <- MCCalls
  Reactors = {r1, r2}
  Server = server
  Jobs <- MCJobs
  MaxKills = 3
  Bodies <- MCBodies
  MaxRequests = 3
  BufferSize = 1
  MaxOpen = 1
  Removed = removed
  Nobody = nobody
INVARIANTS
  PipelinesCompose
  ReturnsOrHangs
  HalfIsServedOnlyAfterACut
  AnswersHadTheirMoment
PROPERTIES
  EverythingEnds
  LoneUploadIsTheFile
CHECK_DEADLOCK FALSE
