SPECIFICATION MCSpec
CONSTANTS
  Malformed = malformed
  Missing = missing
  Wrong = wrong
  Incomplete = incomplete
  BadCode = badcode
  NotANumber = nan
  Null = null
  None = none
  Broken = broken
  Nothing = nothing
  Newline = newline
  Nul = nul
  Error = error
  Undefined = undefined
  Unread = unread
  Nowhere = nowhere
  Nobody = nobody
  Absent = absent
  NaN = notime
  Garbage = garbage
  Characters = {me, bob}
INVARIANTS
  SortsAndKeeps
  LineIsUnderstood
  CutsDoNotMatter
  ServesAsAsked
  LibrariesKeepTheirPromises
  ToolsAnswerRight
CHECK_DEADLOCK FALSE
