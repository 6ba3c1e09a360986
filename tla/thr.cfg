CONSTANTS
  NThreads = 2
  Thread <- Threads
  File = {f1, f2}
  Name <- Names
  Setting <- Settings
  SectionMax = 2
SPECIFICATION FairSpec
INVARIANTS TypeOK LogSafe
PROPERTIES LogFlushed GroupEnds
CHECK_DEADLOCK FALSE
