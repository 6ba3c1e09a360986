CONSTANTS
  Conn = {c1, c2}
  NumThreads = 2
SPECIFICATION FairSpec
INVARIANTS FdInOnePlace CommUsedRight ToldInOrder HandoverSafe
PROPERTIES Adopted ConnEnds
CHECK_DEADLOCK FALSE
