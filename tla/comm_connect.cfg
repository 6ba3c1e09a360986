CONSTANTS
  Uses = {"client"}
  Frame = {f1, f2}
  MaxQlen = 2
  MaxLen = 2
  SndBuf = 2
  RcvBuf = 2
SPECIFICATION FairSpec
PROPERTY CloseEnds
CHECK_DEADLOCK FALSE
