CONSTANTS
  Uses = {"stream", "client", "listener", "udp"}
  Frame = {f1, f2}
  MaxQlen = 2
  MaxLen = 2
  SndBuf = 2
  RcvBuf = 2
SPECIFICATION FairSpec
INVARIANTS Expected Awaited FdeDuties
PROPERTIES ApiSpec ReadAnswered WriteAnswered ConnectAnswered FrameAnswered StreamCloseEnds
CHECK_DEADLOCK FALSE
