CONSTANTS
  Uses = {"stream"}
  Frame = {f1, f2}
  MaxQlen = 2
  MaxLen = 2
  SndBuf = 2
  RcvBuf = 2
SPECIFICATION Spec
INVARIANT EofIsPartial
CHECK_DEADLOCK FALSE
