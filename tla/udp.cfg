CONSTANTS
  Uses = {"udp"}
  Frame = {f1, f2, f3, f4}
  MaxQlen = 3
  MaxLen = 0
  SndBuf = 2
  RcvBuf = 2
  connrate = 2
SPECIFICATION UdpFairSpec
INVARIANTS FramesOwned
PROPERTIES KeepsSending DatagramAnswered
CHECK_DEADLOCK FALSE
