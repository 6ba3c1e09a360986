CONSTANTS
  Conn = {c1, c2, c3}
  nconns = 2
  connrate = 1
  Million = 4
  Delay = 2
  MaxLate = 1
SPECIFICATION FairSpec
INVARIANTS ClientsCounted CommUsedRight TimerExact
PROPERTIES KeepsOpening ConnEnds
CHECK_DEADLOCK FALSE
