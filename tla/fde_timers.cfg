CONSTANTS
  r1 = r1
  w1 = w1
  u1 = u1
  r2 = r2
  None = None
  Cb = {}
  Timer = {t1, t2, t3, t4}
  Io = {}
  Persist = {}
  Ident <- MCIdent
  Filter <- MCFilter
  MaxEvents = 3
  GenMod = 2
  MaxClock = 4
  MaxTimeout = 1
  MinDelay = 1
  AddErrors = {}
  Lax = {}
SPECIFICATION FairSpec
INVARIANT DueTimersRan
