CONSTANTS
  r1 = r1
  w1 = w1
  u1 = u1
  r2 = r2
  None = None
  Cb = {c1}
  Timer = {}
  Io = {r1, w1, u1}
  Persist = {r1}
  Ident <- MCIdent
  Filter <- MCFilter
  MaxEvents = 3
  GenMod = 2
  MaxClock = 0
  MaxTimeout = 1
  MinDelay = 1
  AddErrors = {}
  Lax = {}
SPECIFICATION Spec
INVARIANTS ChangesFit ActiveRegistered FreeRemovesQueued
PROPERTIES ApiSpec
