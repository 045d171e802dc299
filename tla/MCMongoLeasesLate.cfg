SPECIFICATION Spec
CONSTANTS
  w1 = w1
  w2 = w2
  f1 = f1
  f2 = f2
  s1 = s1
  s2 = s2
  None = None
  Stores <- MCStores
  Writers <- MCWriters
  Latecomers = {s2}
  SlowWriters = {}
  Fscks = {f1}
  Forced = {}
  MaxDeaths = 1
INVARIANT
  NextSaveObservesSweeps
CHECK_DEADLOCK FALSE
