CONSTANTS
  MaxPid = 4
  PidBits = 32
  MaxPort = 2
  FirstDynamicPort = 1
  MsgIds = {m1, m2}
  Sizes = {1}
  SleepTimes = {}
  SLEEP_INFINITE = 5
  Horizon = 0
SPECIFICATION Spec
INVARIANT SendIsSynchronous
