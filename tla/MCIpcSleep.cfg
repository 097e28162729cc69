CONSTANTS
  MaxPid = 3
  PidBits = 32
  MaxPort = 0
  FirstDynamicPort = 0
  MsgIds = {m1}
  Sizes = {1}
  SleepTimes = {1}
  SLEEP_INFINITE = 5
  Horizon = 3
SPECIFICATION FairSpec
PROPERTY SleepEnds
