CONSTANTS
  MaxPid = 4
  PidBits = 32
  MaxPort = 1
  FirstDynamicPort = 1
  MsgIds = {m1, m2}
  Sizes = {1, 2}
  SleepTimes = {1}
  SLEEP_INFINITE = 5
  Horizon = 0
SPECIFICATION FairSpec
PROPERTY ReadyRuns ReceiveCompletes SendCompletes OpenCompletes ImplementsChannel
