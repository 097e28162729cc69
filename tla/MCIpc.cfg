CONSTANTS
  MaxPid = 4
  PidBits = 3
  MaxPort = 2
  FirstDynamicPort = 1
  MsgIds = {m1, m2, m3}
  Sizes = {1}
  SleepTimes = {}
  SLEEP_INFINITE = 1
  Horizon = 1
SPECIFICATION Spec
SYMMETRY MsgSymmetry
INVARIANT TypeOK OneQueuePerTask ChecksFailOnlyOnWrap NoLostMessageWakeup BlockedSenderHasMessage NoSenderLeftWaiting ClientSendIsSynchronous WakeFailsOnlyAfterOwnerExit
PROPERTY NoTaskLost
