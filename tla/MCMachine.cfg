CONSTANTS
  MAX_TIMERS = 5
  NoReturn = {"scheduler_timer"}
  Children = {"child"}
  Irqs = {0, 8, 14}
  Ports = {"debug", "ata"}
  DEBUG_PORT = "debug"
  Periods = {1, 3}
  MaxTicks = 5
  MaxTimerId = 4

SPECIFICATION Spec

INVARIANT UserCodeConfined
INVARIANT InterruptsAcknowledged
INVARIANT TimersAsScheduled

CHECK_DEADLOCK FALSE
