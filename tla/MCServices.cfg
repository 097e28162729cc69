CONSTANTS
  Clients = {"init", "other"}
  Names = {"/init.c", "/none"}
  FileSectors = 5
  ClusterSize = 4
  Widths = {2, 3}
  SectorLimit = 2
  MaxFaults = 1
SPECIFICATION Spec
INVARIANT ProgramsGetTheirFile GoesDownForACause
PROPERTY EveryProgramEnds
CHECK_DEADLOCK FALSE
