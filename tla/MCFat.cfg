CONSTANTS
  SS = 4
  EPS = 2
  BODY = 2
  EXT = 1
  PART = 3
  FF_MAX_LFN = 7
  MAX_DIR = 20
  MAX_FAT12 = 4
  MAX_FAT16 = 6
  MAX_FAT32 = 20
  MAX_COUNT = 2
  Volumes <- MCVolumes
  Handles = {h1}
  Paths <- MCPaths
  DirPaths <- MCDirPaths
  Lengths = {1, 5, 15}
  Offsets = {3, 8, 17}
  MaxErrors = 1
  MaxOpens = 2
  MaxListed = 4
SPECIFICATION Spec
INVARIANT FilesAreFound ReadsTheFile
CHECK_DEADLOCK FALSE
