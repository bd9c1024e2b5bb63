SPECIFICATION FairSpec
CONSTANTS
  Names <- MCNames
  Dirs <- MCDirs
  Files <- MCFiles
  MaxSize = 2
  MaxQueue = 5
  MaxOps = 6
CHECK_DEADLOCK FALSE
INVARIANTS TypeOK UnknownIsOverflow ViewCatchesUp
PROPERTIES GrowthAnnounced
