SPECIFICATION Spec
CONSTANTS
  Names <- MCNames
  Dirs <- MCDirs
  Files <- MCFiles
  MaxSize = 1
  MaxQueue = 4
  MaxOps = 3
CHECK_DEADLOCK FALSE
INVARIANTS TreeIsWatched
