SPECIFICATION FairSpec
CONSTANTS
  Letters <- MCLetters
  Names <- MCNames
  Ids = {1, 2}
  Infos <- MCInfos
  Ttls = {1, 4, 5}
  PerMs = 2
  Width = 8
  MaxTimers = 3
  MaxRenewals = 2
  Files <- MCFiles
  MaxLength = 1
INVARIANTS TypeOK UnarmedOnlyAtLimit KnownByOneName SubtreeCovered
PROPERTIES KeptForTtl Reaped
