SPECIFICATION FairSpec
CONSTANTS
  Byte = {"NUL", "CR", "LF", "DM"}
  NUL = "NUL"
  CR = "CR"
  LF = "LF"
  DM = "DM"
  Size = 3
  MaxBytes = 4
  MaxSynchs = 2
INVARIANTS
  TypeOK
  OnlyLongLinesRefused
PROPERTIES
  LinesSpec
  NothingLeftLying
