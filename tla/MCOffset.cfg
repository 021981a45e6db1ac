SPECIFICATION Spec
CONSTANTS
  Byte = {0, 1, 2, 3}
  NUL = 0
  Size = 2
  UMax = 31
  LongMax = 7
  Offsets <- MCOffsets
  Contents <- MCContents
  Upload = {1, 3}
  MaxUpload = 3
  MaxTransfers = 2
INVARIANT BeginsAtPositionFromREST
