SPECIFICATION Spec
CONSTANTS
  Byte = {0, 1, 2}
  NUL = 0
  Size = 4
  Replies <- MCReplies
  MaxBytes = 8
INVARIANTS FreeAreaInBuffer
