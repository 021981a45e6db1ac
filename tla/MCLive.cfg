SPECIFICATION FairSpec
CONSTANTS
  Addr = {a1, a2}
  None = None
  Commands = {"PASV", "RETR", "STAT", "QUIT"}
  MaxBatch = 1
PROPERTIES PollReturns SilentSessionReaped
