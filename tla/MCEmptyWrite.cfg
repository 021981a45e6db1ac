SPECIFICATION Spec
SYMMETRY AddrSymmetry
CONSTANTS
  Addr = {a1, a2}
  None = None
  Commands = {"STAT", "NOOP"}
  MaxBatch = 1
INVARIANTS WritesSomething
