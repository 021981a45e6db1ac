SPECIFICATION Spec
SYMMETRY AddrSymmetry
CONSTANTS
  Addr = {a1, a2, a3}
  None = None
  Commands = {"PASV", "RETR"}
  MaxBatch = 1
INVARIANTS PasvSocketPresent
