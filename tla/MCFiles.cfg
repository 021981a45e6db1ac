SPECIFICATION Spec
SYMMETRY MCSymmetry
CONSTANTS
  Name = {"fs", "slc", "sd", "d", "e"}
  Client = {c1, c2}
  Handle = {h1, h2}
  None = None
  Places <- MCPlaces
  Volumes <- MCVolumes
  Tables <- MCTables
  Args <- MCArgs
INVARIANTS
  TypeOK
  HandlesOpen
  ListedWhole
  PathsAsMeant
  CwdIsDirectory
