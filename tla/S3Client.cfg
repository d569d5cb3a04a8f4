SPECIFICATION Spec
CONSTANTS
  u1 = u1
  u2 = u2
  Uploads = {u1, u2}
  Keys = {1, 2}
  Prefixed = {1, 2}
  Target <- MCTarget
  Files <- MCFiles
  PageSize = 1
  MaxParts = 2
  Absent = Absent
  MaxFaults = 2
SYMMETRY UploadSymmetry
INVARIANTS NoPartsLeft ErrorStoresNothing PurgeLeavesNothing
PROPERTIES ImplementsObjectStorage
CHECK_DEADLOCK FALSE
