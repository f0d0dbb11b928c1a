CONSTANTS
  Workers = {w1, w2}
  Ids = {1, 2}
  Backups <- MCBackups
  Planes = {"capella", "enterprise"}
  Tags = {"t"}
  StartingFiles <- MCStartingFiles
  Absent = Absent
  Torn = Torn
  Lost = Lost
  Overlaps = FALSE
  MaxFaults = 1
  MaxCrashes = 1
SPECIFICATION Spec
CHECK_DEADLOCK FALSE
SYMMETRY WorkersAlike
INVARIANTS CatalogInv
PROPERTIES Implements
