\* Other programs stop after their operations.
CHECK_DEADLOCK FALSE
SPECIFICATION Spec
CONSTANTS
  Path <- MCPath
  Ignored <- MCIgnored
  Stamp = {"s", "t"}
  Ino = {2, 3, 4, 5}
  Habits <- RenameBackHabits
INVARIANTS InSync
