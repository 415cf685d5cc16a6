SPECIFICATION Spec
CONSTANTS
  Files <- MCFiles
  Absent = Absent
  HeaderSize = 2
  MaxReplace = 0
INVARIANTS
  ForceFlashes
CHECK_DEADLOCK FALSE
