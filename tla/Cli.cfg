SPECIFICATION Spec
CONSTANTS
  Files <- MCFiles
  Absent = Absent
  HeaderSize = 2
  MaxReplace = 3
INVARIANTS
  TypeOK
  OnlyVerifiedIsSent
  ExitTells
CHECK_DEADLOCK FALSE
