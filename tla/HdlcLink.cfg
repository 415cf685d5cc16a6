SPECIFICATION FairSpec
CONSTANTS
  Byte <- MCByte
  HdlcFlag = "7e"
  HdlcEscape = "7d"
  Flip <- MCFlip
  Bodies <- MCBodies
  MaxFrames = 3
  MaxDeadlines = 2
  MaxLost = 2
INVARIANTS
  TypeOK
  OneDamagedPerByte
  OneMissedPerFault
PROPERTIES
  LinkIsFifo
  FramesArrive
CHECK_DEADLOCK FALSE
