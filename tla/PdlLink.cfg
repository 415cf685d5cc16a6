SPECIFICATION Spec
CONSTANTS
  Magic = 9
  Payloads <- MCPayloads
  MaxOpens = 4
INVARIANTS
  TypeOK
  InStep
  NothingSwallowed
PROPERTIES
  LinkIsFifo
CHECK_DEADLOCK FALSE
