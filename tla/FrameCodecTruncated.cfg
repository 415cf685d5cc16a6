SPECIFICATION Spec
CONSTANTS
  Cmds <- MCCmds
  Payloads <- MCPayloads
INVARIANTS
  TruncatedRejected
CHECK_DEADLOCK FALSE
