SPECIFICATION Spec
CONSTANTS
  Cmds <- MCCmds
  Payloads <- MCPayloads
INVARIANTS
  RoundTrip
  DamageHarmless
  ChecksumsAgree
CHECK_DEADLOCK FALSE
