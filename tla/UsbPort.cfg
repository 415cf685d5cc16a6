SPECIFICATION Spec
CONSTANTS
  Devices <- MCDevices
  Ports = {"usb", "serial"}
  Window = 5
  UsbWait = 20
  SerialWait = 2
  Attempts = 3
  Latencies <- MCLatencies
  MaxChunk = 2
  Frames = {1, 2, 3, 4}
INVARIANTS
  TypeOK
  HearsVer
  HeardInStep
  TalksToBulk
PROPERTIES
  EndsReleased
CHECK_DEADLOCK FALSE
