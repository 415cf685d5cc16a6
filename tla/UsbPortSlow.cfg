SPECIFICATION Spec
CONSTANTS
  Devices <- OneDevice
  Ports = {"usb"}
  Window = 5
  UsbWait = 20
  SerialWait = 2
  Attempts = 3
  Latencies <- MCLatencies
  MaxChunk = 2
  Frames = {1}
INVARIANTS
  UntilVer
CHECK_DEADLOCK FALSE
