\* Switches, cable and host at any time, boot included.
CONSTANTS
  SW_PIN_1 = SW_PIN_1
  SW_PIN_2 = SW_PIN_2
  Pins = {SW_PIN_1, SW_PIN_2}
  Direct <- MCDirect
  ColsLen <- MCColsLen
  KeyCount = 2
  Source <- MCSource
  Bit <- MCBit
  LayersLen = 2
  Actions <- MCActions
SPECIFICATION WiredFairSpec
INVARIANTS TypeOK AllDelivered MissedIsSensed HostSound HostAgrees
PROPERTIES NoDuplicate CalmEdgesDetected HostFollows
