\* A switch that moves while another one's event is being handled.
CONSTANTS
  p1 = p1
  p2 = p2
  p3 = p3
  Pins = {p1, p2, p3}
  Direct <- MCDirect
  ColsLen <- MCColsLen
SPECIFICATION FairSpec
PROPERTIES EdgesDetected
