SPECIFICATION Spec
CONSTANTS
  Switches <- FewSwitches
  MaxCalls <- FewCalls
INVARIANT AckIsDelivery
CHECK_DEADLOCK FALSE
